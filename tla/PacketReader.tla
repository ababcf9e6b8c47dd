---------------------------- MODULE PacketReader ----------------------------
(***************************************************************************)
(* The receiving half of io::host::spi_pkt_slave: the thread read_process, *)
(* which finds the packets in the bytes that tRead (SPI1_Read) returns,    *)
(* and recv(), which earpc's receive thread calls.  They share a deque of  *)
(* at most max_incoming_packets and two semaphores:                        *)
(*   sem_incoming  a lock on the deque, given first by read_process        *)
(*   sem_read_api  tells recv() of packets                                 *)
(* An action is what a thread does from one semaphore call to the next,    *)
(* or up to the return of tRead.                                           *)
(*                                                                         *)
(* A frame is a start byte, the size of the packet, the packet and a stop  *)
(* byte.  The host clocks bytes in all the time it reads, so that frames   *)
(* are separated by filler, which is anything but a start byte.            *)
(***************************************************************************)
EXTENDS TxSemaphore, SequencesExt

CONSTANTS
    MaxByte,     \* bytes are 0 .. MaxByte
    Start, Stop, \* start_byte, stop_byte
    Reader,      \* the thread read_process
    Receiver,    \* the thread that calls recv()
    MaxIncoming, \* max_incoming_packets
    MaxWire,     \* bound: bytes that arrived and were not read
    MaxFrames,   \* bound: frames the host sends
    MaxFill,     \* bound: filler bytes between them
    MaxLost,     \* bound: bytes lost before they are read
    Packet       \* packets the host sends

Byte   == 0 .. MaxByte
Thread == {Reader, Receiver}

ASSUME ReaderAssumption ==
    /\ Start \in Byte /\ Stop \in Byte
    /\ Reader # Receiver
    /\ MaxIncoming \in Nat \ {0}
    /\ \A d \in Packet : d \in Seq(Byte) /\ Len(d) \in Byte

VARIABLES
    pc,        \* pc[t]: the call thread t is in, or about to make
    wire,      \* the bytes that arrived
    size,      \* the size byte of the frame that is being read
    hand,      \* the packet read_process has accepted and not yet put there
    incoming,  \* the deque
    sem_incoming, sem_read_api,
    sent,      \* history: the packets the host sent
    accepted,  \* history: the packets read_process accepted
    fill, lost \* how much filler came, and how many bytes were lost

sems    == <<sem_incoming, sem_read_api>>
history == <<sent, accepted, fill, lost>>
vars    == <<pc, wire, size, hand, incoming, sems, history>>

Goes(t, from) ==
    /\ pc[t] = from
    /\ ~Suspended(sem_incoming, t)
    /\ ~Suspended(sem_read_api, t)

GoTo(t, to) == pc' = [pc EXCEPT ![t] = to]

Frame(d) == <<Start, Len(d)>> \o d \o <<Stop>>

-----------------------------------------------------------------------------
(* The host and the line. *)

HostSends(d) ==
    /\ Len(sent) < MaxFrames
    /\ Len(wire) + Len(Frame(d)) <= MaxWire
    /\ wire' = wire \o Frame(d)
    /\ sent' = Append(sent, d)
    /\ UNCHANGED <<pc, size, hand, incoming, sems, accepted, fill, lost>>

HostFills(b) ==
    /\ fill < MaxFill
    /\ Len(wire) < MaxWire
    /\ wire' = Append(wire, b)
    /\ fill' = fill + 1
    /\ UNCHANGED <<pc, size, hand, incoming, sems, sent, accepted, lost>>

(* SPI1's receive buffer drops bytes when it is full. *)
ByteLost(i) ==
    /\ lost < MaxLost
    /\ wire' = RemoveAt(wire, i)
    /\ lost' = lost + 1
    /\ UNCHANGED <<pc, size, hand, incoming, sems, sent, accepted, fill>>

-----------------------------------------------------------------------------
(* read_process *)

ReadInit ==
    /\ Goes(Reader, "init")
    /\ sem_incoming' = CeilingPut(sem_incoming, 1)
    /\ GoTo(Reader, "start")
    /\ UNCHANGED <<wire, size, hand, incoming, sem_read_api, history>>

(* Mutant of ReadStart: any byte starts a frame. *)
StartAny ==
    /\ Goes(Reader, "start")
    /\ wire # <<>>
    /\ GoTo(Reader, "size")
    /\ wire' = Tail(wire)
    /\ UNCHANGED <<size, hand, incoming, sems, history>>

ReadStart ==
    /\ Goes(Reader, "start")
    /\ wire # <<>>
    /\ GoTo(Reader, IF Head(wire) = Start THEN "size" ELSE "start")
    /\ wire' = Tail(wire)
    /\ UNCHANGED <<size, hand, incoming, sems, history>>

(* Mutant of ReadSize: the size is taken to count the stop byte. *)
SizeWithStop ==
    /\ Goes(Reader, "size")
    /\ wire # <<>>
    /\ size' = IF Head(wire) = 0 THEN 0 ELSE Head(wire) - 1
    /\ wire' = Tail(wire)
    /\ GoTo(Reader, "body")
    /\ UNCHANGED <<hand, incoming, sems, history>>

ReadSize ==
    /\ Goes(Reader, "size")
    /\ wire # <<>>
    /\ size' = Head(wire)
    /\ wire' = Tail(wire)
    /\ GoTo(Reader, "body")
    /\ UNCHANGED <<hand, incoming, sems, history>>

(* The packet and the byte behind it, which has to be a stop byte. *)
ReadBody ==
    /\ Goes(Reader, "body")
    /\ Len(wire) >= size + 1
    /\ wire' = SubSeq(wire, size + 2, Len(wire))
    /\ \/ /\ wire[size + 1] # Stop
          /\ GoTo(Reader, "start")
          /\ UNCHANGED <<hand, sem_incoming, accepted>>
       \/ /\ wire[size + 1] = Stop
          /\ hand' = SubSeq(wire, 1, size)
          /\ accepted' = Append(accepted, SubSeq(wire, 1, size))
          /\ sem_incoming' = Get(sem_incoming, Reader)
          /\ GoTo(Reader, "locked")
    /\ UNCHANGED <<size, incoming, sem_read_api, sent, fill, lost>>

(* Mutant of ReadPush: the newest packet gives way. *)
DropNewest ==
    /\ Goes(Reader, "locked")
    /\ incoming' = IF Len(incoming) < MaxIncoming THEN Append(incoming, hand)
                   ELSE incoming
    /\ sem_incoming' = CeilingPut(sem_incoming, 1)
    /\ GoTo(Reader, "notify")
    /\ UNCHANGED <<wire, size, hand, sem_read_api, history>>

(* The oldest packet gives way. *)
ReadPush ==
    /\ Goes(Reader, "locked")
    /\ incoming' = Append(IF Len(incoming) < MaxIncoming THEN incoming
                          ELSE Tail(incoming), hand)
    /\ sem_incoming' = CeilingPut(sem_incoming, 1)
    /\ GoTo(Reader, "notify")
    /\ UNCHANGED <<wire, size, hand, sem_read_api, history>>

ReadNotify ==
    /\ Goes(Reader, "notify")
    /\ sem_read_api' = CeilingPut(sem_read_api, 1)
    /\ GoTo(Reader, "start")
    /\ UNCHANGED <<wire, size, hand, incoming, sem_incoming, history>>

-----------------------------------------------------------------------------
(* recv() *)

RecvWait ==
    /\ Goes(Receiver, "idle")
    /\ sem_read_api' = Get(sem_read_api, Receiver)
    /\ GoTo(Receiver, "told")
    /\ UNCHANGED <<wire, size, hand, incoming, sem_incoming, history>>

RecvGetLock ==
    /\ Goes(Receiver, "told")
    /\ sem_incoming' = Get(sem_incoming, Receiver)
    /\ GoTo(Receiver, "locked")
    /\ UNCHANGED <<wire, size, hand, incoming, sem_read_api, history>>

(* Told of a packet that an earlier call has taken: wait again. *)
RecvAgain ==
    /\ Goes(Receiver, "locked")
    /\ incoming = <<>>
    /\ sem_incoming' = CeilingPut(sem_incoming, 1)
    /\ GoTo(Receiver, "idle")
    /\ UNCHANGED <<wire, size, hand, incoming, sem_read_api, history>>

(* Mutant of RecvTake: recv() is not told of the packets that are left. *)
TakeQuiet ==
    /\ Goes(Receiver, "locked")
    /\ incoming # <<>>
    /\ incoming' = Tail(incoming)
    /\ GoTo(Receiver, "release")
    /\ UNCHANGED <<wire, size, hand, sems, history>>

RecvTake ==
    /\ Goes(Receiver, "locked")
    /\ incoming # <<>>
    /\ incoming' = Tail(incoming)
    /\ sem_read_api' = IF Len(incoming) > 1 THEN CeilingPut(sem_read_api, 1)
                       ELSE sem_read_api
    /\ GoTo(Receiver, "release")
    /\ UNCHANGED <<wire, size, hand, sem_incoming, history>>

RecvReturn ==
    /\ Goes(Receiver, "release")
    /\ sem_incoming' = CeilingPut(sem_incoming, 1)
    /\ GoTo(Receiver, "idle")
    /\ UNCHANGED <<wire, size, hand, incoming, sem_read_api, history>>

-----------------------------------------------------------------------------
Init ==
    /\ pc = [t \in Thread |-> IF t = Reader THEN "init" ELSE "idle"]
    /\ wire = <<>> /\ size = 0 /\ hand = <<>> /\ incoming = <<>>
    /\ sem_incoming = NewSemaphore(0) /\ sem_read_api = NewSemaphore(0)
    /\ sent = <<>> /\ accepted = <<>>
    /\ fill = 0 /\ lost = 0

Line == \/ \E d \in Packet : HostSends(d)
        \/ \E b \in Byte \ {Start} : HostFills(b)
        \/ \E i \in DOMAIN wire : ByteLost(i)

Reads == \/ ReadInit \/ ReadStart \/ ReadSize \/ ReadBody \/ ReadPush
         \/ ReadNotify

Recvs == RecvWait \/ RecvGetLock \/ RecvAgain \/ RecvTake \/ RecvReturn

Next == Line \/ Reads \/ Recvs

Spec == Init /\ [][Next]_vars

(* The two threads run; nothing is assumed of the host. *)
Fairness == WF_vars(Reads) /\ WF_vars(Recvs)

FairSpec == Spec /\ Fairness

-----------------------------------------------------------------------------
TypeOK ==
    /\ pc[Reader] \in {"init", "start", "size", "body", "locked", "notify"}
    /\ pc[Receiver] \in {"idle", "told", "locked", "release"}
    /\ DOMAIN pc = Thread
    /\ wire \in Seq(Byte) /\ size \in Byte /\ hand \in Seq(Byte)
    /\ incoming \in Seq(Seq(Byte)) /\ Len(incoming) <= MaxIncoming
    /\ sem_incoming \in Semaphores(Thread)
    /\ sem_read_api \in Semaphores(Thread)

(* As long as no byte is lost, what read_process accepts is what the host  *)
(* sent, packet by packet, whatever the packets contain and whatever       *)
(* filler comes between them: start and stop bytes in a packet do not      *)
(* mislead it.                                                             *)
Framed == lost = 0 => IsPrefix(accepted, sent)

(* The packets on the deque are the last ones accepted: those the receiver *)
(* was too slow for are dropped from the front, never overtaken.           *)
Pushed == IF pc[Reader] = "locked" THEN Front(accepted) ELSE accepted

Latest == IsSuffix(incoming, Pushed)

(* recv() does not sleep while there is a packet it has not been told of.  *)
NotAsleep ==
    Suspended(sem_read_api, Receiver) /\ pc[Reader] # "notify"
        => incoming = <<>>

(* Every packet that reaches the deque is taken in the end. *)
Drains == []<>(incoming = <<>>)

(* Without losses everything that is sent is accepted in the end. *)
Accepts == []<>(lost = 0 => accepted = sent)
=============================================================================
