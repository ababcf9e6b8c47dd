---------------------------- MODULE PacketWriter ----------------------------
(***************************************************************************)
(* The sending half of io::host::spi_pkt_slave: send(), which earpc's send *)
(* and feedback threads call, and the thread write_process, which frames   *)
(* the packets and gives them to tWrite (SPI1_Write).  They share a deque  *)
(* and three semaphores:                                                   *)
(*   sem_outgoing      a lock on the deque, given first by write_process   *)
(*   sem_write_api     wakes write_process                                 *)
(*   sem_write_buffer  the room: max_outgoing_packets units                *)
(* An action is what a thread does from one semaphore call to the next.    *)
(***************************************************************************)
EXTENDS TxSemaphore, SequencesExt

CONSTANTS
    Sender,      \* threads that call send()
    Writer,      \* the thread write_process
    Packet,      \* packets, all of a size that send() takes
    MaxOutgoing, \* max_outgoing_packets
    MaxSends,    \* bound: calls of send()
    MaxShort,    \* bound: writes that tWrite leaves incomplete
    None

Thread == Sender \cup {Writer}

ASSUME WriterAssumption ==
    /\ Writer \notin Sender
    /\ None \notin Packet
    /\ MaxOutgoing \in Nat \ {0}
    /\ MaxSends \in Nat /\ MaxShort \in Nat

VARIABLES
    pc,        \* pc[t]: the call thread t is in, or about to make
    outgoing,  \* the deque
    sem_outgoing, sem_write_api, sem_write_buffer,
    packet,    \* packet[t]: what thread t has in hand, or None
    taken,     \* history: the packets send() took over, in order
    written,   \* history: the packets tWrite wrote out, in order
    short      \* how many writes were incomplete

sems == <<sem_outgoing, sem_write_api, sem_write_buffer>>
vars == <<pc, outgoing, sems, packet, taken, written, short>>

Goes(t, from) ==
    /\ pc[t] = from
    /\ ~Suspended(sem_outgoing, t)
    /\ ~Suspended(sem_write_api, t)
    /\ ~Suspended(sem_write_buffer, t)

GoTo(t, to) == pc' = [pc EXCEPT ![t] = to]

Begun == Len(taken) + Cardinality({s \in Sender : pc[s] # "idle"})

-----------------------------------------------------------------------------
(* send() *)

SendGetRoom(s, p) ==
    /\ Goes(s, "idle")
    /\ Begun < MaxSends
    /\ packet' = [packet EXCEPT ![s] = p]
    /\ sem_write_buffer' = Get(sem_write_buffer, s)
    /\ GoTo(s, "room")
    /\ UNCHANGED <<outgoing, sem_outgoing, sem_write_api, taken, written, short>>

(* Mutant of SendGetLock: the deque is not locked. *)
SendNoLock(s) ==
    /\ Goes(s, "room")
    /\ GoTo(s, "locked")
    /\ UNCHANGED <<outgoing, sems, packet, taken, written, short>>

SendGetLock(s) ==
    /\ Goes(s, "room")
    /\ sem_outgoing' = Get(sem_outgoing, s)
    /\ GoTo(s, "locked")
    /\ UNCHANGED <<outgoing, sem_write_api, sem_write_buffer, packet, taken,
                   written, short>>

(* The writer is woken before the packet is on the deque, and only for the *)
(* first one: it cannot look before the lock is given back.                *)
SendNotify(s) ==
    /\ Goes(s, "locked")
    /\ sem_write_api' = IF outgoing = <<>> THEN CeilingPut(sem_write_api, 1)
                        ELSE sem_write_api
    /\ GoTo(s, "push")
    /\ UNCHANGED <<outgoing, sem_outgoing, sem_write_buffer, packet, taken,
                   written, short>>

(* Mutant of SendPush: the packet goes to the other end. *)
PushFront(s) ==
    /\ Goes(s, "push")
    /\ outgoing' = <<packet[s]>> \o outgoing
    /\ taken' = Append(taken, packet[s])
    /\ packet' = [packet EXCEPT ![s] = None]
    /\ sem_outgoing' = CeilingPut(sem_outgoing, 1)
    /\ GoTo(s, "idle")
    /\ UNCHANGED <<sem_write_api, sem_write_buffer, written, short>>

SendPush(s) ==
    /\ Goes(s, "push")
    /\ outgoing' = Append(outgoing, packet[s])
    /\ taken' = Append(taken, packet[s])
    /\ packet' = [packet EXCEPT ![s] = None]
    /\ sem_outgoing' = CeilingPut(sem_outgoing, 1)
    /\ GoTo(s, "idle")
    /\ UNCHANGED <<sem_write_api, sem_write_buffer, written, short>>

-----------------------------------------------------------------------------
(* write_process *)

WriteStart ==
    /\ Goes(Writer, "start")
    /\ sem_outgoing' = CeilingPut(sem_outgoing, 1)
    /\ GoTo(Writer, "loop")
    /\ UNCHANGED <<outgoing, sem_write_api, sem_write_buffer, packet, taken,
                   written, short>>

WriteGetLock ==
    /\ Goes(Writer, "loop")
    /\ sem_outgoing' = Get(sem_outgoing, Writer)
    /\ GoTo(Writer, "locked")
    /\ UNCHANGED <<outgoing, sem_write_api, sem_write_buffer, packet, taken,
                   written, short>>

(* The deque is looked at; the lock goes back whether it is empty or not. *)
WriteLook ==
    /\ Goes(Writer, "locked")
    /\ \/ /\ outgoing = <<>>
          /\ GoTo(Writer, "sleep")
          /\ UNCHANGED <<outgoing, packet>>
       \/ /\ outgoing # <<>>
          /\ packet' = [packet EXCEPT ![Writer] = Head(outgoing)]
          /\ outgoing' = Tail(outgoing)
          /\ GoTo(Writer, "write")
    /\ sem_outgoing' = CeilingPut(sem_outgoing, 1)
    /\ UNCHANGED <<sem_write_api, sem_write_buffer, taken, written, short>>

(* Mutant of WriteSleep: wakeups given meanwhile are thrown away. *)
SleepReset ==
    /\ Goes(Writer, "sleep")
    /\ sem_write_api' = Get(NewSemaphore(0), Writer)
    /\ GoTo(Writer, "loop")
    /\ UNCHANGED <<outgoing, sem_outgoing, sem_write_buffer, packet, taken,
                   written, short>>

WriteSleep ==
    /\ Goes(Writer, "sleep")
    /\ sem_write_api' = Get(sem_write_api, Writer)
    /\ GoTo(Writer, "loop")
    /\ UNCHANGED <<outgoing, sem_outgoing, sem_write_buffer, packet, taken,
                   written, short>>

(* Mutant of WriteAll: room is given back with a ceiling, as the locks are. *)
WriteAllCeiling ==
    /\ Goes(Writer, "write")
    /\ written' = Append(written, packet[Writer])
    /\ packet' = [packet EXCEPT ![Writer] = None]
    /\ sem_write_buffer' = CeilingPut(sem_write_buffer, 1)
    /\ GoTo(Writer, "loop")
    /\ UNCHANGED <<outgoing, sem_outgoing, sem_write_api, taken, short>>

(* tWrite writes all of the frame, and there is room for one more packet.  *)
WriteAll ==
    /\ Goes(Writer, "write")
    /\ written' = Append(written, packet[Writer])
    /\ packet' = [packet EXCEPT ![Writer] = None]
    /\ sem_write_buffer' = Put(sem_write_buffer)
    /\ GoTo(Writer, "loop")
    /\ UNCHANGED <<outgoing, sem_outgoing, sem_write_api, taken, short>>

(* tWrite writes less: the packet is to be written again.  SPI1_Write      *)
(* never does, but the class takes any tWrite.                             *)
WriteShort ==
    /\ Goes(Writer, "write")
    /\ short < MaxShort
    /\ short' = short + 1
    /\ sem_outgoing' = Get(sem_outgoing, Writer)
    /\ GoTo(Writer, "requeue")
    /\ UNCHANGED <<outgoing, sem_write_api, sem_write_buffer, packet, taken,
                   written>>

(* `!outgoing->size() < max_outgoing_packets' compares a truth value, so   *)
(* it always holds: the packet goes back to the front.                     *)
WriteRequeue ==
    /\ Goes(Writer, "requeue")
    /\ outgoing' = <<packet[Writer]>> \o outgoing
    /\ packet' = [packet EXCEPT ![Writer] = None]
    /\ sem_outgoing' = CeilingPut(sem_outgoing, 1)
    /\ GoTo(Writer, "loop")
    /\ UNCHANGED <<sem_write_api, sem_write_buffer, taken, written, short>>

-----------------------------------------------------------------------------
Init ==
    /\ pc = [t \in Thread |-> IF t = Writer THEN "start" ELSE "idle"]
    /\ outgoing = <<>>
    /\ sem_outgoing = NewSemaphore(0)
    /\ sem_write_api = NewSemaphore(0)
    /\ sem_write_buffer = NewSemaphore(MaxOutgoing)
    /\ packet = [t \in Thread |-> None]
    /\ taken = <<>> /\ written = <<>>
    /\ short = 0

Sends(s) == SendGetLock(s) \/ SendNotify(s) \/ SendPush(s)

Writes == \/ WriteStart \/ WriteGetLock \/ WriteLook \/ WriteSleep
          \/ WriteAll \/ WriteRequeue

Next ==
    \/ \E s \in Sender : Sends(s) \/ \E p \in Packet : SendGetRoom(s, p)
    \/ Writes
    \/ WriteShort

Spec == Init /\ [][Next]_vars

(* The threads run; a write is not left incomplete for ever. *)
Fairness == WF_vars(Writes) /\ \A s \in Sender : WF_vars(Sends(s))

FairSpec == Spec /\ Fairness

-----------------------------------------------------------------------------
Holds(t) ==
    /\ ~Suspended(sem_outgoing, t)
    /\ pc[t] \in IF t = Writer THEN {"locked", "requeue"} ELSE {"locked", "push"}

Holding == {t \in Thread : Holds(t)}

(* The room that is in use: packets on the deque, in the writer's hand,    *)
(* and of the senders that were given room.                                *)
Roomed == {s \in Sender : pc[s] # "idle" /\ ~Suspended(sem_write_buffer, s)}

TypeOK ==
    /\ pc \in [Thread -> {"start", "idle", "room", "locked", "push", "loop",
                          "sleep", "write", "requeue"}]
    /\ outgoing \in Seq(Packet)
    /\ sem_outgoing \in Semaphores(Thread)
    /\ sem_write_api \in Semaphores(Thread)
    /\ sem_write_buffer \in Semaphores(Thread)
    /\ packet \in [Thread -> Packet \cup {None}]
    /\ taken \in Seq(Packet) /\ written \in Seq(Packet)
    /\ short \in 0 .. MaxShort

(* One thread at a time works on the deque: sem_outgoing, given first by   *)
(* write_process with a ceiling of one, is a lock on it.                   *)
Exclusive ==
    /\ \A t, u \in Holding : t = u
    /\ sem_outgoing.count = 0 \/ Holding = {}

(* Room is neither lost nor made up: senders take it before they lock the  *)
(* deque, a complete write gives it back, an incomplete one keeps its      *)
(* unit, and the deque never outgrows it.                                  *)
RoomKept ==
    sem_write_buffer.count + Len(outgoing) + Cardinality(Roomed)
      + (IF packet[Writer] = None THEN 0 ELSE 1) = MaxOutgoing

(* The writer does not sleep on a deque with packets, although senders     *)
(* wake it only for the first one and before they have put it there.       *)
NotAsleep == Suspended(sem_write_api, Writer) => outgoing = <<>>

(* Packets are written in the order in which send() took them over, each   *)
(* once, and no more than MaxOutgoing are held.                            *)
Kept == (IF packet[Writer] = None THEN <<>> ELSE <<packet[Writer]>>) \o outgoing

Queue == INSTANCE PacketQueue WITH
            Capacity <- MaxOutgoing, kept <- Kept, sent <- written

KeepsOrder == Queue!Spec

(* Every call of send() returns, and every packet it took over is written. *)
AllWritten == /\ \A s \in Sender : pc[s] # "idle" ~> pc[s] = "idle"
              /\ <>[](written = taken)
=============================================================================
