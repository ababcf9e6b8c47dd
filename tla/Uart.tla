-------------------------------- MODULE Uart --------------------------------
(***************************************************************************)
(* A UART (plib_uart1.c, of which there are six), and the stepper drivers  *)
(* that send datagrams over it: several of them share a UART and its mutex *)
(* (drivers/uart.hh, TMC2209.cpp).  The line has one wire: the UART hears  *)
(* what it sends, and the reply of the chip that a request is for.         *)
(*                                                                         *)
(* UART1_Write pushes bytes on a ring, the interrupt handler moves them to *)
(* the fifo of the peripheral whenever that is empty (UTXISEL1).  A thread *)
(* does not run while the handler does or its interrupt is outstanding;    *)
(* the peripheral goes on, so the loop of the handler is one action for    *)
(* each byte.  What UART1_Write does with the interrupt disabled between   *)
(* two semaphore calls is one action: only the fifo moves meanwhile.       *)
(*                                                                         *)
(* A byte to send is <<datagram, place, size>>; of a byte heard only the   *)
(* place in the reply matters, 0 for an echo.  The drivers sleep for 1 ms  *)
(* before each write and each byte they read, in which 115200 baud clock   *)
(* out more than the fifo holds.  Echoes come well within the 4 ms they    *)
(* are waited for.                                                         *)
(***************************************************************************)
EXTENDS Integers, Sequences, PxSync

CONSTANTS
    Driver,      \* the threads that send, one for each TMC2209
    None,
    Ring,        \* size of the ring (128)
    Fifo,        \* of the peripheral (8)
    WriteSizes,  \* of write datagrams (8)
    RequestSize, \* of a read request (4)
    ReplySize,   \* of the reply to it (8)
    Heard,       \* bytes the receive ring holds (127)
    Reader,      \* the driver whose constructor reads
    Before,      \* how many datagrams it wrote before that, at least
    Numbers      \* bound: datagrams are numbered modulo this

VARIABLES
    wrBuffer, wrIn, wrOut,  \* uart1Obj: the ring
    fifo,       \* of the peripheral
    txie,       \* whether the transmit interrupt is enabled
    isr,        \* whether the handler runs
    semRoom,    \* sem_uart1_tx_buffer
    semEmpty,   \* sem_uart1_tx
    mutex,      \* of the HardwareSerial
    pc,         \* what each driver does
    size,       \* of its datagram, 0 for none
    pushed,     \* bytes of it that are on the ring
    datagrams,  \* written so far, modulo Numbers
    wire,       \* history: the byte clocked out last
    rd,         \* the bytes on the receive ring
    reply,      \* what the chip has still to send
    answered,   \* history: the chip replied to the request
    read,       \* how many bytes of echo or reply the reader took
    written     \* how many datagrams it wrote, up to Before

ring == <<wrBuffer, wrIn, wrOut>>
sems == <<semRoom, semEmpty>>
call == <<size, pushed, datagrams>>
heard == <<rd, reply, answered, read, written>>
vars == <<ring, fifo, txie, isr, sems, mutex, pc, call, wire, heard>>

PendingBytes == (wrIn - wrOut + Ring) % Ring

FreeCount == Ring - 1 - PendingBytes

Irq == txie /\ fifo = <<>>

Runs(t, at) == pc[t] = at /\ ~isr /\ ~Irq

Goto(t, at) == pc' = [pc EXCEPT ![t] = at]

-----------------------------------------------------------------------------
(* sendDatagramUnidirectional and sendDatagramBidirectional: the former    *)
(* locks and writes, the latter flushes before and after and clears the    *)
(* receive ring first.  Only constructors read (isCommunicating), one      *)
(* after another, when they have set up their chip.                        *)

Begin(t, n, at) ==
    /\ Runs(t, "idle")
    /\ size' = [size EXCEPT ![t] = n]
    /\ mutex' = Lock(mutex, t, None)
    /\ Goto(t, at)
    /\ UNCHANGED <<ring, fifo, txie, isr, sems, pushed, datagrams, wire, heard>>

Write(t) == \E n \in WriteSizes : Begin(t, n, "sleep")

Request == written = Before /\ Begin(Reader, RequestSize, "flush")

(* The threads of one mutex: what follows is done by its owner only. *)
Has(t, at) == Runs(t, at) /\ mutex.owner = t

(* UART1_Flush before and after a request: it waits for the ring only, so  *)
(* that bytes may be in the fifo when it returns.                          *)
After(t) == IF pushed[t] = 0 THEN "clear" ELSE "echo"

FlushLook(t) ==
    /\ Has(t, "flush")
    /\ Goto(t, IF PendingBytes = 0 THEN After(t) ELSE "empty")
    /\ UNCHANGED <<ring, fifo, txie, isr, sems, mutex, call, wire, heard>>

FlushGet(t) ==
    /\ Has(t, "empty") /\ semEmpty = 1
    /\ semEmpty' = 0
    /\ Goto(t, After(t))
    /\ UNCHANGED <<ring, fifo, txie, isr, semRoom, mutex, call, wire, heard>>

(* HardwareSerial::read of one byte: it sleeps and calls UART1_Read, which *)
(* does not return if the ring is empty.  (It waits until a byte comes,    *)
(* then compares its copies of the indices again, and again.)              *)
Read(t, to) ==
    /\ rd' = SubSeq(rd, 2, Len(rd))
    /\ Goto(t, IF rd = <<>> THEN "lost" ELSE to)

(* Mutant of ClearLook: the ring is not cleared, as if the flush left only *)
(* what had been heard and read before.                                    *)
ClearNothing(t) ==
    /\ Has(t, "clear")
    /\ Goto(t, "sleep")
    /\ UNCHANGED <<ring, fifo, txie, isr, sems, mutex, call, wire, heard>>

ClearLook(t) ==
    /\ Has(t, "clear")
    /\ Goto(t, IF rd = <<>> THEN "sleep" ELSE "clearing")
    /\ UNCHANGED <<ring, fifo, txie, isr, sems, mutex, call, wire, heard>>

ClearRead(t) ==
    /\ Has(t, "clearing") /\ fifo = <<>>
    /\ Read(t, "clear")
    /\ UNCHANGED <<ring, fifo, txie, isr, sems, mutex, call, wire, reply, answered,
                   read, written>>

(* HardwareSerial::write sleeps, UART1_Write begins. *)
WriteStart(t) ==
    /\ Has(t, "sleep") /\ fifo = <<>>
    /\ datagrams' = (datagrams + 1) % Numbers
    /\ txie' = FALSE /\ semEmpty' = 0
    /\ Goto(t, "push")
    /\ UNCHANGED <<ring, fifo, isr, semRoom, mutex, size, pushed, wire, heard>>

Less(m, n) == IF m < n THEN m ELSE n

(* Mutant of WritePush: the last place of the ring is used as well. *)
WritePushAll(t) ==
    /\ Has(t, "push")
    /\ LET n == Less(FreeCount + 1, size[t] - pushed[t])
           place(i) == ((i - wrIn + Ring) % Ring) + 1 IN
       /\ wrBuffer' = [i \in 0 .. Ring - 1 |->
              IF place(i) <= n THEN <<datagrams, pushed[t] + place(i), size[t]>>
                               ELSE wrBuffer[i]]
       /\ wrIn' = (wrIn + n) % Ring
       /\ pushed' = [pushed EXCEPT ![t] = @ + n]
       /\ Goto(t, IF pushed[t] + n = size[t] THEN "enable" ELSE "full")
    /\ UNCHANGED <<wrOut, fifo, txie, isr, sems, mutex, size, datagrams, wire, heard>>

(* UART1_TxPushByte as long as there is room and data. *)
WritePush(t) ==
    /\ Has(t, "push")
    /\ LET n == Less(FreeCount, size[t] - pushed[t])
           place(i) == ((i - wrIn + Ring) % Ring) + 1 IN
       /\ wrBuffer' = [i \in 0 .. Ring - 1 |->
              IF place(i) <= n THEN <<datagrams, pushed[t] + place(i), size[t]>>
                               ELSE wrBuffer[i]]
       /\ wrIn' = (wrIn + n) % Ring
       /\ pushed' = [pushed EXCEPT ![t] = @ + n]
       /\ Goto(t, IF pushed[t] + n = size[t] THEN "enable" ELSE "full")
    /\ UNCHANGED <<wrOut, fifo, txie, isr, sems, mutex, size, datagrams, wire, heard>>

WriteFull(t) ==
    /\ Has(t, "full")
    /\ txie' = TRUE
    /\ Goto(t, "room")
    /\ UNCHANGED <<ring, fifo, isr, sems, mutex, call, wire, heard>>

WriteRoom(t) ==
    /\ Has(t, "room") /\ semRoom = 1
    /\ semRoom' = 0
    /\ txie' = FALSE /\ semEmpty' = 0
    /\ Goto(t, "push")
    /\ UNCHANGED <<ring, fifo, isr, mutex, call, wire, heard>>

WriteEnd(t) ==
    /\ Has(t, "enable")
    /\ txie' = (txie \/ PendingBytes > 0)
    /\ Goto(t, IF size[t] = RequestSize THEN "flush" ELSE "sent")
    /\ UNCHANGED <<ring, fifo, isr, sems, mutex, call, wire, heard>>

Sent(t) ==
    /\ Has(t, "sent")
    /\ mutex' = Unlock(mutex, t, None)
    /\ size' = [size EXCEPT ![t] = 0] /\ pushed' = [pushed EXCEPT ![t] = 0]
    /\ Goto(t, "idle")
    /\ written' = IF t = Reader THEN Less(written + 1, Before) ELSE written
    /\ UNCHANGED <<ring, fifo, txie, isr, sems, datagrams, wire, rd, reply, answered,
                   read>>

-----------------------------------------------------------------------------
(* The reader waits for the echoes of its request and drops them, gives    *)
(* the mutex back, ...                                                     *)

EchoWait(t) ==
    /\ Has(t, "echo") /\ Len(rd) >= RequestSize
    /\ Goto(t, "echoes")
    /\ UNCHANGED <<ring, fifo, txie, isr, sems, mutex, call, wire, heard>>

EchoRead(t) ==
    /\ Has(t, "echoes") /\ fifo = <<>>
    /\ read + 1 < RequestSize
    /\ Read(t, "echoes")
    /\ read' = read + 1
    /\ UNCHANGED <<ring, fifo, txie, isr, sems, mutex, call, wire, reply, answered,
                   written>>

(* By the end of the fourth millisecond the reply is there, too. *)
EchoLast(t) ==
    /\ Has(t, "echoes") /\ fifo = <<>> /\ reply = <<>>
    /\ read + 1 = RequestSize
    /\ Read(t, "reply")
    /\ read' = 0
    /\ mutex' = Unlock(mutex, t, None)
    /\ size' = [size EXCEPT ![t] = 0] /\ pushed' = [pushed EXCEPT ![t] = 0]
    /\ UNCHANGED <<ring, fifo, txie, isr, sems, datagrams, wire, reply, answered,
                   written>>

(* ... and reads the reply, or gives up.  Now others may send. *)
ReplyWait(t) ==
    /\ Runs(t, "reply") /\ Len(rd) >= ReplySize
    /\ Goto(t, "replied")
    /\ UNCHANGED <<ring, fifo, txie, isr, sems, mutex, call, wire, heard>>

ReplyTimeout(t) ==
    /\ Runs(t, "reply") /\ Len(rd) < ReplySize
    /\ Goto(t, "idle")
    /\ written' = 0 /\ answered' = FALSE
    /\ UNCHANGED <<ring, fifo, txie, isr, sems, mutex, call, wire, rd, reply, read>>

ReplyRead(t) ==
    /\ Runs(t, "replied")
    /\ read + 1 < ReplySize
    /\ Read(t, "replied")
    /\ read' = read + 1
    /\ UNCHANGED <<ring, fifo, txie, isr, sems, mutex, call, wire, reply, answered,
                   written>>

ReplyLast(t) ==
    /\ Runs(t, "replied")
    /\ read + 1 = ReplySize
    /\ Read(t, "idle")
    /\ read' = 0 /\ written' = 0 /\ answered' = FALSE
    /\ UNCHANGED <<ring, fifo, txie, isr, sems, mutex, call, wire, reply>>

-----------------------------------------------------------------------------
(* UART1_TX_InterruptHandler. *)

TxInterrupt ==
    /\ ~isr /\ Irq /\ PendingBytes > 0
    /\ isr' = TRUE
    /\ UNCHANGED <<ring, fifo, txie, sems, mutex, pc, call, wire, heard>>

TxNothing ==
    /\ ~isr /\ Irq /\ PendingBytes = 0
    /\ txie' = FALSE
    /\ UNCHANGED <<ring, fifo, isr, sems, mutex, pc, call, wire, heard>>

(* UART1_TxPullByte and UART1_WriteNotificationSend. *)
TxPull ==
    /\ isr /\ Len(fifo) < Fifo /\ PendingBytes > 0
    /\ fifo' = Append(fifo, wrBuffer[wrOut])
    /\ wrOut' = (wrOut + 1) % Ring
    /\ semRoom' = 1
    /\ UNCHANGED <<wrBuffer, wrIn, txie, isr, semEmpty, mutex, pc, call, wire, heard>>

TxEmpty ==
    /\ isr /\ Len(fifo) < Fifo /\ PendingBytes = 0
    /\ semEmpty' = 1 /\ txie' = FALSE
    /\ isr' = FALSE
    /\ UNCHANGED <<ring, fifo, semRoom, mutex, pc, call, wire, heard>>

TxFull ==
    /\ isr /\ Len(fifo) = Fifo
    /\ isr' = FALSE
    /\ UNCHANGED <<ring, fifo, txie, sems, mutex, pc, call, wire, heard>>

-----------------------------------------------------------------------------
(* The peripheral and the chips, and UART1_RX_InterruptHandler, which      *)
(* takes each byte as it comes in; what the ring has no room for is lost.  *)

RxPush(x) == rd' = IF Len(rd) < Heard THEN Append(rd, x) ELSE rd

Shift ==
    /\ fifo # <<>>
    /\ wire' = Head(fifo)
    /\ fifo' = Tail(fifo)
    /\ RxPush(0)
    /\ \/ UNCHANGED <<reply, answered>>
       \/ /\ wire'[2] = RequestSize /\ wire'[3] = RequestSize
          /\ reply' = [i \in 1 .. ReplySize |-> i] /\ answered' = TRUE
    /\ UNCHANGED <<ring, txie, isr, sems, mutex, pc, call, read, written>>

Reply ==
    /\ reply # <<>>
    /\ RxPush(Head(reply))
    /\ reply' = Tail(reply)
    /\ UNCHANGED <<ring, fifo, txie, isr, sems, mutex, pc, call, wire, answered, read,
                   written>>

Init ==
    /\ wrBuffer = [i \in 0 .. Ring - 1 |-> <<0, 1, 1>>]
    /\ wrIn = 0 /\ wrOut = 0 /\ fifo = <<>>
    /\ txie = FALSE /\ isr = FALSE
    /\ semRoom = 1 /\ semEmpty = 0
    /\ mutex = NewMutex(None)
    /\ pc = [t \in Driver |-> "idle"]
    /\ size = [t \in Driver |-> 0] /\ pushed = [t \in Driver |-> 0]
    /\ datagrams = 0 /\ wire = <<0, 1, 1>>
    /\ rd = <<>> /\ reply = <<>> /\ answered = FALSE
    /\ read = 0 /\ written = 0

Continue(t) ==
    \/ FlushLook(t) \/ FlushGet(t) \/ WriteStart(t) \/ WritePush(t)
    \/ WriteFull(t) \/ WriteRoom(t) \/ WriteEnd(t) \/ Sent(t)
    \/ ClearLook(t) \/ ClearRead(t) \/ EchoWait(t) \/ EchoRead(t) \/ EchoLast(t)
    \/ ReplyWait(t) \/ ReplyTimeout(t) \/ ReplyRead(t) \/ ReplyLast(t)

Handles == TxInterrupt \/ TxNothing \/ TxPull \/ TxEmpty \/ TxFull

Next == \/ \E t \in Driver : Write(t) \/ Continue(t)
        \/ Request \/ Handles \/ Shift \/ Reply

Spec == Init /\ [][Next]_vars

(* Threads run, between interrupts, however many others cause; interrupts  *)
(* are taken, the peripheral shifts, and a chip sends its whole reply.     *)
FairSpec == /\ Spec /\ WF_vars(Handles) /\ WF_vars(Shift) /\ WF_vars(Reply)
            /\ \A t \in Driver : SF_vars(Continue(t))

-----------------------------------------------------------------------------
Sizes == WriteSizes \cup {RequestSize}

Bytes == {b \in (0 .. Numbers - 1) \X (UNION {1 .. n : n \in Sizes})
                                  \X ({1} \cup Sizes) : b[2] <= b[3]}

TypeOK ==
    /\ wrBuffer \in [0 .. Ring - 1 -> Bytes]
    /\ wrIn \in 0 .. Ring - 1 /\ wrOut \in 0 .. Ring - 1
    /\ fifo \in Seq(Bytes) /\ Len(fifo) <= Fifo
    /\ txie \in BOOLEAN /\ isr \in BOOLEAN
    /\ semRoom \in 0 .. 1 /\ semEmpty \in 0 .. 1
    /\ mutex \in Mutexes(Driver, None)
    /\ pc \in [Driver -> {"idle", "flush", "empty", "clear", "clearing", "sleep",
                          "push", "full", "room", "enable", "sent", "echo",
                          "echoes", "reply", "replied", "lost"}]
    /\ \A t \in Driver : /\ size[t] \in {0} \cup Sizes
                         /\ pushed[t] \in 0 .. size[t]
    /\ datagrams \in 0 .. Numbers - 1
    /\ wire \in Bytes
    /\ rd \in Seq(0 .. ReplySize) /\ Len(rd) <= Heard
    /\ reply \in Seq(1 .. ReplySize) /\ answered \in BOOLEAN
    /\ read \in 0 .. ReplySize + RequestSize /\ written \in 0 .. Before

(* Datagrams go out whole, one after the other, whichever drivers sent     *)
(* them: behind each byte comes the next of its datagram, behind its last  *)
(* the first of the next datagram, none lost or doubled on the way.        *)
WholeStep ==
    IF wire[2] < wire[3] THEN wire' = <<wire[1], wire[2] + 1, wire[3]>>
    ELSE wire'[1] = (wire[1] + 1) % Numbers /\ wire'[2] = 1

Whole == [][wire' = wire \/ WholeStep]_wire

(* Between its wait for the reply and its last byte, a reader whose chip   *)
(* replied has the rest of the reply before it, though it does not hold    *)
(* the mutex and others send: no echo is taken for a byte of the reply.    *)
(* It rests on the time that reading takes, and on the ring not being      *)
(* empty before, as the flush does not wait for the fifo.                  *)
Replied ==
    answered /\ pc[Reader] \in {"reply", "replied"} =>
        /\ Len(rd) >= ReplySize - read
        /\ \A i \in 1 .. ReplySize - read : rd[i] = read + i

(* A driver that wants to send or read has done so at last: whoever waits  *)
(* for room on the ring or for the flush is woken, and no byte is read     *)
(* where none is.  It holds as the datagrams of the drivers are: after a   *)
(* write that outgrows the fifo by a multiple of its size the handler      *)
(* never finds the ring empty with room in the fifo, and a flush that      *)
(* waits then waits for ever.                                              *)
Done == \A t \in Driver : pc[t] # "idle" ~> pc[t] = "idle"
=============================================================================
