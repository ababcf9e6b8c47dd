-------------------------- MODULE DriversInvariant --------------------------
(***************************************************************************)
(* What the bus drivers keep throughout, strong enough to be inductive: one *)
(* invariant for each driver, from which the properties that MCDrivers      *)
(* checks follow.  DriversProofs proves that they are kept.                 *)
(***************************************************************************)
EXTENDS MCDrivers

-----------------------------------------------------------------------------
(* The I2C driver.                                                          *)

(* The lock: who waits for a transfer or returns from one has it.            *)
Locked == \A t \in Caller : pc[t] \in {"wait", "done"} => api = t

(* The bus: one thing at a time is under way or reported by an interrupt,    *)
(* and only within a transfer.                                               *)
OneThing ==
    /\ mif => state # "idle" /\ bus = "none" /\ ~bif
    /\ bif => state # "idle" /\ bus = "none"
    /\ bus # "none" => state # "idle" /\ ~mif /\ ~bif

(* What the peripheral does is what the state asked for. *)
Asked ==
    /\ state = "address" => bus \in {"none", "start", "restart"}
    /\ state = "write" => bus \in {"none", "byte", "data"}
    /\ state = "read" => bus \in {"none", "byte"}
    /\ state = "readbyte" => bus \in {"none", "receive"}
    /\ state = "ack" => bus \in {"none", "ack", "nak"}
    /\ state = "stop" => bus \in {"none", "stop"}

(* The device took what was written, the last byte under way excepted.       *)
Took ==
    /\ state = "write" =>
          /\ bus = "byte" => taken = writeCount
          /\ bus = "data" => taken + 1 = writeCount
          /\ mif /\ ackBit => taken = writeCount
          /\ taken = writeCount \/ taken + 1 = writeCount
    /\ state = "address" /\ transferType = "write" => taken = 0 /\ writeCount = 0
    /\ \/ state = "address" /\ transferType = "read"
       \/ state \in {"read", "readbyte", "ack"}
       => taken = writeSize /\ writeCount = writeSize

(* The buffer holds what the device gave, the last byte excepted.            *)
Gave ==
    /\ readBuffer = [i \in 1 .. readCount |-> i]
    /\ state \in {"address", "write", "read"} => readCount = 0 /\ given = 0
    /\ state = "readbyte" =>
          /\ bus = "receive" => given = readCount
          /\ mif => given = readCount + 1
          /\ given = readCount \/ given = readCount + 1
    /\ state = "ack" => given = readCount
    /\ \/ state = "address" /\ transferType = "read"
       \/ state \in {"read", "readbyte"}
       => readCount < readSize

(* A transfer with no error that ends has ended well.                        *)
EndsWell ==
    /\ state \in {"address", "write", "read", "readbyte", "ack"} => error = "none"
    /\ state = "stop" /\ error = "none" => taken = writeSize /\ readCount = readSize
    /\ state = "stop" /\ mif => ~sBit
    /\ notify = 1 /\ error = "none" =>
          taken = writeSize /\ readCount = readSize /\ ~sBit

Turns == Locked /\ OneThing /\ Asked /\ OneNotice
Bytes == Took /\ Gave /\ EndsWell

IInv == TypeOK /\ Turns /\ Bytes /\ Truthful

-----------------------------------------------------------------------------
(* The SPI driver: the n-th word of a transfer is n, or 0 for a dummy.      *)
SpiWord(i) == IF i <= sTxSize THEN i ELSE 0
SpiWords == Spi!Max2(sTxSize, sRxSize)

(* Words that were written to the peripheral in this transfer.              *)
InShift == IF sShift = None THEN 0 ELSE 1
Written == Len(sSent) + InShift + Len(sTxFifo)

SpiTyped ==
    /\ sPc = [t \in Caller |-> sPc[t]]
    /\ sTxSize \in Nat /\ sRxSize \in Nat
    /\ sTxCount \in Nat /\ sRxCount \in Nat /\ sDummySize \in Int
    /\ sTxFifo \in Seq(Nat) /\ sRxFifo \in Seq(Nat) /\ sSent \in Seq(Nat)
    /\ sShift \in Nat \cup {None}

(* Who waits or returns has the lock; who waits has a transfer under way or *)
(* a notice, never both; one of the interrupts is enabled in a transfer.    *)
SpiTurns ==
    /\ \A t \in Caller : sPc[t] \in {"wait", "done"} => sApi = t
    /\ sNotify = 1 \/ sBusy => sApi \in Caller /\ sPc[sApi] = "wait"
    /\ \A t \in Caller : sPc[t] = "wait" => sBusy \/ sNotify = 1
    /\ sNotify = 1 => ~sBusy
    /\ ~sBusy => ~sTxie /\ ~sRxie /\ sShift = None /\ sTxFifo = <<>>
    /\ sBusy => (sTxie \/ sRxie) /\ ~(sTxie /\ sRxie)

(* Word for word: what was clocked out, is clocked out and will be, ...     *)
SpiOut ==
    /\ \A i \in 1 .. Len(sSent) : sSent[i] = SpiWord(i)
    /\ sShift # None => sShift = SpiWord(Len(sSent) + 1)
    /\ \A i \in 1 .. Len(sTxFifo) : sTxFifo[i] = SpiWord(Len(sSent) + InShift + i)

(* ... and what came in.                                                    *)
SpiIn == sRxBuffer = [i \in 1 .. sRxCount |-> i]

(* While the receive handler sends, exactly one word is between the two     *)
(* fifos; once all is received, only the words of the buffer are left.      *)
SpiCounts ==
    /\ sTxCount <= sTxSize /\ sTxCount <= Written /\ Written <= SpiWords
    /\ sTxCount < sTxSize => Written = sTxCount
    /\ sRxie => /\ sDummySize = (SpiWords - sTxSize) - (Written - sTxCount)
                /\ sRxCount < sRxSize /\ Written = sRxCount + 1
                /\ Len(sRxFifo) + InShift + Len(sTxFifo) = 1
                /\ sRxFifo # <<>> => sRxFifo[1] = sRxCount + 1
    /\ sTxie => /\ sRxCount = sRxSize /\ Written = sTxCount /\ sRxSize <= sTxCount

(* A transfer that is over is complete.                                     *)
SpiOver == ~sBusy /\ (\E t \in Caller : sPc[t] \in {"wait", "done"}) =>
    sRxCount = sRxSize /\ Written = SpiWords

SpiInv == SpiTyped /\ SpiTurns /\ SpiOut /\ SpiIn /\ SpiCounts /\ SpiOver

-----------------------------------------------------------------------------
(* The sensors behind the multiplexer: a thread beyond its entry holds the  *)
(* multiplexer, one at the proximity sensor holds that, too.                *)
Beyond == {"select", "transfer", "deselect"}
AtSensor(t) == nLine[t] = Proximity /\ nPc[t] \in {"mux"} \cup Beyond

SensorsTyped ==
    /\ nPc = [t \in Sensing |-> nPc[t]] /\ nLine = [t \in Sensing |-> nLine[t]]
    /\ nStep \in [Sensing -> 0 .. Setup] /\ nResult \in [Sensing -> BOOLEAN]
    /\ nLk.waits \in Seq(Sensing) /\ nProximityLk.waits \in Seq(Sensing)
    /\ nLk = [owner |-> nLk.owner, waits |-> nLk.waits]
    /\ nProximityLk = [owner |-> nProximityLk.owner, waits |-> nProximityLk.waits]

(* The line of a transfer alone is selected.  The sensor is set up whenever *)
(* it is taken to be, and before a reading; during its setup it has come as *)
(* far as the thread that sets it up, and it is not taken to be set up,     *)
(* unless a transfer failed that is about to be reported.                   *)
SensorsInv ==
    /\ SensorsTyped
    /\ \A t \in Sensing : nPc[t] \in Beyond => nLk.owner = t
    /\ \A t \in Sensing : AtSensor(t) => nProximityLk.owner = t
    /\ \A t \in Sensing : nLine[t] # Proximity => nStep[t] = 0
    /\ \A t \in Sensing : nPc[t] = "sensor" => nLine[t] = Proximity
    /\ \A t \in Sensing : nPc[t] = "transfer" => nSelected = {nLine[t]}
    /\ \A t \in Sensing : AtSensor(t) =>
          /\ nStep[t] > 0 => ~nProximitySet
          /\ nPc[t] # "deselect" /\ nStep[t] = 0 => nConfigured = Setup
          /\ nPc[t] = "deselect" /\ nResult[t] =>
                nConfigured = IF nStep[t] > 0 THEN nStep[t] ELSE Setup
    /\ nProximitySet => \/ nConfigured = Setup
                        \/ \E t \in Sensing : AtSensor(t) /\ nPc[t] = "deselect" /\ ~nResult[t]

-----------------------------------------------------------------------------
(* The encoder: the pins at each place of the shaft, ...                    *)
EncPins(x) == IF x % 4 = 0 THEN 0 ELSE IF x % 4 = 1 THEN 1 ELSE IF x % 4 = 2 THEN 3 ELSE 2

(* ... and the handler knows the pair of places where the shaft was when it *)
(* last ran; the shaft is there, or next to them with the interrupt raised. *)
EncoderInv ==
    /\ eShaft \in Int /\ eSeen \in Int /\ ePosition \in Int /\ eZero \in Int
    /\ ePrevState # Unknown =>
        /\ ePrevState \in {EncPins(2 * eSeen), EncPins(2 * eSeen + 1)}
        /\ ~eChanged => eShaft \in {2 * eSeen, 2 * eSeen + 1}
        /\ eChanged => eShaft \in {2 * eSeen + 2, 2 * eSeen - 1}
        /\ ePosition = eSeen - eZero

-----------------------------------------------------------------------------
(* The UART.                                                                *)
UByte == Nat \X Nat \X Nat
URing ==
    /\ uIn \in 0 .. Ring - 1 /\ uOut \in 0 .. Ring - 1
    /\ uBuffer \in [0 .. Ring - 1 -> UByte] /\ uFifo \in Seq(UByte) /\ uWire \in UByte
UThreads ==
    /\ uPc = [t \in Driver |-> uPc[t]]
    /\ uSize \in [Driver -> Nat] /\ uPushed \in [Driver -> Nat]
    /\ uMutex = [owner |-> uMutex.owner, waits |-> uMutex.waits]
    /\ uDatagrams \in Nat
UHeard == uRd \in Seq(Nat) /\ uReply \in Seq(Nat) /\ uRead \in Nat /\ uWritten \in Nat
UTyped == URing /\ UThreads /\ UHeard

(* What is on its way out, as one line: the byte clocked out last, those of *)
(* the fifo, those of the ring.                                             *)
Pend == Uart!PendingBytes
Flying == Len(uFifo) + Pend
Flight == [j \in 0 .. Flying |->
    IF j = 0 THEN uWire ELSE IF j <= Len(uFifo) THEN uFifo[j]
    ELSE uBuffer[(uOut + (j - Len(uFifo) - 1)) % Ring]]
Newest == Flight[Flying]

Pushing == {"push", "full", "room"}
Holding == {"push", "full", "room", "enable", "sent", "empty", "clear", "clearing", "echo", "echoes"}

(* Byte y may be clocked out after byte x.                                  *)
Follows(x, y) == IF x[2] < x[3] THEN y = <<x[1], x[2] + 1, x[3]>>
                 ELSE y[1] = (x[1] + 1) % Numbers /\ y[2] = 1

(* Each byte of the line follows the one before; who pushes goes on where   *)
(* the newest byte ends, and nobody pushes only between two datagrams.      *)
UOrder ==
    /\ \A j \in 1 .. Flying : Follows(Flight[j - 1], Flight[j])
    /\ \A t \in Driver : uPc[t] \in Pushing =>
          IF uPushed[t] > 0 THEN Newest = <<uDatagrams, uPushed[t], uSize[t]>>
          ELSE Newest[2] = Newest[3] /\ uDatagrams = (Newest[1] + 1) % Numbers
    /\ (\A t \in Driver : uPc[t] \notin Pushing) => Newest[2] = Newest[3] /\ Newest[1] = uDatagrams

(* Where a thread certainly holds the mutex, ...                            *)
Held(t) == \/ uPc[t] \in Holding
           \/ uPc[t] = "sleep" /\ uSize[t] = RequestSize
           \/ uPc[t] = "flush" /\ uPushed[t] > 0

(* ... and how far it has got in its datagram.                              *)
Local(t) ==
    /\ uSize[t] = RequestSize => t = Reader
    /\ uPc[t] \in {"flush", "empty", "clear", "clearing", "echo", "echoes"} => uSize[t] = RequestSize
    /\ uPc[t] \in {"reply", "replied", "lost"} => t = Reader
    /\ uPc[t] \in {"idle", "reply", "replied"} => uSize[t] = 0
    /\ uPc[t] \in {"idle", "sleep", "clear", "clearing", "reply", "replied"} => uPushed[t] = 0
    /\ uPc[t] \in {"sleep"} \cup Pushing => uPushed[t] < uSize[t]
    /\ uPc[t] \in {"enable", "sent", "echo", "echoes"} => uPushed[t] = uSize[t]
    /\ uPc[t] = "sent" => uSize[t] # RequestSize
    /\ uPc[t] \in {"flush", "empty"} => uPushed[t] \in {0, RequestSize}
UHolds == \A t \in Driver : Local(t) /\ (Held(t) => uMutex.owner = t)

(* Bytes on the ring will be fetched: the interrupt is enabled, or a thread *)
(* that pushes has still to enable it.                                      *)
Pump ==
    /\ uIsr => uTxie
    /\ Pend > 0 /\ (\A t \in Driver : uPc[t] \notin Pushing \cup {"enable"}) => uTxie

(* Nothing flies and nothing waits to be read.                              *)
Quiet == uRd = <<>> /\ Flying = 0

(* Bytes of the reader's request may be on their way, or their echoes.      *)
Requesting == /\ uSize[Reader] = RequestSize
              /\ uPc[Reader] \in Pushing \cup {"enable", "flush", "empty", "echo", "echoes"}
              /\ uPushed[Reader] > 0 \/ uPc[Reader] \in Pushing

Writing == {"idle", "sleep", "enable", "sent"} \cup Pushing
Wrote == {"enable", "sent"}

(* The request begins with a quiet line.  The flush waits for the ring only *)
(* and the fifo may hold bytes still; but the reader has written two        *)
(* datagrams before, the second of which it began with an empty fifo, so    *)
(* that the receive ring is not empty and clearing it takes until all is    *)
(* clocked out.                                                             *)
Cleared ==
    /\ uPc[Reader] = "sleep" /\ uSize[Reader] = RequestSize => Quiet
    /\ uPc[Reader] = "clear" /\ uRd = <<>> => Flying = 0
    /\ uPc[Reader] \in {"flush", "empty"} /\ uPushed[Reader] = 0 => uRd # <<>>
    /\ uPc[Reader] \in Writing /\ uSize[Reader] # RequestSize =>
         /\ uWritten >= 2 => uRd # <<>>
         /\ uWritten >= 1 \/ uPushed[Reader] > 0 \/ uPc[Reader] \in Wrote => uRd # <<>> \/ Flying > 0
         /\ uWritten >= 1 /\ uPc[Reader] \in Wrote \cup Pushing => uRd # <<>>

Reads ==
    /\ uPc[Reader] = "echoes" => uRead < RequestSize /\ Flying = 0
    /\ uPc[Reader] = "replied" => uRead < ReplySize
    /\ uPc[Reader] \notin {"echoes", "replied", "lost"} => uRead = 0

(* During a request nothing but it is on its way, ...                       *)
Flies == /\ Flying <= uPushed[Reader]
         /\ \A j \in 1 .. Flying : /\ Flight[j][2] = uPushed[Reader] - Flying + j
                                   /\ Flight[j][3] = RequestSize

(* ... its bytes are heard, one echo for each, ...                          *)
Echoes == uReply = <<>> /\ Len(uRd) + uRead = uPushed[Reader] - Flying

(* ... and behind the echoes what has come of the reply, the rest of which  *)
(* is still to come;                                                        *)
Answers ==
    /\ Flying = 0 /\ uPushed[Reader] = RequestSize
    /\ Len(uReply) <= ReplySize
    /\ Len(uRd) + Len(uReply) + uRead = RequestSize + ReplySize
    /\ \A i \in 1 .. Len(uReply) : uReply[i] = ReplySize - Len(uReply) + i
    /\ \A i \in 1 .. ReplySize - Len(uReply) : uRd[RequestSize - uRead + i] = i

(* at other times nothing flies that a chip replies to.                     *)
Silent ==
    /\ \A j \in 1 .. Flying : Flight[j][3] # RequestSize
    /\ uReply = <<>>
    /\ uAnswered => uPc[Reader] \in {"reply", "replied"}

Exchange ==
    /\ Reads
    /\ Requesting => Flies /\ (~uAnswered => Echoes) /\ (uAnswered => Answers)
    /\ ~Requesting /\ uPc[Reader] # "lost" => Silent
    /\ Uart!Replied

UartInv == UTyped /\ UHolds /\ UOrder /\ Pump /\ Cleared /\ Exchange

-----------------------------------------------------------------------------
DriversInv == IInv /\ SpiInv /\ UartInv /\ SensorsInv /\ EncoderInv
=============================================================================
