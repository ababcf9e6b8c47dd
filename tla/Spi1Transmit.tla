---------------------------- MODULE Spi1Transmit ----------------------------
(***************************************************************************)
(* The transmit side of the SPI1 driver (io/spi.c): SPI1_Write hands a     *)
(* buffer to the interrupt handler, which moves it to the fifo of the      *)
(* peripheral while the host clocks it out, sends filler where there is    *)
(* nothing else, and asks the host to read by the line SPI0_INT.           *)
(*                                                                         *)
(* The handlers have one priority and threads do not run while they do;    *)
(* the host and the peripheral go on.  So the loop of the handler is one   *)
(* action for each byte.  The transmit interrupt is raised while the fifo  *)
(* is not full (STXISEL = 3) or all was shifted out (0).                   *)
(*                                                                         *)
(* Assumed: the handler is in time, the host never clocks an empty fifo.   *)
(* Abstracted: sem_spi1_tx_api: write_process is the only writer; a byte   *)
(* is <<write, place, size>>, and the filler 0xff is <<>>.                 *)
(***************************************************************************)
EXTENDS Integers, Sequences

CONSTANTS
    Fifo,       \* of the peripheral (16), at least 2
    Sizes,      \* of what SPI1_Write is given, each at least 1
    MaxWrites   \* bound: calls of SPI1_Write

VARIABLES
    fifo,           \* of the peripheral
    stxisel,        \* when the interrupt is raised: 3 or 0
    txie,           \* whether it is enabled
    ptr, size, index, \* spi1_txbuf; ptr is whether it is set
    isr,            \* where the transmit handler is: "off", "loop" or "tail"
    sem,            \* the count of sem_spi1_tx
    wpc,            \* SPI1_Write: "idle", "fill", "get", "asleep" or "done"
    writes,         \* calls so far
    cs,             \* the chip select, low while the host reads
    csirq,          \* a change of it was not handled yet
    line,           \* SPI0_INT
    last            \* history: the byte the host read last

buf == <<ptr, size, index>>
host == <<cs, csirq, line>>
vars == <<fifo, stxisel, txie, buf, isr, sem, wpc, writes, host, last>>

Filler == <<>>
Low == 0
High == 1

Raised == txie /\ IF stxisel = 3 THEN Len(fifo) < Fifo ELSE fifo = <<>>

-----------------------------------------------------------------------------
(* SPI1_Write. *)

WriteStart ==
    /\ isr = "off" /\ wpc = "idle" /\ writes < MaxWrites
    /\ writes' = writes + 1
    /\ txie' = FALSE /\ ptr' = TRUE
    /\ wpc' = "fill"
    /\ UNCHANGED <<fifo, stxisel, size, index, isr, sem, host, last>>

WriteFill ==
    /\ isr = "off" /\ wpc = "fill"
    /\ size' \in Sizes /\ index' = 0
    /\ stxisel' = 3 /\ txie' = TRUE
    /\ wpc' = "get"
    /\ UNCHANGED <<fifo, ptr, isr, sem, writes, host, last>>

WriteGet ==
    /\ isr = "off" /\ wpc = "get"
    /\ \/ sem = 1 /\ sem' = 0 /\ wpc' = "done"
       \/ sem = 0 /\ wpc' = "asleep" /\ UNCHANGED sem
    /\ UNCHANGED <<fifo, stxisel, txie, buf, isr, writes, host, last>>

WriteReturn ==
    /\ isr = "off" /\ wpc = "done"
    /\ index' = 0
    /\ wpc' = "idle"
    /\ UNCHANGED <<fifo, stxisel, txie, ptr, size, isr, sem, writes, host, last>>

-----------------------------------------------------------------------------
(* _spi1_tx_handler. *)

TxFiller ==
    /\ isr = "off" /\ Raised /\ ~ptr
    /\ fifo' = Append(fifo, Filler)
    /\ line' = FALSE
    /\ UNCHANGED <<stxisel, txie, buf, isr, sem, wpc, writes, cs, csirq, last>>

TxInterrupt ==
    /\ isr = "off" /\ Raised /\ ptr
    /\ isr' = "loop"
    /\ UNCHANGED <<fifo, stxisel, txie, buf, sem, wpc, writes, host, last>>

TxLoad ==
    /\ isr = "loop" /\ Len(fifo) < Fifo /\ index < size
    /\ fifo' = Append(fifo, <<writes, index + 1, size>>)
    /\ index' = index + 1
    /\ UNCHANGED <<stxisel, txie, ptr, size, isr, sem, wpc, writes, host, last>>

(* The semaphore is put, up to 1, or given to the waiting writer. *)
PutTx == IF wpc = "asleep" THEN wpc' = "done" /\ UNCHANGED sem
                           ELSE sem' = 1 /\ UNCHANGED wpc

(* Mutant of TxEnd: the buffer is let go one byte early. *)
TxEndEarly ==
    /\ isr = "loop" /\ Len(fifo) < Fifo /\ index >= size - 1
    /\ ptr' = FALSE /\ stxisel' = 0
    /\ PutTx
    /\ isr' = "tail"
    /\ UNCHANGED <<fifo, txie, size, index, writes, host, last>>

(* Mutant of TxEnd: only a writer that waits already is woken. *)
TxEndSignal ==
    /\ isr = "loop" /\ Len(fifo) < Fifo /\ index >= size
    /\ ptr' = FALSE /\ stxisel' = 0
    /\ wpc' = IF wpc = "asleep" THEN "done" ELSE wpc
    /\ isr' = "tail"
    /\ UNCHANGED <<fifo, txie, size, index, sem, writes, host, last>>

TxEnd ==
    /\ isr = "loop" /\ Len(fifo) < Fifo /\ index >= size
    /\ ptr' = FALSE /\ stxisel' = 0
    /\ PutTx
    /\ isr' = "tail"
    /\ UNCHANGED <<fifo, txie, size, index, writes, host, last>>

TxFull ==
    /\ isr = "loop" /\ Len(fifo) = Fifo
    /\ isr' = "tail"
    /\ UNCHANGED <<fifo, stxisel, txie, buf, sem, wpc, writes, host, last>>

TxTail ==
    /\ isr = "tail"
    /\ line' = (line \/ cs = High)
    /\ isr' = "off"
    /\ UNCHANGED <<fifo, stxisel, txie, buf, sem, wpc, writes, cs, csirq, last>>

(* Mutant of CSHandler: it does nothing. *)
CSIgnored ==
    /\ isr = "off" /\ csirq
    /\ csirq' = FALSE
    /\ UNCHANGED <<fifo, stxisel, txie, buf, isr, sem, wpc, writes, cs, line, last>>

(* SPI1_CS_Handler. *)
CSHandler ==
    /\ isr = "off" /\ csirq
    /\ csirq' = FALSE
    /\ line' = (line \/ (cs = High /\ ptr /\ size # index))
    /\ UNCHANGED <<fifo, stxisel, txie, buf, isr, sem, wpc, writes, cs, last>>

-----------------------------------------------------------------------------
(* The host. *)

Select ==
    /\ cs = High
    /\ cs' = Low /\ csirq' = TRUE
    /\ UNCHANGED <<fifo, stxisel, txie, buf, isr, sem, wpc, writes, line, last>>

Clock ==
    /\ cs = Low /\ fifo # <<>>
    /\ last' = Head(fifo)
    /\ fifo' = Tail(fifo)
    /\ UNCHANGED <<stxisel, txie, buf, isr, sem, wpc, writes, host>>

Deselect ==
    /\ cs = Low
    /\ cs' = High /\ csirq' = TRUE
    /\ UNCHANGED <<fifo, stxisel, txie, buf, isr, sem, wpc, writes, line, last>>

Init ==
    /\ fifo = <<>> /\ stxisel = 0 /\ txie = TRUE
    /\ ptr = FALSE /\ size = 0 /\ index = 0
    /\ isr = "off" /\ sem = 0 /\ wpc = "idle" /\ writes = 0
    /\ cs = High /\ csirq = FALSE /\ line = FALSE
    /\ last = Filler

Writes == WriteStart \/ WriteFill \/ WriteGet \/ WriteReturn

Handles == TxFiller \/ TxInterrupt \/ TxLoad \/ TxEnd \/ TxFull \/ TxTail

Next == Writes \/ Handles \/ CSHandler \/ Select \/ Clock \/ Deselect

Spec == Init /\ [][Next]_vars

(* Interrupts are taken, the writer runs, and the host selects the device  *)
(* and clocks it again and again, whether the line is up or not.           *)
FairSpec == /\ Spec
            /\ WF_vars(Writes) /\ WF_vars(Handles) /\ WF_vars(CSHandler)
            /\ WF_vars(Select) /\ SF_vars(Clock)

-----------------------------------------------------------------------------
TypeOK ==
    /\ fifo \in Seq({Filler} \cup (Nat \X Nat \X Sizes)) /\ Len(fifo) <= Fifo
    /\ stxisel \in {0, 3} /\ txie \in BOOLEAN
    /\ ptr \in BOOLEAN /\ size \in Sizes \cup {0} /\ index \in 0 .. size
    /\ isr \in {"off", "loop", "tail"} /\ sem \in 0 .. 1
    /\ wpc \in {"idle", "fill", "get", "asleep", "done"}
    /\ writes \in 0 .. MaxWrites
    /\ cs \in {Low, High} /\ csirq \in BOOLEAN /\ line \in BOOLEAN
    /\ last \in {Filler} \cup (Nat \X Nat \X Sizes)

(* What the host may read after byte p. *)
Follows(p, q) ==
    IF p = Filler \/ p[2] = p[3] THEN q = Filler \/ q[2] = 1
    ELSE q = <<p[1], p[2] + 1, p[3]>>

(* A packet is not torn: behind a byte that the host has read or will read *)
(* from the fifo comes the next of the same write, with no filler between  *)
(* and none lost or doubled, up to its last; what the fifo lacks of it is  *)
(* still in the buffer, from the right place on.                           *)
Whole ==
    LET stream == <<last>> \o fifo
        end == stream[Len(stream)]
    IN /\ \A i \in 1 .. Len(stream) - 1 : Follows(stream[i], stream[i + 1])
       /\ (end # Filler /\ end[2] < end[3]) =>
              ptr /\ txie /\ end = <<writes, index, size>>

(* The host is asked: while bytes of a write are left in the buffer, the   *)
(* device is not selected and no interrupt is outstanding, the line is up. *)
(* (Not so for what went to the fifo as a whole during a transaction: when *)
(* that ends, nothing raises the line for it.)                             *)
Announced ==
    (ptr /\ txie /\ index < size /\ cs = High /\ isr = "off"
         /\ ~csirq /\ ~Raised) => line

(* Every SPI1_Write returns, if the host polls.  One that reads only when  *)
(* the line asks it to is not enough: a write whose last bytes fill the    *)
(* fifo when a transaction ends is not announced and does not return.      *)
Returns == wpc # "idle" ~> wpc = "idle"
=============================================================================
