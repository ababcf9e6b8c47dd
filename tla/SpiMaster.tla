------------------------------ MODULE SpiMaster ------------------------------
(***************************************************************************)
(* A master SPI driver (plib_spi2_master.c; SPI5 and SPI6 are copies of    *)
(* it): SPI2_WriteRead writes the first word itself and waits; the receive *)
(* handler goes on, one word in for one word out, and once all is received *)
(* the transmit handler sends what is left.  It alone sends if nothing is  *)
(* received.                                                               *)
(*                                                                         *)
(* A thread does not run while an enabled interrupt is outstanding, and    *)
(* both handlers have one priority.  The receive interrupt is raised while *)
(* the receive fifo is not empty; the transmit interrupt while the         *)
(* transmit fifo is empty ("buffer", STXISEL = 1), or that and the shift   *)
(* register ("shift", 0).                                                  *)
(*                                                                         *)
(* Abstracted: the widths of 16 and 32 bits (nobody calls TransferSetup);  *)
(* the n-th byte of a transmit buffer is n, a dummy byte is 0, and the     *)
(* n-th byte that comes in during a transfer is n.                         *)
(***************************************************************************)
EXTENDS Integers, Sequences

CONSTANTS
    Caller,    \* threads
    None,
    Fifo,      \* of the peripheral, each way (16)
    TxSizes,   \* of what is written, 0 for nothing
    RxSizes    \* of what is read

VARIABLES
    api, line,         \* sem_spi2_api: who has it, who waits
    notify,            \* sem_spi2_notify
    pc,                \* what a caller does: "idle", "api", "wait" or "done"
    busy,              \* spi2Obj.transferIsBusy
    txSize, rxSize, txCount, rxCount, dummySize, \* the rest of spi2Obj
    rxBuffer,          \* what was received
    txie, rxie, stxisel, \* which interrupts are enabled, and when
    txFifo, shift, rxFifo, \* the peripheral
    sent               \* history: the bytes clocked out in this transfer

sync == <<api, line, notify, pc>>
sizes == <<txSize, rxSize>>
enables == <<txie, rxie, stxisel>>
vars == <<sync, busy, sizes, txCount, rxCount, dummySize, rxBuffer, enables,
          txFifo, shift, rxFifo, sent>>

TxIrq == /\ txie /\ txFifo = <<>>
         /\ stxisel = "shift" => shift = None

RxIrq == rxie /\ rxFifo # <<>>

Threads == ~TxIrq /\ ~RxIrq

Max2(m, n) == IF m > n THEN m ELSE n

-----------------------------------------------------------------------------
(* SPI2_WriteRead, which SPI2_Read and SPI2_Write call. *)

Call(t) ==
    /\ Threads /\ pc[t] = "idle"
    /\ \/ api = None /\ api' = t /\ UNCHANGED line
       \/ api # None /\ line' = Append(line, t) /\ UNCHANGED api
    /\ pc' = [pc EXCEPT ![t] = "api"]
    /\ UNCHANGED <<notify, busy, sizes, txCount, rxCount, dummySize, rxBuffer,
                   enables, txFifo, shift, rxFifo, sent>>

(* A request is set up, its first word written and one of the interrupts   *)
(* enabled: the receive interrupt if anything is received.                 *)
Request ==
    \E n \in TxSizes, m \in RxSizes :
      /\ n + m > 0
      /\ txSize' = n /\ rxSize' = m
      /\ txFifo' = Append(txFifo, IF n > 0 THEN 1 ELSE 0)
      /\ txCount' = IF n > 0 THEN 1 ELSE 0
      /\ dummySize' = Max2(m - n, 0) - IF n > 0 THEN 0 ELSE 1
      /\ rxie' = (m > 0) /\ txie' = (m = 0)
      /\ stxisel' = IF m = 0 /\ n > 1 THEN "buffer" ELSE "shift"

(* Mutant of Start: what is in the receive fifo stays there. *)
StartUndrained(t) ==
    /\ Threads /\ pc[t] = "api" /\ api = t /\ ~busy
    /\ Request
    /\ busy' = TRUE /\ rxCount' = 0 /\ rxBuffer' = <<>>
    /\ sent' = <<>>
    /\ pc' = [pc EXCEPT ![t] = "wait"]
    /\ UNCHANGED <<api, line, notify, shift, rxFifo>>

(* The receive fifo is drained first.  (A request that finds a transfer    *)
(* under way is refused; there is none, see OneNotice.)                    *)
Start(t) ==
    /\ Threads /\ pc[t] = "api" /\ api = t /\ ~busy
    /\ Request
    /\ busy' = TRUE /\ rxCount' = 0 /\ rxBuffer' = <<>>
    /\ rxFifo' = <<>> /\ sent' = <<>>
    /\ pc' = [pc EXCEPT ![t] = "wait"]
    /\ UNCHANGED <<api, line, notify, shift>>

Notified(t) ==
    /\ Threads /\ pc[t] = "wait" /\ notify = 1
    /\ notify' = 0
    /\ pc' = [pc EXCEPT ![t] = "done"]
    /\ UNCHANGED <<api, line, busy, sizes, txCount, rxCount, dummySize, rxBuffer,
                   enables, txFifo, shift, rxFifo, sent>>

Return(t) ==
    /\ Threads /\ pc[t] = "done"
    /\ \/ line = <<>> /\ api' = None /\ UNCHANGED line
       \/ line # <<>> /\ api' = Head(line) /\ line' = Tail(line)
    /\ pc' = [pc EXCEPT ![t] = "idle"]
    /\ UNCHANGED <<notify, busy, sizes, txCount, rxCount, dummySize, rxBuffer,
                   enables, txFifo, shift, rxFifo, sent>>

-----------------------------------------------------------------------------
(* SPI2_RX_InterruptHandler: it takes a byte, and ...                      *)

RxTake ==
    /\ RxIrq
    /\ rxFifo' = Tail(rxFifo)
    /\ IF rxCount < rxSize
       THEN rxCount' = rxCount + 1 /\ rxBuffer' = Append(rxBuffer, Head(rxFifo))
       ELSE UNCHANGED <<rxCount, rxBuffer>>

(* ... sends the next, if it lacks more; *)
RxMore ==
    /\ RxTake /\ rxCount + 1 < rxSize
    /\ \/ /\ txCount < txSize
          /\ txFifo' = Append(txFifo, txCount + 1)
          /\ txCount' = txCount + 1
          /\ UNCHANGED dummySize
       \/ /\ txCount = txSize /\ dummySize > 0
          /\ txFifo' = Append(txFifo, 0)
          /\ dummySize' = dummySize - 1
          /\ UNCHANGED txCount
       \/ /\ txCount = txSize /\ dummySize = 0
          /\ UNCHANGED <<txFifo, txCount, dummySize>>
    /\ UNCHANGED <<sync, busy, sizes, enables, shift, sent>>

(* ... lets the transmit handler send what is left; *)
RxRest ==
    /\ RxTake /\ rxCount + 1 = rxSize /\ txCount < txSize
    /\ rxie' = FALSE /\ stxisel' = "buffer" /\ txie' = TRUE
    /\ UNCHANGED <<sync, busy, sizes, txCount, dummySize, txFifo, shift, sent>>

(* ... or ends the transfer. *)
RxDone ==
    /\ RxTake /\ rxCount + 1 >= rxSize /\ txCount = txSize
    /\ rxie' = FALSE /\ busy' = FALSE /\ notify' = 1
    /\ UNCHANGED <<txie, stxisel, api, line, pc, sizes, txCount, dummySize,
                   txFifo, shift, sent>>

-----------------------------------------------------------------------------
(* SPI2_TX_InterruptHandler. *)

TxMore ==
    /\ TxIrq /\ txCount < txSize
    /\ txFifo' = Append(txFifo, txCount + 1)
    /\ txCount' = txCount + 1
    /\ stxisel' = IF txCount + 1 = txSize THEN "shift" ELSE stxisel
    /\ UNCHANGED <<txie, rxie, sync, busy, sizes, rxCount, dummySize, rxBuffer,
                   shift, rxFifo, sent>>

TxDone ==
    /\ TxIrq /\ txCount = txSize /\ shift = None
    /\ txie' = FALSE /\ busy' = FALSE /\ notify' = 1
    /\ UNCHANGED <<rxie, stxisel, api, line, pc, sizes, txCount, rxCount, dummySize,
                   rxBuffer, txFifo, shift, rxFifo, sent>>

(* The peripheral: a word begins to shift, and has been shifted.  One that *)
(* comes in where the fifo is full is lost.                                *)

Load ==
    /\ shift = None /\ txFifo # <<>>
    /\ shift' = Head(txFifo)
    /\ txFifo' = Tail(txFifo)
    /\ UNCHANGED <<sync, busy, sizes, txCount, rxCount, dummySize, rxBuffer,
                   enables, rxFifo, sent>>

Shifted ==
    /\ shift # None
    /\ sent' = Append(sent, shift)
    /\ rxFifo' = IF Len(rxFifo) < Fifo THEN Append(rxFifo, Len(sent) + 1) ELSE rxFifo
    /\ shift' = None
    /\ UNCHANGED <<sync, busy, sizes, txCount, rxCount, dummySize, rxBuffer,
                   enables, txFifo>>

Init ==
    /\ api = None /\ line = <<>> /\ notify = 0
    /\ pc = [t \in Caller |-> "idle"]
    /\ busy = FALSE
    /\ txSize = 0 /\ rxSize = 0 /\ txCount = 0 /\ rxCount = 0 /\ dummySize = 0
    /\ rxBuffer = <<>>
    /\ txie = FALSE /\ rxie = FALSE /\ stxisel = "buffer"
    /\ txFifo = <<>> /\ shift = None /\ rxFifo = <<>> /\ sent = <<>>

Continue(t) == Start(t) \/ Notified(t) \/ Return(t)

Handles == RxMore \/ RxRest \/ RxDone \/ TxMore \/ TxDone

Next == \/ \E t \in Caller : Call(t) \/ Continue(t)
        \/ Handles \/ Load \/ Shifted

Spec == Init /\ [][Next]_vars

(* Threads run, interrupts are taken, words are shifted. *)
FairSpec == /\ Spec /\ \A t \in Caller : WF_vars(Continue(t))
            /\ WF_vars(Handles) /\ WF_vars(Load \/ Shifted)

-----------------------------------------------------------------------------
TypeOK ==
    /\ api \in Caller \cup {None} /\ line \in Seq(Caller) /\ notify \in 0 .. 1
    /\ pc \in [Caller -> {"idle", "api", "wait", "done"}]
    /\ busy \in BOOLEAN
    /\ txSize \in TxSizes \cup {0} /\ rxSize \in RxSizes \cup {0}
    /\ txCount \in 0 .. txSize /\ rxCount \in 0 .. rxSize /\ dummySize \in 0 .. rxSize
    /\ Len(rxBuffer) = rxCount
    /\ txie \in BOOLEAN /\ rxie \in BOOLEAN /\ stxisel \in {"buffer", "shift"}
    /\ txFifo \in Seq(Nat) /\ Len(txFifo) <= Fifo
    /\ shift \in Nat \cup {None}
    /\ rxFifo \in Seq(Nat) /\ Len(rxFifo) <= Fifo
    /\ sent \in Seq(Nat)

(* SPI2_WriteRead returns when, and only when, its transfer is over: all   *)
(* was clocked out, the transmit buffer and then dummy bytes, and what was *)
(* received meanwhile, from the first byte on, is in the receive buffer.   *)
(* (Chip select is taken back upon this.)                                  *)
Complete == \A t \in Caller : pc[t] = "done" =>
    /\ sent = [i \in 1 .. Max2(txSize, rxSize) |-> IF i <= txSize THEN i ELSE 0]
    /\ rxBuffer = [i \in 1 .. rxSize |-> i]
    /\ shift = None /\ txFifo = <<>>

(* A notice is of the transfer that waits for it: none is left behind that *)
(* would let the next transfer return before its end, and no transfer      *)
(* begins while one is under way.                                          *)
OneNotice ==
    /\ notify = 1 => ~busy /\ api # None /\ pc[api] = "wait"
    /\ busy => api # None /\ pc[api] = "wait"

(* Every call returns. *)
Returns == \A t \in Caller : pc[t] # "idle" ~> pc[t] = "idle"
=============================================================================
