------------------------------- MODULE MCSpi1 -------------------------------
(* The SPI1 driver on small instances.  Its two halves share nothing, so a *)
(* behaviour is one of the half that Init picks, and the other stands.     *)
EXTENDS Spi1Receive, TLC

CONSTANTS WriteSizes, MaxWrites

(* A fifo of one byte would be full of filler when a write begins, and     *)
(* nothing would ask the host to read.                                     *)
ASSUME TransmitAssumption ==
    /\ Fifo > 1
    /\ WriteSizes \subseteq Nat \ {0}
    /\ MaxWrites \in Nat

VARIABLES
    half,       \* "receive" or "transmit"
    tFifo, tStxisel, tTxie, tPtr, tSize, tIndex, tIsr, tSem, tWpc, tWrites,
    tCs, tCsirq, tLine, tLast

Tx == INSTANCE Spi1Transmit
          WITH Sizes <- WriteSizes,
               fifo <- tFifo, stxisel <- tStxisel, txie <- tTxie, ptr <- tPtr,
               size <- tSize, index <- tIndex, isr <- tIsr, sem <- tSem,
               wpc <- tWpc, writes <- tWrites, cs <- tCs, csirq <- tCsirq,
               line <- tLine, last <- tLast

tx == <<tFifo, tStxisel, tTxie, tPtr, tSize, tIndex, tIsr, tSem, tWpc, tWrites,
        tCs, tCsirq, tLine, tLast>>
driver == <<half, vars, tx>>

Receiving(A) == half = "receive" /\ A /\ UNCHANGED <<half, tx>>
Transmitting(A) == half = "transmit" /\ A /\ UNCHANGED <<half, vars>>

DriverInit == half \in {"receive", "transmit"} /\ Init /\ Tx!Init

DriverNext == Receiving(Next) \/ Transmitting(Tx!Next)

DriverSpec ==
    /\ DriverInit /\ [][DriverNext]_driver
    /\ WF_driver(Receiving(Handles)) /\ WF_driver(Receiving(Reads))
    /\ WF_driver(Transmitting(Tx!Writes)) /\ WF_driver(Transmitting(Tx!Handles))
    /\ WF_driver(Transmitting(Tx!CSHandler)) /\ WF_driver(Transmitting(Tx!Select))
    /\ SF_driver(Transmitting(Tx!Clock))

(* A packet that SPI1_Write hands to the interrupt handler is not torn by  *)
(* filler on its way to the host.                                          *)
TxWhole == Tx!Whole

(* Outside a transaction the host is asked for what is left in the buffer. *)
TxAnnounced == Tx!Announced

(* Every SPI1_Write returns, if the host polls. *)
TxReturns == Tx!Returns
=============================================================================
