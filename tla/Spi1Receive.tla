----------------------------- MODULE Spi1Receive -----------------------------
(***************************************************************************)
(* The receive side of the SPI1 driver (io/spi.c): bytes come into the     *)
(* fifo of the peripheral, the interrupt handler moves them to a ring, and *)
(* SPI1_Read takes them from there.                                        *)
(*                                                                         *)
(* A thread never runs while a handler does; the loop of the handler is    *)
(* one action for each byte, because the fifo fills while it runs.  What   *)
(* SPI1_Read does with interrupts disabled is one action, and so is each   *)
(* semaphore call.  The interrupt is raised as long as the fifo is not     *)
(* empty (SRXISEL = 1), whatever the flag was cleared to.                  *)
(*                                                                         *)
(* Abstracted: sem_spi1_rx_api is left out: read_process is the only       *)
(* reader.                                                                 *)
(***************************************************************************)
EXTENDS Integers, Sequences

CONSTANTS
    Byte,
    Size,       \* of the ring (4096)
    Fifo,       \* of the peripheral (16)
    Sizes,      \* what SPI1_Read is asked for
    MaxBytes,   \* bound: bytes the host sends
    None        \* what the ring holds before the first byte
ASSUME Spi1ReceiveAssumption ==
    /\ Size \in Nat /\ Size > 1
    /\ Fifo \in Nat \ {0}
    /\ Sizes \subseteq Nat \ {0}
    /\ MaxBytes \in Nat
    /\ None \notin Byte

VARIABLES
    fifo,       \* of the peripheral
    sent,       \* bytes sent so far
    data, b, e, \* spi1_rxdata: the ring, where it begins and ends
    isr,        \* whether the handler runs
    sem,        \* the count of sem_spi1_rx
    rpc,        \* where SPI1_Read is: "idle", "look", "get" or "asleep"
    left,       \* bytes it has yet to copy
    kept,       \* history: the bytes put into the ring
    taken       \* history: the bytes SPI1_Read copied

ring == <<data, b, e>>
vars == <<fifo, sent, ring, isr, sem, rpc, left, kept, taken>>

Avail == (e - b + Size) % Size

-----------------------------------------------------------------------------
(* The host clocks a byte in; a full fifo loses it (the fault handler only *)
(* clears the overflow flag).                                              *)
ByteArrives ==
    /\ sent < MaxBytes
    /\ sent' = sent + 1
    /\ \/ /\ Len(fifo) < Fifo
          /\ \E x \in Byte : fifo' = Append(fifo, x)
       \/ Len(fifo) = Fifo /\ UNCHANGED fifo
    /\ UNCHANGED <<ring, isr, sem, rpc, left, kept, taken>>

RxInterrupt ==
    /\ ~isr /\ fifo # <<>>
    /\ isr' = TRUE
    /\ UNCHANGED <<fifo, sent, ring, sem, rpc, left, kept, taken>>

(* One round of the loop of _spi1_rx_handler. *)
RxByte ==
    /\ isr /\ fifo # <<>>
    /\ fifo' = Tail(fifo)
    /\ \/ /\ Avail # Size - 1
          /\ data' = [data EXCEPT ![e] = Head(fifo)]
          /\ e' = (e + 1) % Size
          /\ kept' = Append(kept, Head(fifo))
       \/ Avail = Size - 1 /\ UNCHANGED <<data, e, kept>>
    /\ UNCHANGED <<sent, b, isr, sem, rpc, left, taken>>

(* Mutant of RxEnd: the semaphore is put only where nobody waits yet. *)
RxEndLate ==
    /\ isr /\ fifo = <<>>
    /\ isr' = FALSE
    /\ sem' = IF Avail # 0 /\ rpc # "asleep" THEN 1 ELSE sem
    /\ UNCHANGED <<fifo, sent, ring, rpc, left, kept, taken>>

(* Its end: the semaphore is put, up to 1, or given to the reader.         *)
RxEnd ==
    /\ isr /\ fifo = <<>>
    /\ isr' = FALSE
    /\ \/ Avail = 0 /\ UNCHANGED <<sem, rpc>>
       \/ /\ Avail # 0 /\ rpc = "asleep"
          /\ rpc' = "look" /\ UNCHANGED sem
       \/ /\ Avail # 0 /\ rpc # "asleep"
          /\ sem' = 1 /\ UNCHANGED rpc
    /\ UNCHANGED <<fifo, sent, ring, left, kept, taken>>

-----------------------------------------------------------------------------
(* SPI1_Read. *)

ReadStart ==
    /\ ~isr /\ rpc = "idle"
    /\ left' \in Sizes
    /\ rpc' = "look"
    /\ UNCHANGED <<fifo, sent, ring, isr, sem, kept, taken>>

Less(m, n) == IF m < n THEN m ELSE n

(* Mutant of ReadCopy: past the end of the ring it begins anew. *)
ReadCopyAnew ==
    /\ ~isr /\ rpc = "look" /\ Avail # 0
    /\ LET n == Less(Avail, left) IN
       /\ taken' = taken \o [i \in 1 .. n |-> data[(b + i - 1) % Size]]
       /\ left' = left - n
       /\ b' = IF b + n < Size THEN b + n ELSE 0
       /\ rpc' = IF left = n THEN "idle" ELSE "look"
    /\ UNCHANGED <<fifo, sent, data, e, isr, sem, kept>>

(* With interrupts disabled it copies what there is, up to what it lacks,  *)
(* and returns when it has it all.                                         *)
ReadCopy ==
    /\ ~isr /\ rpc = "look" /\ Avail # 0
    /\ LET n == Less(Avail, left) IN
       /\ taken' = taken \o [i \in 1 .. n |-> data[(b + i - 1) % Size]]
       /\ left' = left - n
       /\ b' = (b + n) % Size
       /\ rpc' = IF left = n THEN "idle" ELSE "look"
    /\ UNCHANGED <<fifo, sent, data, e, isr, sem, kept>>

(* There is nothing: interrupts are enabled before the semaphore call. *)
ReadNone ==
    /\ ~isr /\ rpc = "look" /\ Avail = 0
    /\ rpc' = "get"
    /\ UNCHANGED <<fifo, sent, ring, isr, sem, left, kept, taken>>

ReadGet ==
    /\ ~isr /\ rpc = "get"
    /\ \/ sem = 1 /\ sem' = 0 /\ rpc' = "look"
       \/ sem = 0 /\ rpc' = "asleep" /\ UNCHANGED sem
    /\ UNCHANGED <<fifo, sent, ring, isr, left, kept, taken>>

Init ==
    /\ fifo = <<>> /\ sent = 0
    /\ data = [i \in 0 .. Size - 1 |-> None]
    /\ b = 0 /\ e = 0
    /\ isr = FALSE /\ sem = 0
    /\ rpc = "idle" /\ left = 0
    /\ kept = <<>> /\ taken = <<>>

Handles == RxInterrupt \/ RxByte \/ RxEnd
Reads == ReadStart \/ ReadCopy \/ ReadNone \/ ReadGet

Next == ByteArrives \/ Handles \/ Reads

Spec == Init /\ [][Next]_vars

(* Interrupts are taken, and read_process reads again and again. *)
FairSpec == Spec /\ WF_vars(Handles) /\ WF_vars(Reads)

-----------------------------------------------------------------------------
TypeOK ==
    /\ fifo \in Seq(Byte) /\ Len(fifo) <= Fifo
    /\ sent \in 0 .. MaxBytes
    /\ data \in [0 .. Size - 1 -> Byte \cup {None}]
    /\ b \in 0 .. Size - 1 /\ e \in 0 .. Size - 1
    /\ isr \in BOOLEAN /\ sem \in 0 .. 1
    /\ rpc \in {"idle", "look", "get", "asleep"}
    /\ left \in Nat
    /\ kept \in Seq(Byte) /\ taken \in Seq(Byte \cup {None})

(* The ring holds what was kept and not taken, however often its ends have *)
(* wrapped, and what SPI1_Read copied is what was kept, in order: a byte   *)
(* is never overwritten before it is read, never read twice or unwritten.  *)
Intact ==
    /\ Len(kept) - Len(taken) \in 0 .. Size - 1
    /\ b = Len(taken) % Size /\ e = Len(kept) % Size
    /\ \A i \in 1 .. Len(taken) : taken[i] = kept[i]
    /\ \A i \in Len(taken) + 1 .. Len(kept) : data[(i - 1) % Size] = kept[i]

(* SPI1_Read does not sleep over bytes: if it waits for the semaphore and  *)
(* the ring is not empty, the handler runs and puts it before it ends; and *)
(* a put between the look at the ring and the semaphore call is not lost.  *)
NotAsleep ==
    (rpc \in {"get", "asleep"} /\ b # e) => isr \/ (rpc = "get" /\ sem = 1)

(* The ring and its two semaphore ends are a bounded queue of bytes. *)
Queue == INSTANCE ByteQueue
             WITH Capacity <- Size - 1,
                  queue <- [i \in 1 .. Avail |-> data[(b + i - 1) % Size]]

IsQueue == Queue!Spec
=============================================================================
