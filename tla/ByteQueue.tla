------------------------------ MODULE ByteQueue ------------------------------
(***************************************************************************)
(* What the receive side of SPI1 promises: a bounded queue of bytes.  A    *)
(* byte that comes while the queue is full is dropped; what is taken is    *)
(* what was kept, in order, each byte once.                                *)
(***************************************************************************)
EXTENDS Naturals, Sequences

CONSTANTS Byte, Capacity

VARIABLES queue, taken

Init == queue = <<>> /\ taken = <<>>

Keep == /\ Len(queue) < Capacity
        /\ \E x \in Byte : queue' = Append(queue, x)
        /\ UNCHANGED taken

Take == \E n \in 1 .. Len(queue) :
          /\ taken' = taken \o SubSeq(queue, 1, n)
          /\ queue' = SubSeq(queue, n + 1, Len(queue))

Spec == Init /\ [][Keep \/ Take]_<<queue, taken>>
=============================================================================
