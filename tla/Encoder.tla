------------------------------ MODULE Encoder ------------------------------
(***************************************************************************)
(* A quadrature encoder of an axis (drivers/encoder, drivers/hpint.cc).    *)
(* Pin a changes in the middle of a step of pin b; only b interrupts       *)
(* (intpin), at either edge, and the handler tells from both pins, now and *)
(* at its last run, which way the shaft went.                              *)
(*                                                                         *)
(* The handler runs before the next pin changes.  What it would do a       *)
(* quarter of a turn of the pins later is not modelled: it counts the      *)
(* wrong way then.                                                         *)
(***************************************************************************)
EXTENDS Integers

CONSTANTS
    Far,        \* bound: the shaft turns by up to that many quarters
    Unknown     \* prev_state before the first run (0xff)

VARIABLES
    shaft,      \* in quarters; 0 where both pins are low
    changed,    \* whether pin b changed since the handler ran
    prev_state, position,
    seen,       \* history: edges of b up to the place the handler saw last
    zero        \* history: those where position was cleared

vars == <<shaft, changed, prev_state, position, seen, zero>>

PinA == IF shaft % 4 \in {1, 2} THEN 1 ELSE 0
PinB == IF shaft % 4 \in {2, 3} THEN 1 ELSE 0

(* Edges of b from 0 to the place where the shaft is. *)
Edges == shaft \div 2

Turn(d) ==
    /\ ~changed
    /\ shaft + d \in -Far .. Far
    /\ shaft' = shaft + d
    /\ changed' = (PinB' # PinB)
    /\ UNCHANGED <<prev_state, position, seen, zero>>

(* What the handler saw last and sees now. *)
Forward == {<<0, 3>>, <<3, 0>>, <<2, 0>>, <<1, 3>>}

(* Mutant of Backward: where the shaft turns back after the pins were 3    *)
(* nothing is counted.                                                     *)
BackwardOnly == {<<1, 2>>, <<2, 1>>, <<0, 2>>}

Backward == {<<1, 2>>, <<2, 1>>, <<0, 2>>, <<3, 1>>}

(* CHANGE_NOTICE_H_InterruptHandler and Encoder::notify. *)
Notify ==
    LET r == PinA + 2 * PinB IN
    /\ changed
    /\ changed' = FALSE
    /\ prev_state' = r
    /\ position' = IF <<prev_state, r>> \in Forward THEN position + 1
                   ELSE IF <<prev_state, r>> \in Backward THEN position - 1
                   ELSE position
    /\ seen' = Edges
    /\ zero' = IF prev_state = Unknown THEN Edges - position ELSE zero
    /\ UNCHANGED shaft

(* stepper::_resetPosition. *)
ResetPosition ==
    /\ position' = 0 /\ zero' = seen
    /\ UNCHANGED <<shaft, changed, prev_state, seen>>

Init ==
    /\ shaft \in 0 .. 3 /\ changed = FALSE
    /\ prev_state = Unknown /\ position = 0
    /\ seen = 0 /\ zero = 0

Next == Turn(1) \/ Turn(-1) \/ Notify \/ ResetPosition

Spec == Init /\ [][Next]_vars

-----------------------------------------------------------------------------
(* Once the handler has seen an edge, position is the way the shaft has    *)
(* gone since it was cleared, wherever the shaft turned back meanwhile:    *)
(* no edge is counted twice or the wrong way.                              *)
Tracks == prev_state # Unknown => position = seen - zero
=============================================================================
