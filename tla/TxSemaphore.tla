---------------------------- MODULE TxSemaphore ----------------------------
(***************************************************************************)
(* The counting semaphore of ThreadX, as a value: [count, waits].  A       *)
(* thread that gets a semaphore either takes a unit and goes on, or is     *)
(* appended to the suspension list; a put hands the unit to the first      *)
(* suspended thread, which then goes on, or counts it.  All gets here are  *)
(* without a timeout (TX_WAIT_FOREVER).                                    *)
(***************************************************************************)
EXTENDS Naturals, Sequences

NewSemaphore(n) == [count |-> n, waits |-> <<>>]

Get(s, t) ==
    IF s.count > 0 THEN [s EXCEPT !.count = @ - 1]
    ELSE [s EXCEPT !.waits = Append(@, t)]

Put(s) ==
    IF s.waits = <<>> THEN [s EXCEPT !.count = @ + 1]
    ELSE [s EXCEPT !.waits = Tail(@)]

(* The ceiling is looked at only where no thread is suspended. *)
CeilingPut(s, ceiling) ==
    IF s.waits = <<>> /\ s.count >= ceiling THEN s ELSE Put(s)

Suspended(s, t) == \E i \in DOMAIN s.waits : s.waits[i] = t

Semaphores(Thread) == [count : Nat, waits : Seq(Thread)]
=============================================================================
