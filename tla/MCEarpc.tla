------------------------------ MODULE MCEarpc ------------------------------
(* Earpc with an unconstrained peer, on small instances. *)
EXTENDS Earpc, TLC

Ids == Permutations(Cid)
IdsAndWorkers == Permutations(Cid) \cup Permutations(Worker)
=============================================================================
