--------------------------- MODULE MCEarpcThreads ---------------------------
(* Earpc's threads on a small instance. *)
EXTENDS EarpcThreads, TLC
=============================================================================
