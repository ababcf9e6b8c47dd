--------------------------- MODULE MCEarpcExpiry ---------------------------
(* Earpc with its expiry thread and an unconstrained peer, on a small      *)
(* instance. *)
EXTENDS EarpcExpiry, TLC
=============================================================================
