----------------------------- MODULE MCStepper -----------------------------
(* An axis under the commands of two pool workers, on small instances. *)
EXTENDS Stepper, TLC

Symmetry == Permutations(Commander)

AllFittings == [encoder : BOOLEAN, limit : BOOLEAN]
=============================================================================
