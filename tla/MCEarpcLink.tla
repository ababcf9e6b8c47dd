---------------------------- MODULE MCEarpcLink ----------------------------
(* A device and a host on a lossy link, on small instances. *)
EXTENDS EarpcLink, TLC

Ids == Permutations(Cid)

(* Ids are drawn at random; where they are numbers, it is enough to draw   *)
(* them in order (TLC reduces no symmetry where it checks liveness).       *)
InOrder == \A b, c \in Cid : Fresh(c) /\ ~Fresh(c)' /\ b < c => ~Fresh(b)

(* Bound: an incoming record expires only where one call is made in all.   *)
AloneLapses == Cardinality({c \in Cid : ~Fresh(c)}) > 1 => lapsed = {}

SettlingSpec ==
    Init /\ [][Next /\ InOrder /\ AloneLapses']_vars /\ Fairness
=============================================================================
