---------------------------- MODULE CallService ----------------------------
(***************************************************************************)
(* What an earpc endpoint promises to the code that calls earpc::call:     *)
(* calls are made one after another, at most one is under way, the others  *)
(* wait; a call that ends makes room for one that waits, and every call    *)
(* that ended is reported once.  Which waiting call goes next, why a call  *)
(* ends and how the packets travel are left open.                          *)
(***************************************************************************)
EXTENDS Naturals

CONSTANT Call  \* the calls, naturals in the order they are made

VARIABLES
    status,  \* "unmade", "waiting", "underway" or "ended"
    reports  \* how often the caller was told of the end

vars == <<status, reports>>

UnderWay == {k \in Call : status[k] = "underway"}
Waiting  == {k \in Call : status[k] = "waiting"}

Init ==
    /\ status = [k \in Call |-> "unmade"]
    /\ reports = [k \in Call |-> 0]

Make(k) ==
    /\ status[k] = "unmade"
    /\ \A j \in Call : j < k => status[j] # "unmade"
    /\ status' = [status EXCEPT ![k] = IF UnderWay = {} THEN "underway"
                                       ELSE "waiting"]
    /\ UNCHANGED reports

(* A call under way ends, or one that waits is given up; no call is left   *)
(* waiting with none under way.                                            *)
End(k) ==
    /\ k \in UnderWay \cup Waiting
    /\ \/ /\ UnderWay \ {k} # {} \/ Waiting \ {k} = {}
          /\ status' = [status EXCEPT ![k] = "ended"]
       \/ /\ UnderWay \ {k} = {}
          /\ \E n \in Waiting \ {k} :
                status' = [status EXCEPT ![k] = "ended", ![n] = "underway"]
    /\ UNCHANGED reports

Tell(k) ==
    /\ status[k] = "ended"
    /\ reports[k] = 0
    /\ reports' = [reports EXCEPT ![k] = 1]
    /\ UNCHANGED status

Next == \E k \in Call : Make(k) \/ End(k) \/ Tell(k)

Spec == Init /\ [][Next]_vars
=============================================================================
