---------------------------- MODULE PacketQueue ----------------------------
(***************************************************************************)
(* What the packet slave promises to those who send: packets leave in the  *)
(* order in which they were taken over, each once, and no more than        *)
(* Capacity are kept.                                                      *)
(***************************************************************************)
EXTENDS Naturals, Sequences

CONSTANTS Packet, Capacity

VARIABLES
    kept,  \* the packets taken over and not yet written
    sent   \* those that were written

vars == <<kept, sent>>

Init == kept = <<>> /\ sent = <<>>

TakeOver(p) ==
    /\ Len(kept) < Capacity
    /\ kept' = Append(kept, p)
    /\ UNCHANGED sent

Write ==
    /\ kept # <<>>
    /\ sent' = Append(sent, Head(kept))
    /\ kept' = Tail(kept)

Next == Write \/ \E p \in Packet : TakeOver(p)

Spec == Init /\ [][Next]_vars
=============================================================================
