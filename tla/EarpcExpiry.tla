---------------------------- MODULE EarpcExpiry ----------------------------
(***************************************************************************)
(* Earpc with an expiry thread that may sleep over a call.                 *)
(*                                                                         *)
(* The thread looks at the outgoing table, then at the incoming one, then  *)
(* waits without a predicate (process/expiry.h): a notify that comes in    *)
(* between leaves nothing behind (EarpcThreads, NothingToDo), and the call *)
(* it was about is not seen before the next look.  That look comes with a  *)
(* later notify or a deadline the thread has, of an incoming call say; it  *)
(* may never come.                                                         *)
(*                                                                         *)
(* One wait of the send thread for the transport keeps the receive and     *)
(* expiry threads from its queue; what is assumed of the peer is that it   *)
(* takes what is sent, not that it answers.                                *)
(***************************************************************************)
EXTENDS Earpc

VARIABLE unseen  \* a call became active behind the last look of the expiry
                 \* thread at the outgoing table, and its notify was missed

expiryVars == <<vars, unseen>>

(* The notify of a call that was made or resumed may be missed; other      *)
(* steps leave the thread as it is.                                        *)
Notified ==
    \/ Active' \ Active # {} /\ unseen' \in BOOLEAN
    \/ Active' \ Active = {} /\ unseen' = (unseen /\ Active' # {})

(* The thread sees the call and ends it; it looks again after that. *)
Expires(k) == ~unseen /\ ExpireOutgoing(k) /\ UNCHANGED unseen

(* A notify or a deadline wakes it, and it looks. *)
Look == unseen /\ unseen' = FALSE /\ UNCHANGED vars

Processes == Process /\ Notified
Works(w) == Work(w) /\ Notified
FeedsBack == (\E p \in Packet : SendFeedback(p)) /\ Notified
Forgets(c) == ExpireIncoming(c) /\ Notified

ExpiryInit == Init /\ unseen = FALSE

ExpiryNext ==
    \/ \E k \in Call : Expires(k)
    \/ Look
    \/ \E c \in Cid, d \in Sized :
          DoCall([kind |-> "call", cid |-> c, data |-> d]) /\ Notified
    \/ \E k \in Call : Cancel(k) /\ Notified
    \/ \E p \in Packet : Heard(p) /\ Receive(p) /\ Notified
    \/ Processes \/ FeedsBack
    \/ \E w \in Worker : Works(w)
    \/ \E c \in Cid : Forgets(c)

(* The threads run.  The expiry thread has come to its end of each look,   *)
(* so a call whose time is over and that it can see again and again is     *)
(* ended.  (Incoming calls it always sees: it looks at them last.)  That   *)
(* it is woken is not assumed.                                             *)
ExpiryFairness ==
    /\ WF_expiryVars(Processes) /\ WF_expiryVars(FeedsBack)
    /\ \A w \in Worker : WF_expiryVars(Works(w))
    /\ \A k \in Call : SF_expiryVars(Expires(k))
    /\ \A c \in Cid : WF_expiryVars(Forgets(c))

ExpirySpec == ExpiryInit /\ [][ExpiryNext]_expiryVars /\ ExpiryFairness

-----------------------------------------------------------------------------
(* Every call made is reported to its caller in the end, the parked ones   *)
(* too, if the peer answers nothing at all, unless the expiry thread       *)
(* sleeps for ever over an active call whose notify it missed.             *)
Completes ==
    []<>~unseen => \A k \in Call : stage[k] # "unborn" ~> told[k] > 0
=============================================================================
