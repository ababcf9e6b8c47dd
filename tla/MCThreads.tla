----------------------------- MODULE MCThreads -----------------------------
(* The callback pool and the other threads of earpc on small instances.    *)
(* They meet only in the job buffer, which either module has in its own    *)
(* way, so a behaviour is one of the part that Init picks, and the other   *)
(* stands.                                                                 *)
EXTENDS CallbackPool, TLC

CONSTANTS Id, Caller, Sender, Feedback, Expiry, Receiver, None, Timeout,
          MaxIn, MaxFeedback

ASSUME EarpcThreadsAssumption ==
    /\ Sender \notin {Feedback, Expiry, Receiver}
    /\ Feedback \notin {Expiry, Receiver} /\ Expiry # Receiver
    /\ Caller \cap {Sender, Feedback, Expiry, Receiver} = {}
    /\ None \notin Nat
    /\ Timeout \in Nat

VARIABLES
    part,       \* "pool" or "earpc"
    eLock, eOut, eInc, eQueue, eNotified, eFbq, eCpu, eAsleep, eUntil, ePc,
    eArg, eMissed

Earpc == INSTANCE EarpcThreads
             WITH lock <- eLock, out <- eOut, inc <- eInc, queue <- eQueue,
                  notified <- eNotified, fbq <- eFbq, cpu <- eCpu,
                  asleep <- eAsleep, until <- eUntil, pc <- ePc, arg <- eArg,
                  missed <- eMissed

earpc == <<eLock, eOut, eInc, eQueue, eNotified, eFbq, eCpu, eAsleep, eUntil,
           ePc, eArg, eMissed>>
threads == <<part, vars, earpc>>

OnPool(A) == part = "pool" /\ A /\ UNCHANGED <<part, earpc>>
OnEarpc(A) == part = "earpc" /\ A /\ UNCHANGED <<part, vars>>

ThreadsInit == part \in {"pool", "earpc"} /\ Init /\ Earpc!Init

(* The pool may stop, with a report that cannot end; nothing else may.     *)
Stopped == Stuck /\ UNCHANGED vars

ThreadsNext == OnPool(Next \/ Stopped) \/ OnEarpc(Earpc!Next)

ThreadsSpec ==
    /\ ThreadsInit /\ [][ThreadsNext]_threads
    /\ \A w \in Worker : WF_threads(OnPool(Works(w)))
    /\ SF_threads(OnEarpc(Earpc!Expires)) /\ SF_threads(OnEarpc(Earpc!Tick))

(* The send and feedback threads do not sleep over queued packets. *)
QueuesWake == Earpc!QueuesWake

(* The expiry thread does not sleep past a call's end, unless it missed a  *)
(* notify.                                                                 *)
InTime == Earpc!InTime

(* The expiry thread gives up the processor. *)
Yields == Earpc!Yields
=============================================================================
