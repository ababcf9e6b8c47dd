---------------------------- MODULE EarpcThreads ----------------------------
(***************************************************************************)
(* How earpc's threads lock, sleep and wake (process/expiry.h, send.h,     *)
(* feedback.h, recv.h and do_call): what Earpc takes for granted when it   *)
(* says that calls expire and queues are drained.                          *)
(*                                                                         *)
(* All threads have one priority and no time slice: one of them has the    *)
(* processor until it sleeps, waits for a lock that is taken or for the    *)
(* transport.  suspend_lock is never held across such a wait and is left   *)
(* out.  The send and feedback threads hold the lock of their queue while  *)
(* they wait for the transport.                                            *)
(*                                                                         *)
(* Abstracted: there is one peer; of an incoming call only the time it has *)
(* left matters; one wait for the transport stands for those of all the    *)
(* packets of one round; the sleep until a packet is resent may end at any *)
(* time; the peer answers only what was sent; nobody cancels a call, and   *)
(* the returns that workers queue, as callers do their calls, are left     *)
(* out.                                                                    *)
(***************************************************************************)
EXTENDS Integers, FiniteSets, PxSync

CONSTANTS
    Id,          \* call ids
    Caller,      \* threads that make calls
    Sender, Feedback, Expiry, Receiver,  \* earpc's threads
    None,
    Timeout,     \* ticks that a call has (320 ms)
    MaxIn,       \* bound: incoming calls on the table
    MaxFeedback  \* bound: packets on the feedback queue

Thread == Caller \cup {Sender, Feedback, Expiry, Receiver}
Locks == {"out", "in", "queue", "feedback"}

VARIABLES
    lock,       \* lock[l]: of the two tables and the two queues
    out,        \* the outgoing table, front first: [id, parked, left]
    inc,        \* the incoming table, front first: ticks left
    queue,      \* ids of the packets on the send queue
    notified,   \* the send thread's flag
    fbq,        \* how many packets are on the feedback queue
    cpu,        \* the thread that has the processor, or None
    asleep,     \* the threads that wait on their condition variable
    until,      \* until[t]: ticks to the deadline of its sleep, or None
    pc, arg,    \* arg[t]: the id of the call t is about
    missed      \* history: a notify came between the expiry thread's look at
                \* the outgoing table and its sleep

tables == <<out, inc>>
queues == <<queue, notified, fbq>>
sleeps == <<asleep, until>>
vars == <<lock, tables, queues, cpu, sleeps, pc, arg, missed>>

Active == {i \in DOMAIN out : ~out[i].parked}
Ids(s) == {s[i].id : i \in DOMAIN s}

(* Nobody has the processor but t, which does not sleep (any more) and has *)
(* every lock it asked for.                                                *)
Ready(t, at) == /\ pc[t] = at /\ (t \in asleep => until[t] = 0)
                /\ cpu \in {None, t}
                /\ \A l \in Locks : ~InLine(lock[l], t)

Locked(L, t, l) == [L EXCEPT ![l] = Lock(@, t, None)]
Unlocked(L, t, l) == [L EXCEPT ![l] = Unlock(@, t, None)]

GoTo(t, to) == pc' = [pc EXCEPT ![t] = to]

(* From the locks L on, t takes l and goes on, or waits in line for it. *)
Acquire(L, t, l, to) ==
    /\ lock' = Locked(L, t, l)
    /\ cpu' = IF L[l].owner = None THEN t ELSE None
    /\ GoTo(t, to)

(* t gives up the processor. *)
Rests(t, to) == cpu' = None /\ GoTo(t, to)

(* It is done with the call it was about. *)
Ends(t, to) == Rests(t, to) /\ arg' = [arg EXCEPT ![t] = None]

Sleep(t, deadline) == /\ asleep' = asleep \cup {t}
                      /\ until' = [until EXCEPT ![t] = deadline]

Wake(T) == /\ asleep' = asleep \ T
           /\ until' = [t \in Thread |-> IF t \in T \cap asleep THEN None ELSE until[t]]

(* proc_expiry::notify (with the wakeup of the send thread, where packets  *)
(* are queued first): nothing is left behind if it does not sleep.         *)
NotifyExpiry(others) ==
    /\ Wake({Expiry} \cup others)
    /\ missed' = (missed \/ pc[Expiry] \in {"incoming", "remove incoming"})

-----------------------------------------------------------------------------
(* do_call. *)

Free == Id \ (Ids(out) \cup queue)

Drawing == {t \in Caller : pc[t] \in {"draw", "push"}}

DoCall(t) ==
    /\ Ready(t, "idle")
    /\ Cardinality(Free) > Cardinality(Drawing)  \* the bound that Id is
    /\ Acquire(lock, t, "out", "draw")
    /\ UNCHANGED <<tables, queues, sleeps, arg, missed>>

DrawId(t) ==
    /\ Ready(t, "draw")
    /\ Acquire(lock, t, "in", "push")
    /\ UNCHANGED <<tables, queues, sleeps, arg, missed>>

Record(i, parked) == [id |-> i, parked |-> parked, left |-> Timeout]

PushOutgoing(t) ==
    /\ Ready(t, "push")
    /\ \E i \in Free :
          LET L == Unlocked(Unlocked(lock, t, "in"), t, "out") IN
          /\ out' = <<Record(i, Active # {})>> \o out
          /\ \/ /\ Active # {}
                /\ lock' = L /\ Ends(t, "idle")
             \/ /\ Active = {}
                /\ arg' = [arg EXCEPT ![t] = i]
                /\ Acquire(L, t, "queue", "notify")
    /\ UNCHANGED <<inc, queues, sleeps, missed>>

(* proc_send::notify and proc_expiry::notify. *)
NotifyBoth(t) ==
    /\ Ready(t, "notify")
    /\ queue' = queue \cup {arg[t]} /\ notified' = TRUE
    /\ lock' = Unlocked(lock, t, "queue")
    /\ NotifyExpiry({Sender})
    /\ Ends(t, "idle")
    /\ UNCHANGED <<tables, fbq>>

-----------------------------------------------------------------------------
(* outgoing_call_finished, by a thread that has erased call i and holds    *)
(* the lock of the outgoing table: a parked call is resumed, or t goes on. *)

Rest(i) == RemoveAt(out, SelectInSeq(out, LAMBDA c : c.id = i))

FirstParked(s) == CHOOSE k \in DOMAIN s :
    s[k].parked /\ \A j \in 1 .. k - 1 : ~s[j].parked

Resumable(s) == s # <<>> /\ \A k \in DOMAIN s : s[k].parked

(* Mutant of Resumed: the call stays parked. *)
ResumedParked(s) == [s EXCEPT ![FirstParked(s)] = [@ EXCEPT !.left = Timeout]]

Resumed(s) == [s EXCEPT ![FirstParked(s)] = Record(@.id, FALSE)]

Resume(t, i) ==
    /\ Resumable(Rest(i))
    /\ out' = Resumed(Rest(i))
    /\ arg' = [arg EXCEPT ![t] = Rest(i)[FirstParked(Rest(i))].id]

ResumeNone(t, i) == /\ ~Resumable(Rest(i))
                    /\ out' = Rest(i)
                    /\ arg' = [arg EXCEPT ![t] = None]

-----------------------------------------------------------------------------
(* The receive thread.  It goes back to conn.recv with Rests.              *)

(* Calls whose packet is or was on the send queue. *)
Sent == {out[k].id : k \in Active}
            \ {arg[t] : t \in {u \in Thread : pc[u] \in {"notify", "resume"}}}

HearAnswer ==
    /\ Ready(Receiver, "recv")
    /\ fbq < MaxFeedback
    /\ \/ \E i \in Sent : arg' = [arg EXCEPT ![Receiver] = i]
       \/ inc # <<>> /\ arg' = [arg EXCEPT ![Receiver] = None]
    /\ Acquire(lock, Receiver, "queue", "remove")
    /\ UNCHANGED <<tables, queues, sleeps, missed>>

(* proc_send::remove. *)
RemoveAnswered ==
    /\ Ready(Receiver, "remove")
    /\ queue' = queue \ {arg[Receiver]}
    /\ LET L == Unlocked(lock, Receiver, "queue") IN
       \/ arg[Receiver] # None /\ Acquire(L, Receiver, "out", "answered")
       \/ Acquire(L, Receiver, "in", "noted")
    /\ UNCHANGED <<tables, notified, fbq, sleeps, arg, missed>>

(* process_ack and process_nak end an incoming call, ... *)
EndReturned ==
    /\ Ready(Receiver, "noted") /\ arg[Receiver] = None
    /\ \E k \in DOMAIN inc : inc' = RemoveAt(inc, k)
    /\ lock' = Unlocked(lock, Receiver, "in")
    /\ Ends(Receiver, "recv")
    /\ UNCHANGED <<out, queues, sleeps, missed>>

(* ... or go on to the outgoing table, *)
NotedOutgoing ==
    /\ Ready(Receiver, "noted") /\ (arg[Receiver] # None \/ inc = <<>>)
    /\ \E to \in {"accepted", "end"} :
          Acquire(Unlocked(lock, Receiver, "in"), Receiver, "out", to)
    /\ UNCHANGED <<tables, queues, sleeps, arg, missed>>

(* where an ack leaves the call as it is. *)
Accepted ==
    /\ Ready(Receiver, "accepted")
    /\ lock' = Unlocked(lock, Receiver, "out")
    /\ Ends(Receiver, "recv")
    /\ UNCHANGED <<tables, queues, sleeps, missed>>

Known == arg[Receiver] \in Ids(out)

(* A return is acknowledged before its call is erased, and rejected if it  *)
(* has expired in the meantime.                                            *)
AckReturn ==
    /\ Ready(Receiver, "answered")
    /\ \/ Known /\ Acquire(lock, Receiver, "feedback", "acknowledge")
       \/ /\ ~Known
          /\ Acquire(Unlocked(lock, Receiver, "out"), Receiver, "feedback", "reject")
    /\ UNCHANGED <<tables, queues, sleeps, arg, missed>>

(* proc_feedback::notify. *)
PushFeedback ==
    /\ fbq' = fbq + 1
    /\ Wake({Feedback})

Acknowledge ==
    /\ Ready(Receiver, "acknowledge")
    /\ PushFeedback
    /\ lock' = Unlocked(lock, Receiver, "feedback")
    /\ cpu' = Receiver /\ GoTo(Receiver, "end")
    /\ UNCHANGED <<tables, queue, notified, arg, missed>>

Reject ==
    /\ Ready(Receiver, "reject")
    /\ PushFeedback
    /\ lock' = Unlocked(lock, Receiver, "feedback")
    /\ Ends(Receiver, "recv")
    /\ UNCHANGED <<tables, queue, notified, missed>>

EndAnswered ==
    /\ Ready(Receiver, "end")
    /\ \/ /\ Known
          /\ Resume(Receiver, arg[Receiver])
          /\ Acquire(lock, Receiver, "queue", "resume")
       \/ /\ ~Known \/ ~Resumable(Rest(arg[Receiver]))
          /\ out' = Rest(arg[Receiver])
          /\ arg' = [arg EXCEPT ![Receiver] = None]
          /\ lock' = Unlocked(lock, Receiver, "out")
          /\ Rests(Receiver, "recv")
    /\ UNCHANGED <<inc, queues, sleeps, missed>>

ResumeAnswered ==
    /\ Ready(Receiver, "resume")
    /\ queue' = queue \cup {arg[Receiver]} /\ notified' = TRUE
    /\ NotifyExpiry({Sender})
    /\ lock' = Unlocked(Unlocked(lock, Receiver, "queue"), Receiver, "out")
    /\ Ends(Receiver, "recv")
    /\ UNCHANGED <<tables, fbq>>

(* A copy of an incoming call is acknowledged under the table's lock; if   *)
(* the call has expired in the meantime, it is a new call.                 *)
HearCopy ==
    /\ Ready(Receiver, "recv") /\ inc # <<>> /\ fbq < MaxFeedback
    /\ Acquire(lock, Receiver, "in", "copy")
    /\ UNCHANGED <<tables, queues, sleeps, arg, missed>>

AckCopy ==
    /\ Ready(Receiver, "copy")
    /\ \/ inc # <<>> /\ Acquire(lock, Receiver, "feedback", "acknowledge copy")
       \/ /\ inc = <<>>
          /\ Acquire(Unlocked(lock, Receiver, "in"), Receiver, "feedback", "acknowledge call")
    /\ UNCHANGED <<tables, queues, sleeps, arg, missed>>

AcknowledgeCopy ==
    /\ Ready(Receiver, "acknowledge copy")
    /\ PushFeedback
    /\ lock' = Unlocked(Unlocked(lock, Receiver, "feedback"), Receiver, "in")
    /\ Rests(Receiver, "recv")
    /\ UNCHANGED <<tables, queue, notified, arg, missed>>

(* A new call is acknowledged, pushed and queued for service.  (The looks  *)
(* at both tables before it hold their locks for a moment only.)           *)
HearCall ==
    /\ Ready(Receiver, "recv") /\ Len(inc) < MaxIn /\ fbq < MaxFeedback
    /\ Acquire(lock, Receiver, "feedback", "acknowledge call")
    /\ UNCHANGED <<tables, queues, sleeps, arg, missed>>

AcknowledgeCall ==
    /\ Ready(Receiver, "acknowledge call")
    /\ PushFeedback
    /\ Acquire(Unlocked(lock, Receiver, "feedback"), Receiver, "in", "push incoming")
    /\ UNCHANGED <<tables, queue, notified, arg, missed>>

PushIncoming ==
    /\ Ready(Receiver, "push incoming")
    /\ inc' = <<Timeout>> \o inc
    /\ lock' = Unlocked(lock, Receiver, "in")
    /\ NotifyExpiry({})
    /\ Rests(Receiver, "recv")
    /\ UNCHANGED <<out, queues, arg>>

-----------------------------------------------------------------------------
(* The send thread. *)

SendLock ==
    /\ Ready(Sender, "lock")
    /\ Wake({Sender})
    /\ Acquire(lock, Sender, "queue", "send")
    /\ UNCHANGED <<tables, queues, arg, missed>>

(* Packets that are due wait for the transport. *)
SendPackets ==
    /\ Ready(Sender, "send") /\ queue # {}
    /\ Rests(Sender, "transport")
    /\ UNCHANGED <<lock, tables, queues, sleeps, arg, missed>>

(* If none is due, or none any more, it sleeps, until the next is if there *)
(* are any, or looks again because of the flag.                            *)
SendWait ==
    /\ Ready(Sender, "send") \/ Ready(Sender, "transport")
    /\ lock' = Unlocked(lock, Sender, "queue")
    /\ \/ /\ notified
          /\ notified' = FALSE
          /\ cpu' = Sender /\ GoTo(Sender, "lock")
          /\ UNCHANGED sleeps
       \/ /\ ~notified
          /\ Sleep(Sender, IF queue = {} THEN None ELSE 0)
          /\ Rests(Sender, "lock")
          /\ UNCHANGED notified
    /\ UNCHANGED <<tables, queue, fbq, arg, missed>>

-----------------------------------------------------------------------------
(* The feedback thread. *)

FeedbackLock ==
    /\ Ready(Feedback, "lock")
    /\ Acquire(lock, Feedback, "feedback", "look")
    /\ UNCHANGED <<tables, queues, sleeps, arg, missed>>

FeedbackWait ==
    /\ Ready(Feedback, "look") /\ fbq = 0
    /\ lock' = Unlocked(lock, Feedback, "feedback")
    /\ Sleep(Feedback, None)
    /\ Rests(Feedback, "lock")
    /\ UNCHANGED <<tables, queues, arg, missed>>

FeedbackSend ==
    /\ Ready(Feedback, "look") /\ fbq > 0
    /\ Rests(Feedback, "transport")
    /\ UNCHANGED <<lock, tables, queues, sleeps, arg, missed>>

FeedbackSent ==
    /\ Ready(Feedback, "transport")
    /\ fbq' = 0
    /\ lock' = Unlocked(lock, Feedback, "feedback")
    /\ cpu' = Feedback /\ GoTo(Feedback, "lock")
    /\ UNCHANGED <<tables, queue, notified, sleeps, arg, missed>>

-----------------------------------------------------------------------------
(* The expiry thread. *)

ExpiryLock ==
    /\ Ready(Expiry, "lock")
    /\ Wake({Expiry})
    /\ missed' = FALSE
    /\ Acquire(lock, Expiry, "out", "outgoing")
    /\ UNCHANGED <<tables, queues, arg>>

Expired == {i \in Active : out[i].left = 0}

ExpireOutgoing ==
    /\ Ready(Expiry, "outgoing") /\ Expired # {}
    /\ \E i \in Expired : arg' = [arg EXCEPT ![Expiry] = out[i].id]
    /\ Acquire(lock, Expiry, "queue", "remove")
    /\ UNCHANGED <<tables, queues, sleeps, missed>>

(* The lock is given back for the callback's sake, and taken again. *)
Again(L) == Acquire(Unlocked(L, Expiry, "out"), Expiry, "out", "outgoing")

EndExpired ==
    /\ Ready(Expiry, "remove")
    /\ queue' = queue \ {arg[Expiry]}
    /\ LET L == Unlocked(lock, Expiry, "queue") IN
       \/ Resume(Expiry, arg[Expiry]) /\ Acquire(L, Expiry, "queue", "resume")
       \/ ResumeNone(Expiry, arg[Expiry]) /\ Again(L)
    /\ UNCHANGED <<inc, notified, fbq, sleeps, missed>>

(* Mutant of ResumeExpired: the send thread is not woken. *)
ResumeExpiredQuiet ==
    /\ Ready(Expiry, "resume")
    /\ queue' = queue \cup {arg[Expiry]} /\ notified' = TRUE
    /\ NotifyExpiry({})
    /\ Again(Unlocked(lock, Expiry, "queue"))
    /\ arg' = [arg EXCEPT ![Expiry] = None]
    /\ UNCHANGED <<tables, fbq>>

ResumeExpired ==
    /\ Ready(Expiry, "resume")
    /\ queue' = queue \cup {arg[Expiry]} /\ notified' = TRUE
    /\ NotifyExpiry({Sender})
    /\ Again(Unlocked(lock, Expiry, "queue"))
    /\ arg' = [arg EXCEPT ![Expiry] = None]
    /\ UNCHANGED <<tables, fbq>>

Soonest(times) == IF times \ {None} = {} THEN None ELSE Min(times \ {None})

(* find_next_expiring begins with the front of the table, parked or not.   *)
NextExpiring ==
    IF out = <<>> THEN None
    ELSE Soonest({out[1].left} \cup {out[i].left : i \in Active})

(* Nothing (more) has expired: on to the incoming table. *)
ScanOutgoing ==
    /\ Ready(Expiry, "outgoing") /\ Expired = {}
    /\ until' = [until EXCEPT ![Expiry] = NextExpiring]
    /\ Acquire(Unlocked(lock, Expiry, "out"), Expiry, "in", "incoming")
    /\ UNCHANGED <<tables, queues, asleep, arg, missed>>

ExpireIncoming ==
    /\ Ready(Expiry, "incoming") /\ \E i \in DOMAIN inc : inc[i] = 0
    /\ Acquire(lock, Expiry, "queue", "remove incoming")
    /\ UNCHANGED <<tables, queues, sleeps, arg, missed>>

EndIncoming ==
    /\ Ready(Expiry, "remove incoming")
    /\ inc' = RemoveAt(inc, SelectInSeq(inc, LAMBDA left : left = 0))
    /\ Acquire(Unlocked(Unlocked(lock, Expiry, "queue"), Expiry, "in"),
               Expiry, "in", "incoming")
    /\ UNCHANGED <<out, queues, sleeps, arg, missed>>

(* Mutant of Deadline: the outgoing table alone. *)
DeadlineOutgoing == until[Expiry]

Deadline == Soonest({until[Expiry]} \cup Range(inc))

(* It sleeps, for ever or until the deadline; one that has passed ends the *)
(* wait at once, and the thread goes on with the processor in its hands.   *)
ScanIncoming ==
    /\ Ready(Expiry, "incoming") /\ \A i \in DOMAIN inc : inc[i] > 0
    /\ lock' = Unlocked(lock, Expiry, "in")
    /\ GoTo(Expiry, "lock")
    /\ \/ /\ Deadline = 0
          /\ cpu' = Expiry /\ UNCHANGED asleep
          /\ until' = [until EXCEPT ![Expiry] = None]
       \/ /\ Deadline # 0
          /\ cpu' = None /\ Sleep(Expiry, Deadline)
    /\ UNCHANGED <<tables, queues, arg, missed>>

-----------------------------------------------------------------------------
(* Time passes; where threads run it may as well pass after, but for one   *)
(* that goes round.                                                        *)

Less1(n) == IF n \in {None, 0} THEN n ELSE n - 1

Tick ==
    /\ cpu = None \/ (cpu = Expiry /\ pc[Expiry] = "lock")
    /\ \/ \E i \in DOMAIN out : out[i].left > 0
       \/ \E i \in DOMAIN inc : inc[i] > 0
    /\ out' = [i \in DOMAIN out |-> [out[i] EXCEPT !.left = Less1(@)]]
    /\ inc' = [i \in DOMAIN inc |-> Less1(inc[i])]
    /\ until' = [until EXCEPT ![Expiry] = Less1(@)]
    /\ UNCHANGED <<lock, queues, cpu, asleep, pc, arg, missed>>

Init ==
    /\ lock = [l \in Locks |-> NewMutex(None)]
    /\ out = <<>> /\ inc = <<>>
    /\ queue = {} /\ notified = FALSE /\ fbq = 0
    /\ cpu = None /\ asleep = {} /\ until = [t \in Thread |-> None]
    /\ pc = [t \in Thread |-> IF t \in Caller THEN "idle"
                              ELSE IF t = Receiver THEN "recv" ELSE "lock"]
    /\ arg = [t \in Thread |-> None]
    /\ missed = FALSE

Calls(t) == DrawId(t) \/ PushOutgoing(t) \/ NotifyBoth(t)

Receives ==
    \/ RemoveAnswered \/ EndReturned \/ NotedOutgoing \/ Accepted \/ AckReturn \/ Acknowledge \/ Reject
    \/ EndAnswered
    \/ ResumeAnswered \/ AckCopy \/ AcknowledgeCopy
    \/ AcknowledgeCall \/ PushIncoming

Sends == SendLock \/ SendPackets \/ SendWait

FeedsBack == FeedbackLock \/ FeedbackWait \/ FeedbackSend \/ FeedbackSent

Expires == \/ ExpiryLock \/ ExpireOutgoing \/ EndExpired \/ ResumeExpired
           \/ ScanOutgoing \/ ExpireIncoming \/ EndIncoming \/ ScanIncoming

Next ==
    \/ \E t \in Caller : DoCall(t) \/ Calls(t)
    \/ HearAnswer \/ HearCopy \/ HearCall
    \/ Receives \/ Sends \/ FeedsBack \/ Expires
    \/ Tick

Spec == Init /\ [][Next]_vars

(* Time passes also while the expiry thread goes round, and that thread    *)
(* runs while it has the processor.                                        *)
Fairness == SF_vars(Expires) /\ SF_vars(Tick)

FairSpec == Spec /\ Fairness

-----------------------------------------------------------------------------
TypeOK ==
    /\ lock \in [Locks -> Mutexes(Thread, None)]
    /\ out \in Seq([id : Id, parked : BOOLEAN, left : 0 .. Timeout])
    /\ inc \in Seq(0 .. Timeout) /\ Len(inc) <= MaxIn
    /\ queue \subseteq Id /\ notified \in BOOLEAN /\ fbq \in 0 .. MaxFeedback
    /\ cpu \in Thread \cup {None} /\ asleep \subseteq {Sender, Feedback, Expiry}
    /\ until \in [Thread -> 0 .. Timeout \cup {None}]
    /\ pc \in [Thread -> STRING]
    /\ arg \in [Thread -> Id \cup {None}]
    /\ missed \in BOOLEAN

(* Neither queue is left with packets while its thread sleeps for ever:    *)
(* the flag of the send thread, and for the feedback thread, which has     *)
(* none, the fact that it does not give up the processor between its look  *)
(* and its sleep, see to that.                                             *)
QueuesWake ==
    /\ Sender \in asleep /\ until[Sender] = None => queue = {}
    /\ Feedback \in asleep => fbq = 0

(* The expiry thread never sleeps past the end of a call, active or        *)
(* incoming, unless the notify of that call is still to come or one was    *)
(* missed: notify leaves nothing behind, so all depends on which locks it  *)
(* has to wait for between its look at the outgoing table and its sleep.   *)
Notifying == {t \in Thread : pc[t] \in {"notify", "resume"}}

InTime ==
    Expiry \in asleep /\ Notifying = {} /\ ~missed =>
        \A left \in {out[i].left : i \in Active} \cup Range(inc) :
            until[Expiry] # None /\ until[Expiry] <= left

(* The expiry thread does not keep the processor.  A wait until a time     *)
(* that has passed ends at once, so it would go round without sleeping if  *)
(* a call that it does not end stayed behind its expiry: it ends what is   *)
(* active, and what is resumed gets a new expiry.                          *)
Yields == cpu = Expiry ~> cpu # Expiry

(* The expiry thread, as it logs, has "nothing to do" when it suspends     *)
(* until the next notify: no call is active but those whose notify is      *)
(* still to come.                                                          *)
NothingToDo ==
    Expiry \in asleep /\ until[Expiry] = None /\ Notifying = {} => Active = {}
=============================================================================
