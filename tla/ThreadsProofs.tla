--------------------------- MODULE ThreadsProofs ---------------------------
(* Theorems about the threads, for any number of them, of calls, commands   *)
(* and jobs and any bounds: the callback pool loses no wakeup; the send     *)
(* and feedback threads do not sleep over what is queued, nor the expiry    *)
(* thread past the end of a call; and an axis, whose commands run in the    *)
(* workers of the pool, reports none of them twice, whatever it is fitted   *)
(* with.                                                                    *)
EXTENDS MCThreads, Stepper, WellFoundedInduction, SequenceTheorems, TLAPS

-----------------------------------------------------------------------------
(* The callback pool. *)

(* The types that Awake rests on.  (How many commands are open is counted   *)
(* in TypeOK, and nothing here depends on it.)                              *)
Typed ==
    /\ buffer \in Seq({"quick", "command", "finish"})
    /\ state \in [Worker -> {"running", "suspended", "blocked"}]
    /\ en \in [Worker -> BOOLEAN]
    /\ line \in Seq(Worker)

(* Who is blocked is in line. *)
Lined == \A w \in Worker : state[w] = "blocked" => Contains(line, w)

(* The inductive invariant. *)
IInv == Typed /\ Lined /\ Awake

(* A nonempty set of naturals has a least element. *)
LEMMA LeastElement ==
    ASSUME NEW I \in SUBSET Nat, I # {}
    PROVE  Min(I) \in I /\ \A k \in I : Min(I) =< k
<1>1. PICK m \in I : \A k \in I : ~ (<<k, m>> \in OpToRel(<, Nat))
    BY NatLessThanWellFounded, WFMin, Zenon
<1>2. \A k \in I : ~ (k < m)
    BY <1>1, Zenon DEF OpToRel
<1>3. \A k \in I : m =< k
    BY <1>2
<1> QED
    BY <1>3 DEF Min

(* A job is queued: a worker that runs or was notified is there for it,     *)
(* unless one is blocked.                                                   *)
LEMMA NotifyAwakes ==
    ASSUME IInv, NEW job \in {"quick", "command", "finish"}, Notify(job),
           UNCHANGED <<state, line>>
    PROVE  IInv'
<1>1. Workers \in Nat \ {0}
    BY PoolAssumption
<1>2. Typed'
    BY AppendProperties DEF Typed, Notify, Notified, IInv
<1>3. Lined'
    BY DEF Lined, IInv
<1>4. Awake'
  <2>1. SUFFICES ASSUME line = <<>>, \A w \in Worker : state[w] # "running"
                 PROVE  \E w \in Worker : en'[w]
    BY DEF Awake
  <2>2. \A w \in Worker : state[w] # "blocked"
    BY <2>1 DEF IInv, Lined, Contains
  <2>3. \A w \in Worker : state[w] = "suspended"
    BY <2>1, <2>2 DEF IInv, Typed
  <2>4. 1 \in Worker /\ Worker \in SUBSET Nat
    BY <1>1 DEF Worker
  <2>5. Suspended # {} /\ Suspended \in SUBSET Nat
    BY <2>3, <2>4 DEF Suspended
  <2>6. Min(Suspended) \in Suspended
    BY <2>5, LeastElement
  <2>7. PICK v \in Worker : v = Min(Suspended)
    BY <2>6 DEF Suspended
  <2>8. en'[v]
    BY <2>5, <2>7 DEF Notify, Notified
  <2> QED
    BY <2>8
<1> QED
    BY <1>2, <1>3, <1>4 DEF IInv

(* The inductive invariant holds at first, ... *)
LEMMA InitIInv == Init => IInv
<1> SUFFICES ASSUME Init
             PROVE  IInv
    OBVIOUS
<1>1. Typed /\ Lined
    BY DEF Init, Typed, Lined
<1>2. Awake
    BY DEF Init, Awake
<1> QED
    BY <1>1, <1>2 DEF IInv

(* ... and every step keeps it. *)
LEMMA IInvInductive == IInv /\ [Next]_vars => IInv'
<1> SUFFICES ASSUME IInv, [Next]_vars
             PROVE  IInv'
    OBVIOUS
<1>1. CASE QuickJob
    BY <1>1, NotifyAwakes DEF QuickJob
<1>2. CASE CommandJob
    BY <1>2, NotifyAwakes DEF CommandJob
<1>3. CASE FinishJob
    BY <1>3, NotifyAwakes DEF FinishJob
<1>4. CASE Reports
    BY <1>4 DEF Reports, IInv, Typed, Lined, Awake
<1>5. ASSUME NEW w \in Worker, Suspend(w)
      PROVE  IInv'
    BY <1>5 DEF Suspend, IInv, Typed, Lined, Awake
<1>6. ASSUME NEW w \in Worker, Resume(w)
      PROVE  IInv'
    BY <1>6 DEF Resume, IInv, Typed, Lined, Awake
<1>7. ASSUME NEW w \in Worker, RunQuick(w)
      PROVE  IInv'
    BY <1>7, HeadTailProperties DEF RunQuick, IInv, Typed, Lined, Awake
<1>8. ASSUME NEW w \in Worker, RunCommand(w)
      PROVE  IInv'
  <2>1. buffer' \in Seq({"quick", "command", "finish"})
    BY <1>8, HeadTailProperties DEF RunCommand, IInv, Typed
  <2>2. CASE UNCHANGED <<state, line>>
    BY <1>8, <2>1, <2>2 DEF RunCommand, IInv, Typed, Lined, Awake
  <2>3. CASE /\ state' = [state EXCEPT ![w] = "blocked"]
             /\ line' = Append(line, w)
    <3>1. PICK n \in Nat : n = Len(line) /\ DOMAIN line = 1 .. n
      BY LenProperties DEF IInv, Typed
    <3>2. PICK q : q = Append(line, w)
      OBVIOUS
    <3>3. /\ q \in Seq(Worker) /\ Len(q) = n + 1 /\ q[n + 1] = w
          /\ \A i \in 1 .. n : q[i] = line[i]
      BY <3>1, <3>2, AppendProperties DEF IInv, Typed
    <3>4. DOMAIN q = 1 .. n + 1 /\ q # <<>>
      BY <3>3, LenProperties, EmptySeq
    <3>5. \A v \in Worker : Contains(line, v) \/ v = w => Contains(q, v)
      BY <3>1, <3>3, <3>4 DEF Contains
    <3>6. Lined'
      BY <2>3, <3>2, <3>5 DEF IInv, Typed, Lined
    <3>7. Typed'
      BY <1>8, <2>1, <2>3, <3>2, <3>3 DEF RunCommand, IInv, Typed
    <3>8. Awake'
      BY <2>3, <3>2, <3>4 DEF Awake
    <3> QED
      BY <3>6, <3>7, <3>8 DEF IInv
  <2> QED
    BY <1>8, <2>2, <2>3 DEF RunCommand
<1>9. ASSUME NEW w \in Worker, RunFinish(w)
      PROVE  IInv'
  <2>1. buffer' \in Seq({"quick", "command", "finish"})
    BY <1>9, HeadTailProperties DEF RunFinish, IInv, Typed
  <2>2. Typed'
    BY <1>9, <2>1 DEF RunFinish, IInv, Typed
  <2>3. \A v \in Worker : state'[v] # "blocked"
    BY <1>9 DEF RunFinish, IInv, Lined
  <2>4. state'[w] = "running"
    BY <1>9 DEF RunFinish
  <2> QED
    BY <2>2, <2>3, <2>4 DEF IInv, Lined, Awake
<1>10. CASE UNCHANGED vars
    BY <1>10 DEF vars, IInv, Typed, Lined, Awake
<1> QED
    BY <1>1, <1>2, <1>3, <1>4, <1>5, <1>6, <1>7, <1>8, <1>9, <1>10
       DEF Next, Works

(* While a job waits and no worker is blocked, a worker runs or was         *)
(* notified, though the relay may notify one worker for several jobs.       *)
THEOREM AwakeHolds == Spec => []Awake
<1>1. IInv => Awake
    BY DEF IInv
<1> QED
    BY <1>1, InitIInv, IInvInductive, PTL DEF Spec

-----------------------------------------------------------------------------
(* The threads of earpc: the send and feedback threads. *)

(* A record of an outgoing call. *)
Record == [id : Id, parked : BOOLEAN, left : Nat]

(* What the deadlines are made of. *)
Times ==
    /\ eOut \in Seq(Record)
    /\ eInc \in Seq(Nat)
    /\ eUntil \in [Earpc!Thread -> Nat \cup {None}]

(* The soonest of some times is none of the later ones. *)
LEMMA SoonestIs ==
    ASSUME NEW times \in SUBSET (Nat \cup {None})
    PROVE  /\ Earpc!Soonest(times) \in Nat \cup {None}
           /\ \A n \in times : n # None =>
                  Earpc!Soonest(times) \in Nat /\ Earpc!Soonest(times) <= n
<1> USE EarpcThreadsAssumption
<1>1. CASE times \ {None} = {}
    BY <1>1 DEF Earpc!Soonest
<1>2. CASE times \ {None} # {}
  <2>1. PICK I \in SUBSET Nat : I = times \ {None}
      OBVIOUS
  <2>3. PICK m \in I : m = Min(I) /\ \A y \in I : m <= y
      BY <1>2, <2>1, LeastElement
  <2>4. Earpc!Soonest(times) = m
      BY <1>2, <2>1, <2>3 DEF Earpc!Soonest, Earpc!Min, Min
  <2> QED
      BY <2>1, <2>3, <2>4
<1> QED
    BY <1>1, <1>2

(* The time left to a call is a number. *)
LEMMA LeftIs == Times => \A k \in DOMAIN eOut : eOut[k].left \in Nat
<1> SUFFICES ASSUME Times, NEW k \in DOMAIN eOut
             PROVE  eOut[k].left \in Nat
    OBVIOUS
<1>1. k \in 1 .. Len(eOut)
    BY LenProperties DEF Times
<1>2. eOut[k] \in Record
    BY <1>1, ElementOfSeq DEF Times
<1> QED
    BY <1>2 DEF Record

(* What the expiry thread sleeps until is no later than the end of any     *)
(* active call, ... *)
LEMMA SoonestNext ==
    ASSUME Times
    PROVE  /\ Earpc!NextExpiring \in Nat \cup {None}
           /\ \A k \in DOMAIN eOut : ~eOut[k].parked =>
                 Earpc!NextExpiring \in Nat /\ Earpc!NextExpiring <= eOut[k].left
<1> DEFINE times == {eOut[1].left} \cup {eOut[k].left : k \in Earpc!Active}
<1>1. CASE eOut = <<>>
    BY <1>1 DEF Earpc!NextExpiring
<1>2. CASE eOut # <<>>
  <2>1. 1 \in DOMAIN eOut
    <3>1. Len(eOut) \in Nat /\ DOMAIN eOut = 1 .. Len(eOut)
        BY LenProperties DEF Times
    <3>2. Len(eOut) # 0
        BY <1>2, EmptySeq DEF Times
    <3> QED
        BY <3>1, <3>2
  <2>2. \A k \in DOMAIN eOut : eOut[k].left \in Nat
      BY LeftIs
  <2>3. times \in SUBSET (Nat \cup {None})
      BY <2>1, <2>2 DEF Earpc!Active
  <2>4. Earpc!NextExpiring = Earpc!Soonest(times)
      BY <1>2 DEF Earpc!NextExpiring
  <2>5. \A k \in DOMAIN eOut : ~eOut[k].parked => eOut[k].left \in times
      BY DEF Earpc!Active
  <2>6. \A k \in DOMAIN eOut : eOut[k].left # None
      BY <2>2, EarpcThreadsAssumption
  <2> HIDE DEF times
  <2> QED
      BY <2>3, <2>4, <2>5, <2>6, SoonestIs
<1> QED
    BY <1>1, <1>2

(* ... nor of any incoming one. *)
LEMMA SoonestDeadline ==
    ASSUME Times, Expiry \in Earpc!Thread
    PROVE  /\ Earpc!Deadline \in Nat \cup {None}
           /\ \A k \in DOMAIN eInc :
                 Earpc!Deadline \in Nat /\ Earpc!Deadline <= eInc[k]
           /\ eUntil[Expiry] # None =>
                 Earpc!Deadline \in Nat /\ Earpc!Deadline <= eUntil[Expiry]
<1> DEFINE times == {eUntil[Expiry]} \cup {eInc[k] : k \in DOMAIN eInc}
<1>1. \A k \in DOMAIN eInc : eInc[k] \in Nat
    BY DEF Times
<1>2. times \in SUBSET (Nat \cup {None})
    BY <1>1 DEF Times
<1>3. Earpc!Deadline = Earpc!Soonest(times)
    BY DEF Earpc!Deadline, Earpc!Range
<1>4. \A k \in DOMAIN eInc : eInc[k] # None
    BY <1>1, EarpcThreadsAssumption
<1>5. eUntil[Expiry] \in times /\ \A k \in DOMAIN eInc : eInc[k] \in times
    OBVIOUS
<1> HIDE DEF times
<1> QED
    BY <1>2, <1>3, <1>4, <1>5, SoonestIs

(* The send thread does not sleep for ever, nor the feedback thread at     *)
(* all, over a queue that is not empty: who fills a queue wakes its        *)
(* thread.                                                                 *)
Woke ==
    /\ eUntil = [t \in Earpc!Thread |-> eUntil[t]]
    /\ QueuesWake

(* Nobody sleeps at first, ... *)
LEMMA WakeInit == Earpc!Init => Woke
BY DEF Earpc!Init, Woke, QueuesWake, Earpc!QueuesWake

(* ... and every step wakes who has to be awake. *)
LEMMA WakeStep == Woke /\ [Earpc!Next]_earpc => Woke'
<1> SUFFICES ASSUME Woke, [Earpc!Next]_earpc
             PROVE  Woke'
    OBVIOUS
<1> USE DEF Woke, QueuesWake, Earpc!QueuesWake, Earpc!Thread, Earpc!sleeps,
            Earpc!queues, Earpc!tables
<1> USE EarpcThreadsAssumption
<1>1. CASE UNCHANGED <<eQueue, eFbq, eAsleep, eUntil>>
    BY <1>1
<1>2. ASSUME NEW t \in Caller, Earpc!DoCall(t) \/ Earpc!Calls(t)
      PROVE  Woke'
  <2>1. CASE Earpc!DoCall(t) \/ Earpc!DrawId(t) \/ Earpc!PushOutgoing(t)
      BY <1>1, <2>1 DEF Earpc!DoCall, Earpc!DrawId, Earpc!PushOutgoing
  <2>2. CASE Earpc!NotifyBoth(t)
      BY <2>2 DEF Earpc!NotifyBoth, Earpc!NotifyExpiry, Earpc!Wake
  <2> QED
      BY <1>2, <2>1, <2>2 DEF Earpc!Calls
<1>3. CASE Earpc!HearAnswer \/ Earpc!HearCopy \/ Earpc!HearCall
    BY <1>1, <1>3 DEF Earpc!HearAnswer, Earpc!HearCopy, Earpc!HearCall
<1>4. CASE Earpc!Receives
  <2>1. CASE \/ Earpc!EndReturned \/ Earpc!NotedOutgoing \/ Earpc!Accepted
             \/ Earpc!AckReturn \/ Earpc!EndAnswered \/ Earpc!AckCopy
      BY <1>1, <2>1
      DEF Earpc!EndReturned, Earpc!NotedOutgoing, Earpc!Accepted,
          Earpc!AckReturn, Earpc!EndAnswered, Earpc!AckCopy
  <2>2. CASE Earpc!RemoveAnswered
      BY <2>2 DEF Earpc!RemoveAnswered
  <2>3. CASE \/ Earpc!Acknowledge \/ Earpc!Reject
             \/ Earpc!AcknowledgeCopy \/ Earpc!AcknowledgeCall
      BY <2>3
      DEF Earpc!Acknowledge, Earpc!Reject, Earpc!AcknowledgeCopy,
          Earpc!AcknowledgeCall, Earpc!PushFeedback, Earpc!Wake
  <2>4. CASE Earpc!ResumeAnswered \/ Earpc!PushIncoming
      BY <2>4
      DEF Earpc!ResumeAnswered, Earpc!PushIncoming, Earpc!NotifyExpiry,
          Earpc!Wake
  <2> QED
      BY <1>4, <2>1, <2>2, <2>3, <2>4 DEF Earpc!Receives
<1>5. CASE Earpc!Sends
  <2>1. CASE Earpc!SendLock
      BY <2>1 DEF Earpc!SendLock, Earpc!Wake
  <2>2. CASE Earpc!SendPackets
      BY <1>1, <2>2 DEF Earpc!SendPackets
  <2>3. CASE Earpc!SendWait
      BY <2>3 DEF Earpc!SendWait, Earpc!Sleep
  <2> QED
      BY <1>5, <2>1, <2>2, <2>3 DEF Earpc!Sends
<1>6. CASE Earpc!FeedsBack
  <2>1. CASE Earpc!FeedbackLock \/ Earpc!FeedbackSend
      BY <1>1, <2>1 DEF Earpc!FeedbackLock, Earpc!FeedbackSend
  <2>2. CASE Earpc!FeedbackWait
      BY <2>2 DEF Earpc!FeedbackWait, Earpc!Sleep
  <2>3. CASE Earpc!FeedbackSent
      BY <2>3 DEF Earpc!FeedbackSent
  <2> QED
      BY <1>6, <2>1, <2>2, <2>3 DEF Earpc!FeedsBack
<1>7. CASE Earpc!Expires
  <2>1. CASE Earpc!ExpiryLock
      BY <2>1 DEF Earpc!ExpiryLock, Earpc!Wake
  <2>2. CASE Earpc!ExpireOutgoing \/ Earpc!ExpireIncoming \/ Earpc!EndIncoming
      BY <1>1, <2>2
      DEF Earpc!ExpireOutgoing, Earpc!ExpireIncoming, Earpc!EndIncoming
  <2>3. CASE Earpc!EndExpired
      BY <2>3 DEF Earpc!EndExpired
  <2>4. CASE Earpc!ResumeExpired
      BY <2>4 DEF Earpc!ResumeExpired, Earpc!NotifyExpiry, Earpc!Wake
  <2>5. CASE Earpc!ScanOutgoing
      BY <2>5 DEF Earpc!ScanOutgoing
  <2>6. CASE Earpc!ScanIncoming
      BY <2>6 DEF Earpc!ScanIncoming, Earpc!Sleep
  <2> QED
      BY <1>7, <2>1, <2>2, <2>3, <2>4, <2>5, <2>6 DEF Earpc!Expires
<1>8. CASE Earpc!Tick
    BY <1>8 DEF Earpc!Tick, Earpc!Less1
<1>9. CASE UNCHANGED earpc
    BY <1>1, <1>9 DEF earpc
<1> QED
    BY <1>2, <1>3, <1>4, <1>5, <1>6, <1>7, <1>8, <1>9 DEF Earpc!Next
-----------------------------------------------------------------------------
(* The threads of earpc: the expiry thread. *)

(* Nothing but entries of q. *)
From(r, q) == \A m \in DOMAIN r : \E j \in DOMAIN q : r[m] = q[j]

(* A slice of a sequence has nothing that is not in it, ... *)
LEMMA SliceFrom ==
    ASSUME NEW S, NEW q \in Seq(S), NEW m \in Nat \ {0}, NEW n \in Int,
           n <= Len(q)
    PROVE  SubSeq(q, m, n) \in Seq(S) /\ From(SubSeq(q, m, n), q)
<1>1. PICK l \in Nat : l = Len(q) /\ DOMAIN q = 1 .. l
    BY LenProperties
<1>2. \A i \in m .. n : q[i] \in S
    BY <1>1, ElementOfSeq
<1>3. PICK r : r = SubSeq(q, m, n)
    OBVIOUS
<1>4. /\ r \in Seq(S) /\ Len(r) = IF m <= n THEN n - m + 1 ELSE 0
      /\ \A i \in 1 .. n - m + 1 : r[i] = q[m + i - 1]
    BY <1>2, <1>3, SubSeqProperties
<1>5. ASSUME NEW i \in DOMAIN r
      PROVE  \E j \in DOMAIN q : r[i] = q[j]
  <2>1. i \in 1 .. Len(r)
      BY <1>4, LenProperties
  <2>2. i \in 1 .. n - m + 1 /\ m + i - 1 \in 1 .. l
      BY <1>1, <1>4, <2>1
  <2> QED
      BY <1>1, <1>4, <2>2
<1> QED
    BY <1>3, <1>4, <1>5 DEF From

(* ... neither have two such one behind the other, ... *)
LEMMA JoinFrom ==
    ASSUME NEW S, NEW q, NEW a \in Seq(S), NEW b \in Seq(S),
           From(a, q), From(b, q)
    PROVE  a \o b \in Seq(S) /\ From(a \o b, q)
<1>1. PICK m \in Nat : m = Len(a) /\ DOMAIN a = 1 .. m
    BY LenProperties
<1>2. PICK n \in Nat : n = Len(b) /\ DOMAIN b = 1 .. n
    BY LenProperties
<1>3. PICK r \in Seq(S) : r = a \o b
    BY ConcatProperties
<1>4. /\ Len(r) = m + n
      /\ \A i \in 1 .. m + n : r[i] = IF i <= m THEN a[i] ELSE b[i - m]
    BY <1>1, <1>2, <1>3, ConcatProperties
<1>5. ASSUME NEW i \in DOMAIN r
      PROVE  \E j \in DOMAIN q : r[i] = q[j]
  <2>1. i \in 1 .. m + n
      BY <1>4, LenProperties
  <2>2. CASE i <= m
    <3>1. i \in DOMAIN a /\ r[i] = a[i]
        BY <1>1, <1>4, <2>1, <2>2
    <3> QED
        BY <3>1 DEF From
  <2>3. CASE ~(i <= m)
    <3>1. i - m \in DOMAIN b /\ r[i] = b[i - m]
        BY <1>2, <1>4, <2>1, <2>3
    <3> QED
        BY <3>1 DEF From
  <2> QED
      BY <2>2, <2>3
<1> QED
    BY <1>3, <1>5 DEF From

(* ... so nor has the sequence without one of its elements. *)
LEMMA RemoveFrom ==
    ASSUME NEW S, NEW q \in Seq(S), NEW k \in 0 .. Len(q)
    PROVE  /\ Earpc!RemoveAt(q, k) \in Seq(S)
           /\ From(Earpc!RemoveAt(q, k), q)
<1>1. Len(q) \in Nat
    BY LenProperties
<1>2. k - 1 \in Int /\ k - 1 <= Len(q) /\ 1 \in Nat \ {0}
    BY <1>1
<1>3. k + 1 \in Nat \ {0} /\ Len(q) \in Int /\ Len(q) <= Len(q)
    BY <1>1
<1>4. SubSeq(q, 1, k - 1) \in Seq(S) /\ From(SubSeq(q, 1, k - 1), q)
    BY <1>2, SliceFrom
<1>5. SubSeq(q, k + 1, Len(q)) \in Seq(S) /\ From(SubSeq(q, k + 1, Len(q)), q)
    BY <1>3, SliceFrom
<1> QED
    BY <1>4, <1>5, JoinFrom DEF Earpc!RemoveAt

(* Where something is in a sequence, or 0. *)
LEMMA Place0 ==
    ASSUME NEW l \in Nat, NEW I \in SUBSET (1 .. l)
    PROVE  (IF I # {} THEN Earpc!Min(I) ELSE 0) \in 0 .. l
<1>1. CASE I = {}
    BY <1>1
<1>2. CASE I # {}
  <2>1. I \in SUBSET Nat
      OBVIOUS
  <2>2. Min(I) \in I
      BY <1>2, <2>1, LeastElement
  <2>3. Earpc!Min(I) = Min(I)
      BY DEF Earpc!Min, Min
  <2>4. I \subseteq 0 .. l
      OBVIOUS
  <2> QED
      BY <1>2, <2>2, <2>3, <2>4
<1> QED
    BY <1>1, <1>2

(* The outgoing table without a call. *)
LEMMA RestIs ==
    ASSUME Times, NEW i
    PROVE  /\ Earpc!Rest(i) \in Seq(Record)
           /\ From(Earpc!Rest(i), eOut)
<1>1. Len(eOut) \in Nat
    BY LenProperties DEF Times
<1>2. PICK k \in 0 .. Len(eOut) : Earpc!Rest(i) = Earpc!RemoveAt(eOut, k)
  <2>1. PICK I \in SUBSET (1 .. Len(eOut)) :
           I = {j \in 1 .. Len(eOut) : eOut[j].id = i}
      OBVIOUS
  <2>2. (IF I # {} THEN Earpc!Min(I) ELSE 0) \in 0 .. Len(eOut)
      BY <1>1, <2>1, Place0
  <2> QED
      BY <2>1, <2>2 DEF Earpc!Rest, Earpc!SelectInSeq
<1> QED
    BY <1>2, RemoveFrom DEF Times

(* A parked call may be resumed in any table of parked calls. *)
LEMMA ResumedIs ==
    ASSUME NEW q \in Seq(Record), Earpc!Resumable(q)
    PROVE  Earpc!Resumed(q) \in Seq(Record)
<1>1. PICK l \in Nat : l = Len(q) /\ DOMAIN q = 1 .. l
    BY LenProperties
<1>2. l # 0 /\ \A k \in 1 .. l : q[k].parked
    BY <1>1, EmptySeq DEF Earpc!Resumable
<1>3. 1 \in 1 .. l /\ q[1].parked /\ \A j \in 1 .. 1 - 1 : ~q[j].parked
    BY <1>2
<1>4. PICK k \in 1 .. l : k = Earpc!FirstParked(q)
    BY <1>1, <1>3 DEF Earpc!FirstParked
<1>5. q[k] \in Record
    BY <1>1, <1>4, ElementOfSeq
<1>6. PICK r \in Record : r = Earpc!Record(q[k].id, FALSE)
    BY <1>5, EarpcThreadsAssumption DEF Record, Earpc!Record
<1>7. Earpc!Resumed(q) = [q EXCEPT ![k] = r]
    BY <1>4, <1>6 DEF Earpc!Resumed
<1>8. [q EXCEPT ![k] = r] \in Seq(Record)
    BY <1>1, <1>4, ExceptSeq
<1> QED
    BY <1>7, <1>8

(* The deadline is not after the end of any active call, ... *)
OutAfter == \A k \in DOMAIN eOut : ~eOut[k].parked =>
    eUntil[Expiry] # None /\ eUntil[Expiry] <= eOut[k].left

(* ... nor of any incoming one. *)
IncAfter == \A k \in DOMAIN eInc :
    eUntil[Expiry] # None /\ eUntil[Expiry] <= eInc[k]

(* Every notify was heard. *)
Heard == Earpc!Notifying = {} /\ ~eMissed

(* Where the expiry thread goes after its look at the outgoing table. *)
Looks == {"incoming", "remove incoming"}

(* Between its look at the outgoing table and its sleep the expiry thread  *)
(* has the deadline of that table, and asleep that of both.                *)
ExpiryInv ==
    /\ Times
    /\ ePc = [u \in Earpc!Thread |-> ePc[u]]
    /\ Expiry \in eAsleep => ePc[Expiry] = "lock"
    /\ ePc[Expiry] \in Looks /\ Heard => OutAfter
    /\ Expiry \in eAsleep /\ Heard => OutAfter /\ IncAfter

(* Another thread takes calls off the tables, or parks one, and notifies   *)
(* nobody but its like.                                                    *)
LEMMA QuietStep ==
    ASSUME ExpiryInv, Times',
           NEW t \in Earpc!Thread \ {Expiry}, NEW to,
           ePc[t] \notin {"notify", "resume"}, ePc' = [ePc EXCEPT ![t] = to],
           eUntil'[Expiry] = eUntil[Expiry], eMissed' = eMissed,
           Expiry \in eAsleep' => Expiry \in eAsleep,
           \A m \in DOMAIN eOut' : ~eOut'[m].parked =>
                \E j \in DOMAIN eOut : ~eOut[j].parked /\ eOut'[m].left = eOut[j].left,
           From(eInc', eInc)
    PROVE  ExpiryInv'
<1>1. Expiry \in Earpc!Thread
    BY DEF Earpc!Thread
<1>2. /\ ePc' = [u \in Earpc!Thread |-> ePc'[u]] /\ ePc'[Expiry] = ePc[Expiry]
      /\ \A u \in Earpc!Thread \ {t} : ePc'[u] = ePc[u]
    BY <1>1 DEF ExpiryInv
<1>3. Heard' => Heard
  <2>1. Earpc!Notifying \subseteq Earpc!Notifying'
      BY <1>2 DEF Earpc!Notifying
  <2> QED
      BY <2>1 DEF Heard
<1>4. OutAfter => OutAfter'
    BY DEF OutAfter
<1>5. IncAfter => IncAfter'
    BY DEF IncAfter, From
<1> QED
    BY <1>2, <1>3, <1>4, <1>5 DEF ExpiryInv

(* The expiry thread is not asleep, and not between look and sleep but     *)
(* with a notify missed.                                                   *)
LEMMA WokenStep ==
    ASSUME Times', ePc' = [u \in Earpc!Thread |-> ePc'[u]], Expiry \notin eAsleep',
           ePc'[Expiry] \in Looks => eMissed'
    PROVE  ExpiryInv'
BY DEF ExpiryInv, Heard

(* A notify is still to come. *)
LEMMA PendingStep ==
    ASSUME Times', ePc' = [u \in Earpc!Thread |-> ePc'[u]],
           Expiry \in eAsleep' => ePc'[Expiry] = "lock",
           NEW t \in Earpc!Thread, ePc'[t] \in {"notify", "resume"}
    PROVE  ExpiryInv'
<1>1. t \in Earpc!Notifying'
    BY DEF Earpc!Notifying
<1> QED
    BY <1>1 DEF ExpiryInv, Heard

(* The invariant holds at first. *)
LEMMA ExpiryInit == Earpc!Init => ExpiryInv
<1> SUFFICES ASSUME Earpc!Init
             PROVE  ExpiryInv
    OBVIOUS
<1>1. Times
    BY EmptySeq DEF Times, Earpc!Init
<1>2. Expiry \in Earpc!Thread
    BY DEF Earpc!Thread
<1>3. ePc = [u \in Earpc!Thread |-> ePc[u]]
    BY DEF Earpc!Init
<1>4. Expiry \notin Caller /\ Expiry # Receiver
    BY EarpcThreadsAssumption
<1>5. ePc[Expiry] = "lock" /\ eAsleep = {}
    BY <1>2, <1>4 DEF Earpc!Init
<1> QED
    BY <1>1, <1>3, <1>5 DEF ExpiryInv, Looks

(* The threads are different ones. *)
LEMMA Distinct ==
    /\ {Sender, Feedback, Receiver} \cup Caller \subseteq Earpc!Thread \ {Expiry}
    /\ Expiry \in Earpc!Thread
BY EarpcThreadsAssumption DEF Earpc!Thread

(* A wakeup of others does not touch the expiry thread. *)
LEMMA WakeOthers ==
    ASSUME ExpiryInv, NEW T, Earpc!Wake(T), Expiry \notin T
    PROVE  /\ eUntil' \in [Earpc!Thread -> Nat \cup {None}]
           /\ eUntil'[Expiry] = eUntil[Expiry]
           /\ Expiry \in eAsleep' => Expiry \in eAsleep
BY Distinct DEF ExpiryInv, Times, Earpc!Wake

(* After a notify the expiry thread is not asleep; one that came between   *)
(* its look and its sleep is missed.                                       *)
LEMMA NotifyWakes ==
    ASSUME ExpiryInv, NEW T, Earpc!NotifyExpiry(T)
    PROVE  /\ eUntil' \in [Earpc!Thread -> Nat \cup {None}]
           /\ Expiry \notin eAsleep'
           /\ ePc[Expiry] \in Looks => eMissed'
BY DEF ExpiryInv, Times, Looks, Earpc!NotifyExpiry, Earpc!Wake

(* What no step but those of callers, receiver and expiry thread touches. *)
calls == <<eOut, eInc, eMissed>>

(* Another thread goes on. *)
LEMMA GoesOn ==
    ASSUME ExpiryInv, NEW t \in Earpc!Thread \ {Expiry}, NEW to,
           ePc[t] \notin {"notify", "resume"}, ePc' = [ePc EXCEPT ![t] = to],
           UNCHANGED calls,
           eUntil' \in [Earpc!Thread -> Nat \cup {None}],
           eUntil'[Expiry] = eUntil[Expiry],
           Expiry \in eAsleep' => Expiry \in eAsleep
    PROVE  ExpiryInv'
<1>1. Times'
    BY DEF ExpiryInv, Times, calls
<1>2. \A m \in DOMAIN eOut' : ~eOut'[m].parked =>
                \E j \in DOMAIN eOut : ~eOut[j].parked /\ eOut'[m].left = eOut[j].left
    BY DEF calls
<1>3. From(eInc', eInc)
    BY DEF calls, From
<1>4. eMissed' = eMissed
    BY DEF calls
<1> QED
    BY <1>1, <1>2, <1>3, <1>4, QuietStep

(* A caller adds a call and then notifies the expiry thread, ... *)
LEMMA CallerStep ==
    ASSUME ExpiryInv, NEW t \in Caller, Earpc!DoCall(t) \/ Earpc!Calls(t)
    PROVE  ExpiryInv'
<1> USE DEF Earpc!tables, Earpc!queues, Earpc!sleeps
<1>1. t \in Earpc!Thread \ {Expiry} /\ Expiry \in Earpc!Thread
    BY Distinct
<1>2. eUntil \in [Earpc!Thread -> Nat \cup {None}]
    BY DEF ExpiryInv, Times
<1>3. CASE Earpc!DoCall(t)
  <2>1. /\ ePc[t] = "idle" /\ ePc' = [ePc EXCEPT ![t] = "draw"]
        /\ UNCHANGED <<calls, eUntil, eAsleep>>
      BY <1>3 DEF Earpc!DoCall, Earpc!Ready, Earpc!Acquire, Earpc!GoTo, calls
  <2> QED
      BY <1>1, <1>2, <2>1, GoesOn
<1>4. CASE Earpc!DrawId(t)
  <2>1. /\ ePc[t] = "draw" /\ ePc' = [ePc EXCEPT ![t] = "push"]
        /\ UNCHANGED <<calls, eUntil, eAsleep>>
      BY <1>4 DEF Earpc!DrawId, Earpc!Ready, Earpc!Acquire, Earpc!GoTo, calls
  <2> QED
      BY <1>1, <1>2, <2>1, GoesOn
<1>5. CASE Earpc!PushOutgoing(t)
  <2>1. PICK i \in Id : eOut' = <<Earpc!Record(i, Earpc!Active # {})>> \o eOut
      BY <1>5 DEF Earpc!PushOutgoing, Earpc!Free
  <2>2. PICK r \in Record : r = Earpc!Record(i, Earpc!Active # {})
    <3>1. \A p \in BOOLEAN : Earpc!Record(i, p) \in Record
        BY EarpcThreadsAssumption DEF Record, Earpc!Record
    <3>2. (Earpc!Active # {}) \in BOOLEAN
        OBVIOUS
    <3> QED
        BY <3>1, <3>2
  <2>3. PICK n \in Nat : n = Len(eOut) /\ DOMAIN eOut = 1 .. n
      BY LenProperties DEF ExpiryInv, Times
  <2>4. /\ eOut' \in Seq(Record) /\ Len(eOut') = n + 1
        /\ \A m \in 1 .. n + 1 : eOut'[m] = IF m = 1 THEN r ELSE eOut[m - 1]
    <3>1. <<r>> \in Seq(Record) /\ Len(<<r>>) = 1 /\ <<r>>[1] = r
        OBVIOUS
    <3>2. /\ <<r>> \o eOut \in Seq(Record)
          /\ Len(<<r>> \o eOut) = 1 + n
          /\ \A m \in 1 .. 1 + n : (<<r>> \o eOut)[m]
                  = IF m <= 1 THEN <<r>>[m] ELSE eOut[m - 1]
        BY <2>3, <3>1, ConcatProperties DEF ExpiryInv, Times
    <3>3. eOut' = <<r>> \o eOut
        BY <2>1, <2>2
    <3> QED
        BY <3>1, <3>2, <3>3
  <2>5. UNCHANGED <<eInc, eUntil, eAsleep, eMissed>>
      BY <1>5 DEF Earpc!PushOutgoing
  <2>6. Times'
      BY <2>4, <2>5 DEF ExpiryInv, Times
  <2>7. CASE Earpc!Active # {}
    <3>1. ePc[t] = "push" /\ ePc' = [ePc EXCEPT ![t] = "idle"]
        BY <1>5, <2>7
        DEF Earpc!PushOutgoing, Earpc!Ready, Earpc!Ends, Earpc!Rests, Earpc!GoTo
    <3>2. r.parked
        BY <2>2, <2>7 DEF Earpc!Record
    <3>3. ASSUME NEW m \in DOMAIN eOut', ~eOut'[m].parked
          PROVE  \E j \in DOMAIN eOut :
                    ~eOut[j].parked /\ eOut'[m].left = eOut[j].left
      <4>1. m \in 1 .. n + 1
          BY <2>4, LenProperties
      <4>2. m # 1
          BY <2>4, <3>2, <3>3, <4>1
      <4>3. m - 1 \in DOMAIN eOut /\ eOut'[m] = eOut[m - 1]
          BY <2>3, <2>4, <4>1, <4>2
      <4> QED
          BY <3>3, <4>3
    <3>4. From(eInc', eInc)
        BY <2>5 DEF From
    <3> QED
        BY <1>1, <2>5, <2>6, <3>1, <3>3, <3>4, QuietStep
  <2>8. CASE Earpc!Active = {}
    <3>1. ePc' = [ePc EXCEPT ![t] = "notify"]
        BY <1>5, <2>8 DEF Earpc!PushOutgoing, Earpc!Acquire, Earpc!GoTo
    <3>2. /\ ePc' = [u \in Earpc!Thread |-> ePc'[u]] /\ ePc'[t] = "notify"
          /\ ePc'[Expiry] = ePc[Expiry]
        BY <1>1, <3>1 DEF ExpiryInv
    <3>3. Expiry \in eAsleep' => ePc'[Expiry] = "lock"
        BY <2>5, <3>2 DEF ExpiryInv
    <3> QED
        BY <1>1, <2>6, <3>2, <3>3, PendingStep
  <2> QED
      BY <2>7, <2>8
<1>6. CASE Earpc!NotifyBoth(t)
  <2>1. Earpc!NotifyExpiry({Sender}) /\ UNCHANGED <<eOut, eInc>>
      BY <1>6 DEF Earpc!NotifyBoth
  <2>2. ePc' = [ePc EXCEPT ![t] = "idle"]
      BY <1>6 DEF Earpc!NotifyBoth, Earpc!Ends, Earpc!Rests, Earpc!GoTo
  <2>3. ePc' = [u \in Earpc!Thread |-> ePc'[u]] /\ ePc'[Expiry] = ePc[Expiry]
      BY <1>1, <2>2 DEF ExpiryInv
  <2>4. Times'
      BY <2>1, NotifyWakes DEF ExpiryInv, Times
  <2> QED
      BY <2>1, <2>3, <2>4, NotifyWakes, WokenStep
<1> QED
    BY <1>3, <1>4, <1>5, <1>6 DEF Earpc!Calls

(* ... an answer comes, ... *)
LEMMA HearStep ==
    ASSUME ExpiryInv, Earpc!HearAnswer \/ Earpc!HearCopy \/ Earpc!HearCall
    PROVE  ExpiryInv'
<1> USE DEF Earpc!tables, Earpc!queues, Earpc!sleeps
<1>1. /\ ePc[Receiver] = "recv" /\ UNCHANGED <<calls, eUntil, eAsleep>>
      /\ \E to \in {"remove", "copy", "acknowledge call"} :
             ePc' = [ePc EXCEPT ![Receiver] = to]
    BY DEF Earpc!HearAnswer, Earpc!HearCopy, Earpc!HearCall, Earpc!Ready,
           Earpc!Acquire, Earpc!GoTo, calls
<1> QED
    BY <1>1, Distinct, GoesOn DEF ExpiryInv, Times

(* ... the receive thread ends a call, resumes a parked one and notifies,  *)
(* or adds an incoming one, ...                                            *)
LEMMA ReceiverStep ==
    ASSUME ExpiryInv, Earpc!Receives
    PROVE  ExpiryInv'
<1> USE DEF Earpc!tables, Earpc!queues, Earpc!sleeps
<1> DEFINE R == Receiver
<1>1. R \in Earpc!Thread \ {Expiry} /\ Expiry \in Earpc!Thread
    BY Distinct
<1>2. eUntil \in [Earpc!Thread -> Nat \cup {None}]
    BY DEF ExpiryInv, Times
<1>3. CASE \/ Earpc!RemoveAnswered \/ Earpc!NotedOutgoing \/ Earpc!Accepted
           \/ Earpc!AckReturn \/ Earpc!AckCopy
  <2>1. /\ ePc[R] \notin {"notify", "resume"}
        /\ UNCHANGED <<calls, eUntil, eAsleep>>
        /\ \E to : ePc' = [ePc EXCEPT ![R] = to]
      BY <1>3
      DEF Earpc!RemoveAnswered, Earpc!NotedOutgoing, Earpc!Accepted,
          Earpc!AckReturn, Earpc!AckCopy, Earpc!Ready, Earpc!Acquire,
          Earpc!Ends, Earpc!Rests, Earpc!GoTo, calls
  <2> QED
      BY <1>1, <1>2, <2>1, GoesOn
<1>4. CASE \/ Earpc!Acknowledge \/ Earpc!Reject \/ Earpc!AcknowledgeCopy
           \/ Earpc!AcknowledgeCall
  <2>1. /\ ePc[R] \notin {"notify", "resume"} /\ UNCHANGED calls
        /\ Earpc!Wake({Feedback})
        /\ \E to : ePc' = [ePc EXCEPT ![R] = to]
      BY <1>4
      DEF Earpc!Acknowledge, Earpc!Reject, Earpc!AcknowledgeCopy,
          Earpc!AcknowledgeCall, Earpc!PushFeedback, Earpc!Ready,
          Earpc!Acquire, Earpc!Ends, Earpc!Rests, Earpc!GoTo, calls
  <2>2. Expiry \notin {Feedback}
      BY EarpcThreadsAssumption
  <2> QED
      BY <1>1, <2>1, <2>2, WakeOthers, GoesOn
<1>5. CASE Earpc!EndReturned
  <2>1. PICK k \in DOMAIN eInc : eInc' = Earpc!RemoveAt(eInc, k)
      BY <1>5 DEF Earpc!EndReturned
  <2>2. k \in 0 .. Len(eInc)
      BY LenProperties DEF ExpiryInv, Times
  <2>3. eInc' \in Seq(Nat) /\ From(eInc', eInc)
      BY <2>1, <2>2, RemoveFrom DEF ExpiryInv, Times
  <2>4. /\ ePc[R] = "noted" /\ ePc' = [ePc EXCEPT ![R] = "recv"]
        /\ UNCHANGED <<eOut, eMissed, eUntil, eAsleep>>
      BY <1>5
      DEF Earpc!EndReturned, Earpc!Ready, Earpc!Ends, Earpc!Rests, Earpc!GoTo
  <2>5. Times'
      BY <2>3, <2>4 DEF ExpiryInv, Times
  <2>6. \A m \in DOMAIN eOut' : ~eOut'[m].parked =>
           \E j \in DOMAIN eOut :
              ~eOut[j].parked /\ eOut'[m].left = eOut[j].left
      BY <2>4
  <2> QED
      BY <1>1, <2>3, <2>4, <2>5, <2>6, QuietStep
<1>6. CASE Earpc!EndAnswered
  <2>1. PICK i : i = eArg[R]
      OBVIOUS
  <2>2. PICK q \in Seq(Record) : q = Earpc!Rest(i) /\ From(q, eOut)
      BY RestIs DEF ExpiryInv
  <2>3. UNCHANGED <<eInc, eMissed, eUntil, eAsleep>>
      BY <1>6 DEF Earpc!EndAnswered
  <2>4. CASE /\ Earpc!Resume(R, i)
             /\ Earpc!Acquire(eLock, R, "queue", "resume")
    <3>1. eOut' \in Seq(Record)
        BY <2>2, <2>4, ResumedIs DEF Earpc!Resume
    <3>2. ePc' = [ePc EXCEPT ![R] = "resume"]
        BY <2>4 DEF Earpc!Acquire, Earpc!GoTo
    <3>3. /\ ePc' = [u \in Earpc!Thread |-> ePc'[u]] /\ ePc'[R] = "resume"
          /\ ePc'[Expiry] = ePc[Expiry]
        BY <1>1, <3>2 DEF ExpiryInv
    <3>4. Times' /\ (Expiry \in eAsleep' => ePc'[Expiry] = "lock")
        BY <2>3, <3>1, <3>3 DEF ExpiryInv, Times
    <3> QED
        BY <1>1, <3>3, <3>4, PendingStep
  <2>5. CASE eOut' = Earpc!Rest(i) /\ Earpc!Rests(R, "recv")
    <3>1. Times' /\ From(eOut', eOut) /\ From(eInc', eInc)
        BY <2>2, <2>3, <2>5 DEF ExpiryInv, Times, From
    <3>2. ePc[R] = "end" /\ ePc' = [ePc EXCEPT ![R] = "recv"]
        BY <1>6, <2>5
        DEF Earpc!EndAnswered, Earpc!Ready, Earpc!Rests, Earpc!GoTo
    <3>3. \A m \in DOMAIN eOut' : ~eOut'[m].parked =>
             \E j \in DOMAIN eOut :
                ~eOut[j].parked /\ eOut'[m].left = eOut[j].left
        BY <3>1 DEF From
    <3> QED
        BY <1>1, <2>3, <3>1, <3>2, <3>3, QuietStep
  <2> QED
      BY <1>6, <2>1, <2>4, <2>5 DEF Earpc!EndAnswered
<1>7. CASE Earpc!ResumeAnswered
  <2>1. Earpc!NotifyExpiry({Sender}) /\ UNCHANGED <<eOut, eInc>>
      BY <1>7 DEF Earpc!ResumeAnswered
  <2>2. ePc' = [ePc EXCEPT ![R] = "recv"]
      BY <1>7 DEF Earpc!ResumeAnswered, Earpc!Ends, Earpc!Rests, Earpc!GoTo
  <2>3. /\ ePc' = [u \in Earpc!Thread |-> ePc'[u]]
        /\ ePc'[Expiry] = ePc[Expiry]
      BY <1>1, <2>2 DEF ExpiryInv
  <2>4. Times'
      BY <2>1, NotifyWakes DEF ExpiryInv, Times
  <2> QED
      BY <2>1, <2>3, <2>4, NotifyWakes, WokenStep
<1>8. CASE Earpc!PushIncoming
  <2>1. /\ Earpc!NotifyExpiry({}) /\ UNCHANGED eOut
        /\ eInc' = <<Timeout>> \o eInc
      BY <1>8 DEF Earpc!PushIncoming
  <2>2. ePc' = [ePc EXCEPT ![R] = "recv"]
      BY <1>8 DEF Earpc!PushIncoming, Earpc!Rests, Earpc!GoTo
  <2>3. /\ ePc' = [u \in Earpc!Thread |-> ePc'[u]]
        /\ ePc'[Expiry] = ePc[Expiry]
      BY <1>1, <2>2 DEF ExpiryInv
  <2>4. eInc' \in Seq(Nat)
    <3>1. <<Timeout>> \in Seq(Nat)
        BY EarpcThreadsAssumption
    <3> QED
        BY <2>1, <3>1, ConcatProperties DEF ExpiryInv, Times
  <2>5. Times'
      BY <2>1, <2>4, NotifyWakes DEF ExpiryInv, Times
  <2> QED
      BY <2>1, <2>3, <2>5, NotifyWakes, WokenStep
<1> QED
    BY <1>3, <1>4, <1>5, <1>6, <1>7, <1>8 DEF Earpc!Receives

(* ... the send and feedback threads touch no table, ... *)
LEMMA SenderStep ==
    ASSUME ExpiryInv, Earpc!Sends \/ Earpc!FeedsBack
    PROVE  ExpiryInv'
<1> USE DEF Earpc!tables, Earpc!queues, Earpc!sleeps
<1>1. /\ {Sender, Feedback} \subseteq Earpc!Thread \ {Expiry}
      /\ Expiry \in Earpc!Thread
    BY Distinct
<1>2. eUntil \in [Earpc!Thread -> Nat \cup {None}]
    BY DEF ExpiryInv, Times
<1>3. CASE \/ Earpc!SendPackets \/ Earpc!FeedbackLock \/ Earpc!FeedbackSend
           \/ Earpc!FeedbackSent
  <2>1. \E t \in {Sender, Feedback} :
           /\ ePc[t] \notin {"notify", "resume"}
           /\ \E to : ePc' = [ePc EXCEPT ![t] = to]
      BY <1>3
      DEF Earpc!SendPackets, Earpc!FeedbackLock, Earpc!FeedbackSend,
          Earpc!FeedbackSent, Earpc!Ready, Earpc!Acquire, Earpc!Rests,
          Earpc!GoTo
  <2>2. UNCHANGED <<calls, eUntil, eAsleep>>
      BY <1>3
      DEF Earpc!SendPackets, Earpc!FeedbackLock, Earpc!FeedbackSend,
          Earpc!FeedbackSent, calls
  <2> QED
      BY <1>1, <1>2, <2>1, <2>2, GoesOn
<1>4. CASE Earpc!SendLock
  <2>1. /\ ePc[Sender] = "lock" /\ UNCHANGED calls /\ Earpc!Wake({Sender})
        /\ ePc' = [ePc EXCEPT ![Sender] = "send"]
      BY <1>4
      DEF Earpc!SendLock, Earpc!Ready, Earpc!Acquire, Earpc!GoTo, calls
  <2>2. Expiry \notin {Sender}
      BY EarpcThreadsAssumption
  <2> QED
      BY <1>1, <2>1, <2>2, WakeOthers, GoesOn
<1>5. CASE Earpc!SendWait \/ Earpc!FeedbackWait
  <2>1. \E t \in {Sender, Feedback} :
           /\ ePc[t] \notin {"notify", "resume"}
           /\ ePc' = [ePc EXCEPT ![t] = "lock"]
           /\ \/ UNCHANGED <<eAsleep, eUntil>>
              \/ \E n \in {None, 0} : Earpc!Sleep(t, n)
      BY <1>5
      DEF Earpc!SendWait, Earpc!FeedbackWait, Earpc!Ready, Earpc!Rests,
          Earpc!GoTo
  <2>2. UNCHANGED calls
      BY <1>5 DEF Earpc!SendWait, Earpc!FeedbackWait, calls
  <2>3. PICK t \in {Sender, Feedback} :
           /\ ePc[t] \notin {"notify", "resume"}
           /\ ePc' = [ePc EXCEPT ![t] = "lock"]
           /\ \/ UNCHANGED <<eAsleep, eUntil>>
              \/ \E n \in {None, 0} : Earpc!Sleep(t, n)
      BY <2>1
  <2>4. /\ eUntil' \in [Earpc!Thread -> Nat \cup {None}]
        /\ eUntil'[Expiry] = eUntil[Expiry]
        /\ Expiry \in eAsleep' => Expiry \in eAsleep
      BY <1>1, <1>2, <2>3 DEF Earpc!Sleep
  <2> QED
      BY <1>1, <2>2, <2>3, <2>4, GoesOn
<1> QED
    BY <1>3, <1>4, <1>5 DEF Earpc!Sends, Earpc!FeedsBack

(* The expiry thread looks at the incoming table, once more. *)
LEMMA LooksOn ==
    ASSUME ExpiryInv, ePc[Expiry] \in Looks, NEW to \in Looks,
           ePc' = [ePc EXCEPT ![Expiry] = to],
           UNCHANGED <<eOut, eUntil, eAsleep, eMissed>>, eInc' \in Seq(Nat)
    PROVE  ExpiryInv'
<1>1. Times'
    BY DEF ExpiryInv, Times
<1>2. /\ ePc' = [u \in Earpc!Thread |-> ePc'[u]] /\ ePc'[Expiry] \in Looks
      /\ \A u \in Earpc!Thread \ {Expiry} : ePc'[u] = ePc[u]
    BY Distinct DEF ExpiryInv
<1>3. Expiry \notin eAsleep'
    BY DEF ExpiryInv, Looks
<1>4. Heard' => Heard
  <2>1. Earpc!Notifying \subseteq Earpc!Notifying'
      BY <1>2 DEF Earpc!Notifying, Looks
  <2> QED
      BY <2>1 DEF Heard
<1>5. OutAfter => OutAfter'
    BY DEF OutAfter
<1> QED
    BY <1>1, <1>2, <1>3, <1>4, <1>5 DEF ExpiryInv

(* ... and the expiry thread takes the deadline of each table before it    *)
(* sleeps.                                                                 *)
LEMMA ExpiryStep ==
    ASSUME ExpiryInv, Earpc!Expires
    PROVE  ExpiryInv'
<1> USE DEF Earpc!tables, Earpc!queues, Earpc!sleeps
<1>1. Expiry \in Earpc!Thread
    BY Distinct
<1>2. Times /\ ePc = [u \in Earpc!Thread |-> ePc[u]]
    BY DEF ExpiryInv
<1>3. CASE Earpc!ExpiryLock
  <2>1. /\ Earpc!Wake({Expiry}) /\ UNCHANGED <<eOut, eInc>>
        /\ ePc' = [ePc EXCEPT ![Expiry] = "outgoing"]
      BY <1>3 DEF Earpc!ExpiryLock, Earpc!Acquire, Earpc!GoTo
  <2>2. /\ ePc' = [u \in Earpc!Thread |-> ePc'[u]]
        /\ ePc'[Expiry] \notin Looks
      BY <1>1, <1>2, <2>1 DEF Looks
  <2>3. Times' /\ Expiry \notin eAsleep'
      BY <1>1, <1>2, <2>1 DEF Times, Earpc!Wake
  <2> QED
      BY <2>2, <2>3, WokenStep
<1>4. CASE Earpc!ExpireOutgoing
  <2>1. /\ ePc[Expiry] = "outgoing"
        /\ ePc' = [ePc EXCEPT ![Expiry] = "remove"]
        /\ UNCHANGED <<eOut, eInc, eUntil, eAsleep>>
      BY <1>4
      DEF Earpc!ExpireOutgoing, Earpc!Ready, Earpc!Acquire, Earpc!GoTo
  <2>2. /\ ePc' = [u \in Earpc!Thread |-> ePc'[u]]
        /\ ePc'[Expiry] \notin Looks /\ Expiry \notin eAsleep'
      BY <1>1, <1>2, <2>1 DEF ExpiryInv, Looks
  <2>3. Times'
      BY <1>2, <2>1 DEF Times
  <2> QED
      BY <2>2, <2>3, WokenStep
<1>5. CASE Earpc!EndExpired
  <2>1. PICK i : i = eArg[Expiry]
      OBVIOUS
  <2>2. PICK q \in Seq(Record) : q = Earpc!Rest(i) /\ From(q, eOut)
      BY <1>2, RestIs
  <2>3. /\ ePc[Expiry] = "remove" /\ UNCHANGED <<eInc, eUntil, eAsleep>>
        /\ \/ Earpc!Resume(Expiry, i) \/ Earpc!ResumeNone(Expiry, i)
      BY <1>5, <2>1 DEF Earpc!EndExpired, Earpc!Ready
  <2>4. \E to \in {"resume", "outgoing"} : ePc' = [ePc EXCEPT ![Expiry] = to]
      BY <1>5 DEF Earpc!EndExpired, Earpc!Again, Earpc!Acquire, Earpc!GoTo
  <2>5. eOut' \in Seq(Record)
      BY <2>2, <2>3, ResumedIs DEF Earpc!Resume, Earpc!ResumeNone
  <2>6. /\ ePc' = [u \in Earpc!Thread |-> ePc'[u]]
        /\ ePc'[Expiry] \notin Looks /\ Expiry \notin eAsleep'
      BY <1>1, <1>2, <2>3, <2>4 DEF ExpiryInv, Looks
  <2>7. Times'
      BY <1>2, <2>3, <2>5 DEF Times
  <2> QED
      BY <2>6, <2>7, WokenStep
<1>6. CASE Earpc!ResumeExpired
  <2>1. /\ Earpc!NotifyExpiry({Sender}) /\ UNCHANGED <<eOut, eInc>>
        /\ ePc' = [ePc EXCEPT ![Expiry] = "outgoing"]
      BY <1>6 DEF Earpc!ResumeExpired, Earpc!Again, Earpc!Acquire, Earpc!GoTo
  <2>2. /\ ePc' = [u \in Earpc!Thread |-> ePc'[u]]
        /\ ePc'[Expiry] \notin Looks
      BY <1>1, <1>2, <2>1 DEF Looks
  <2>3. Times'
      BY <1>2, <2>1, NotifyWakes DEF Times
  <2> QED
      BY <2>1, <2>2, <2>3, NotifyWakes, WokenStep
<1>7. CASE Earpc!ScanOutgoing
  <2>1. /\ ePc[Expiry] = "outgoing"
        /\ ePc' = [ePc EXCEPT ![Expiry] = "incoming"]
        /\ eUntil' = [eUntil EXCEPT ![Expiry] = Earpc!NextExpiring]
        /\ UNCHANGED <<eOut, eInc, eAsleep>>
      BY <1>7 DEF Earpc!ScanOutgoing, Earpc!Ready, Earpc!Acquire, Earpc!GoTo
  <2>2. ePc' = [u \in Earpc!Thread |-> ePc'[u]] /\ Expiry \notin eAsleep'
      BY <1>1, <1>2, <2>1 DEF ExpiryInv
  <2>3. Times' /\ eUntil'[Expiry] = Earpc!NextExpiring
      BY <1>1, <1>2, <2>1, SoonestNext DEF Times
  <2>4. OutAfter'
      BY <1>2, <2>1, <2>3, SoonestNext, EarpcThreadsAssumption DEF OutAfter
  <2> QED
      BY <2>2, <2>3, <2>4 DEF ExpiryInv
<1>8. CASE Earpc!ExpireIncoming
  <2>1. /\ ePc[Expiry] = "incoming"
        /\ ePc' = [ePc EXCEPT ![Expiry] = "remove incoming"]
        /\ UNCHANGED <<eOut, eInc, eUntil, eAsleep, eMissed>>
      BY <1>8
      DEF Earpc!ExpireIncoming, Earpc!Ready, Earpc!Acquire, Earpc!GoTo
  <2> QED
      BY <1>2, <2>1, LooksOn DEF Looks, Times
<1>9. CASE Earpc!EndIncoming
  <2>1. /\ ePc[Expiry] = "remove incoming"
        /\ ePc' = [ePc EXCEPT ![Expiry] = "incoming"]
        /\ UNCHANGED <<eOut, eUntil, eAsleep, eMissed>>
      BY <1>9 DEF Earpc!EndIncoming, Earpc!Ready, Earpc!Acquire, Earpc!GoTo
  <2>2. PICK k \in 0 .. Len(eInc) : eInc' = Earpc!RemoveAt(eInc, k)
    <3>1. Len(eInc) \in Nat
        BY <1>2, LenProperties DEF Times
    <3>2. PICK I \in SUBSET (1 .. Len(eInc)) :
             I = {j \in 1 .. Len(eInc) : eInc[j] = 0}
        OBVIOUS
    <3>3. (IF I # {} THEN Earpc!Min(I) ELSE 0) \in 0 .. Len(eInc)
        BY <3>1, <3>2, Place0
    <3> QED
        BY <1>9, <3>2, <3>3 DEF Earpc!EndIncoming, Earpc!SelectInSeq
  <2>3. eInc' \in Seq(Nat)
      BY <1>2, <2>2, RemoveFrom DEF Times
  <2> QED
      BY <2>1, <2>3, LooksOn DEF Looks
<1>10. CASE Earpc!ScanIncoming
  <2>1. /\ ePc[Expiry] = "incoming" /\ ePc' = [ePc EXCEPT ![Expiry] = "lock"]
        /\ UNCHANGED <<eOut, eInc, eMissed>>
      BY <1>10 DEF Earpc!ScanIncoming, Earpc!Ready, Earpc!GoTo
  <2>2. /\ ePc' = [u \in Earpc!Thread |-> ePc'[u]] /\ ePc'[Expiry] = "lock"
        /\ \A u \in Earpc!Thread \ {Expiry} : ePc'[u] = ePc[u]
      BY <1>1, <1>2, <2>1
  <2>3. Expiry \notin eAsleep
      BY <2>1 DEF ExpiryInv
  <2>4. CASE /\ UNCHANGED eAsleep
             /\ eUntil' = [eUntil EXCEPT ![Expiry] = None]
    <3>1. Times'
        BY <1>2, <2>1, <2>4 DEF Times
    <3> QED
        BY <2>2, <2>3, <2>4, <3>1, WokenStep DEF Looks
  <2>5. CASE Earpc!Sleep(Expiry, Earpc!Deadline)
    <3>1. Times' /\ eUntil'[Expiry] = Earpc!Deadline
        BY <1>1, <1>2, <2>1, <2>5, SoonestDeadline DEF Times, Earpc!Sleep
    <3>2. Heard' => OutAfter
      <4>1. Earpc!Notifying \subseteq Earpc!Notifying'
          BY <2>1, <2>2 DEF Earpc!Notifying
      <4> QED
          BY <2>1, <4>1 DEF Heard, ExpiryInv, Looks
    <3>3. OutAfter => OutAfter'
      <4>1. \A k \in DOMAIN eOut : eOut[k].left \in Nat
          BY <1>2, LeftIs
      <4>2. eUntil[Expiry] \in Nat \cup {None}
          BY <1>1, <1>2 DEF Times
      <4> QED
          BY <1>1, <1>2, <2>1, <3>1, <4>1, <4>2, SoonestDeadline,
             EarpcThreadsAssumption
          DEF OutAfter
    <3>4. IncAfter'
        BY <1>1, <1>2, <2>1, <3>1, SoonestDeadline, EarpcThreadsAssumption
        DEF IncAfter
    <3> QED
        BY <2>2, <3>1, <3>2, <3>3, <3>4 DEF ExpiryInv, Looks
  <2> QED
      BY <1>10, <2>4, <2>5 DEF Earpc!ScanIncoming
<1> QED
    BY <1>3, <1>4, <1>5, <1>6, <1>7, <1>8, <1>9, <1>10 DEF Earpc!Expires

(* Time passes for the calls and for the thread alike. *)
LEMMA TickStep ==
    ASSUME ExpiryInv, Earpc!Tick
    PROVE  ExpiryInv'
<1> USE EarpcThreadsAssumption
<1>1. Expiry \in Earpc!Thread /\ Times
    BY Distinct DEF ExpiryInv
<1>2. UNCHANGED <<eAsleep, ePc, eMissed>>
    BY DEF Earpc!Tick
<1>3. PICK l \in Nat : l = Len(eOut) /\ DOMAIN eOut = 1 .. l
    BY <1>1, LenProperties DEF Times
<1>4. PICK n \in Nat : n = Len(eInc) /\ DOMAIN eInc = 1 .. n
    BY <1>1, LenProperties DEF Times
<1>5. /\ eOut' = [k \in 1 .. l |-> [eOut[k] EXCEPT !.left = Earpc!Less1(@)]]
      /\ eInc' = [k \in 1 .. n |-> Earpc!Less1(eInc[k])]
      /\ eUntil' = [eUntil EXCEPT ![Expiry] = Earpc!Less1(@)]
    BY <1>3, <1>4 DEF Earpc!Tick
<1>6. \A m \in Nat : Earpc!Less1(m) \in Nat
    BY DEF Earpc!Less1
<1>7. ASSUME NEW k \in 1 .. l
      PROVE  /\ eOut'[k] \in Record /\ eOut[k].left \in Nat
             /\ eOut'[k].left = Earpc!Less1(eOut[k].left)
             /\ eOut'[k].parked = eOut[k].parked
  <2>1. eOut[k] \in Record
      BY <1>1, <1>3, ElementOfSeq DEF Times
  <2> QED
      BY <1>5, <1>6, <2>1 DEF Record
<1>8. ASSUME NEW k \in 1 .. n
      PROVE  /\ eInc'[k] \in Nat /\ eInc[k] \in Nat
             /\ eInc'[k] = Earpc!Less1(eInc[k])
  <2>1. eInc[k] \in Nat
      BY <1>1, <1>4, ElementOfSeq DEF Times
  <2> QED
      BY <1>5, <1>6, <2>1
<1>9. /\ DOMAIN eOut' = DOMAIN eOut /\ DOMAIN eInc' = DOMAIN eInc
      /\ eOut' \in Seq(Record) /\ eInc' \in Seq(Nat)
  <2>1. DOMAIN eOut' = 1 .. l /\ DOMAIN eInc' = 1 .. n
      BY <1>5
  <2>2. eOut' \in [1 .. l -> Record]
      BY <1>5, <1>7, <2>1
  <2>3. eInc' \in [1 .. n -> Nat]
      BY <1>5, <1>8, <2>1
  <2> QED
      BY <1>3, <1>4, <2>1, <2>2, <2>3
<1>10. /\ eUntil[Expiry] \in Nat \cup {None}
       /\ eUntil'[Expiry] = Earpc!Less1(eUntil[Expiry])
       /\ eUntil' \in [Earpc!Thread -> Nat \cup {None}]
  <2>1. eUntil[Expiry] \in Nat \cup {None}
      BY <1>1 DEF Times
  <2>2. Earpc!Less1(eUntil[Expiry]) \in Nat \cup {None}
      BY <2>1 DEF Earpc!Less1
  <2> QED
      BY <1>1, <1>5, <2>1, <2>2 DEF Times
<1>11. Times'
    BY <1>9, <1>10 DEF Times
<1>12. ASSUME NEW m \in Nat, eUntil[Expiry] # None, eUntil[Expiry] <= m
       PROVE  eUntil'[Expiry] # None /\ eUntil'[Expiry] <= Earpc!Less1(m)
    BY <1>10, <1>12 DEF Earpc!Less1
<1>13. OutAfter => OutAfter'
    BY <1>3, <1>7, <1>9, <1>12 DEF OutAfter
<1>14. IncAfter => IncAfter'
    BY <1>4, <1>8, <1>9, <1>12 DEF IncAfter
<1>15. Heard' => Heard
    BY <1>2 DEF Heard, Earpc!Notifying
<1> QED
    BY <1>2, <1>11, <1>13, <1>14, <1>15 DEF ExpiryInv

(* So every step keeps it. *)
LEMMA ExpiryInductive == ExpiryInv /\ [Earpc!Next]_earpc => ExpiryInv'
<1> SUFFICES ASSUME ExpiryInv, [Earpc!Next]_earpc
             PROVE  ExpiryInv'
    OBVIOUS
<1>1. CASE UNCHANGED earpc
    BY <1>1
    DEF earpc, ExpiryInv, Times, OutAfter, IncAfter, Heard, Earpc!Notifying
<1> QED
    BY <1>1, CallerStep, HearStep, ReceiverStep, SenderStep, ExpiryStep, TickStep
    DEF Earpc!Next

(* The steps of ThreadsSpec are steps of the threads of earpc, or leave     *)
(* them alone.                                                              *)
LEMMA ThreadsSteps == [ThreadsNext]_threads => [Earpc!Next]_earpc
BY DEF ThreadsNext, threads, OnPool, OnEarpc, earpc

(* Neither queue is left with packets while its thread sleeps for ever     *)
(* (proc_send::notify, proc_feedback::notify).                             *)
THEOREM QueuesWakeHolds == ThreadsSpec => []QueuesWake
<1>1. ThreadsInit => Woke
    BY WakeInit DEF ThreadsInit
<1>2. Woke /\ [ThreadsNext]_threads => Woke'
    BY WakeStep, ThreadsSteps
<1>3. Woke => QueuesWake
    BY DEF Woke
<1> QED
    BY <1>1, <1>2, <1>3, PTL DEF ThreadsSpec

(* The expiry thread does not sleep past the end of a call, unless it      *)
(* missed a notify or one is still to come (process/expiry.h).             *)
THEOREM InTimeHolds == ThreadsSpec => []InTime
<1>1. ThreadsInit => ExpiryInv
    BY ExpiryInit DEF ThreadsInit
<1>2. ExpiryInv /\ [ThreadsNext]_threads => ExpiryInv'
    BY ExpiryInductive, ThreadsSteps
<1>3. ExpiryInv => InTime
  <2> SUFFICES ASSUME ExpiryInv, Expiry \in eAsleep, Heard,
                      NEW left \in {eOut[k].left : k \in Earpc!Active}
                                       \cup Earpc!Range(eInc)
               PROVE  eUntil[Expiry] # None /\ eUntil[Expiry] <= left
      BY DEF InTime, Earpc!InTime, Heard
  <2>1. OutAfter /\ IncAfter
      BY DEF ExpiryInv
  <2> QED
      BY <2>1 DEF OutAfter, IncAfter, Earpc!Active, Earpc!Range
<1> QED
    BY <1>1, <1>2, <1>3, PTL DEF ThreadsSpec

-----------------------------------------------------------------------------
(* An axis. *)

(* The inductive invariant: the command that is pending is one that was     *)
(* accepted and is not among those reported.                                *)
Counted ==
    /\ pending \in BOOLEAN /\ reports \in Nat /\ asked \in Nat
    /\ reports <= asked
    /\ pending => reports < asked

(* It holds at first, ... *)
LEMMA CountedInit == AxisInit => Counted
<1> SUFFICES ASSUME AxisInit
             PROVE  Counted
    OBVIOUS
<1>1. pending = FALSE /\ reports = 0 /\ asked = 0
    BY DEF AxisInit
<1>2. pending \in BOOLEAN /\ (pending => reports < asked)
    BY <1>1, Zenon
<1> QED
    BY <1>1, <1>2 DEF Counted

(* ... and every step keeps it: a command counts one more as it becomes     *)
(* pending, and a report uses up the one that is.                           *)
LEMMA CountedInductive == Counted /\ [AxisNext]_axisVars => Counted'
<1> SUFFICES ASSUME Counted, [AxisNext]_axisVars
             PROVE  Counted'
    OBVIOUS
<1>1. CASE UNCHANGED <<pending, asked, reports>>
    BY <1>1 DEF Counted
<1>2. CASE Arrive
  <2>1. CASE pending /\ departed
    <3>1. pending' = FALSE /\ reports' = reports + 1 /\ asked' = asked
      BY <1>2, <2>1 DEF Arrive
    <3>2. reports \in Nat /\ asked \in Nat /\ reports < asked
      BY <2>1 DEF Counted
    <3>3. pending' \in BOOLEAN /\ (pending' => reports' < asked')
      BY <3>1, Zenon
    <3> QED
      BY <3>1, <3>2, <3>3 DEF Counted
  <2>2. CASE ~(pending /\ departed)
    BY <1>2, <2>2, <1>1 DEF Arrive
  <2> QED
    BY <2>1, <2>2
<1>3. ASSUME NEW c \in Commander, SetTargetIndex(c)
      PROVE  Counted'
  <2>1. CASE homing
    BY <1>3, <2>1, <1>1 DEF SetTargetIndex
  <2>2. CASE ~homing
    <3>1. pending' = TRUE /\ reports' = reports /\ asked' = asked + 1
      BY <1>3, <2>2 DEF SetTargetIndex
    <3> QED
      BY <3>1 DEF Counted
  <2> QED
    BY <2>1, <2>2
<1>4. ASSUME NEW c \in Commander, Home(c)
      PROVE  Counted'
    BY <1>4 DEF Home, Counted
<1>5. CASE \/ Loop \/ SenseAway \/ SenseZero
           \/ SenseReset \/ Nap \/ Move
           \/ Reported \/ TimedOut \/ Woken
           \/ Relocked
    BY <1>1, <1>5
       DEF Loop, SenseAway, SenseZero,
           SenseReset, Nap, Move, Reported,
           TimedOut, Woken, Relocked,
           flags, history
<1>6. ASSUME NEW c \in Commander,
             \/ Command(c) \/ Release(c) \/ SetFreewheel(c)
             \/ ResetPosition(c) \/ Halted(c) \/ Enabled(c)
             \/ Zeroed(c) \/ Released(c)
      PROVE  Counted'
    BY <1>1, <1>6
       DEF Command, Release, SetFreewheel, ResetPosition,
           Halted, Enabled, Zeroed, Released, flags, history
<1>7. CASE Turn \/ UNCHANGED axisVars
    BY <1>1, <1>7
       DEF Turn, axisVars, flags, history
<1> QED
    BY <1>2, <1>3, <1>4, <1>5, <1>6, <1>7
       DEF AxisNext, Controls, Runs, Obeys

(* Every report to the host is of one setTargetIndex or home that was       *)
(* accepted, and of one that was not reported before.                       *)
THEOREM ReportOnceHolds == AxisSpec => []ReportOnce
<1>1. Counted => ReportOnce
    BY DEF Counted, ReportOnce
<1> QED
    BY <1>1, CountedInit, CountedInductive, PTL DEF AxisSpec
=============================================================================
