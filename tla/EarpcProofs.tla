---------------------------- MODULE EarpcProofs ----------------------------
(* Theorems about one earpc endpoint, for every set of ids, payloads and   *)
(* workers, every number of calls and every bound on the queues.           *)
EXTENDS Earpc, WellFoundedInduction, SequenceTheorems, TLAPS

-----------------------------------------------------------------------------
(* Lemmas about the send queue. *)

(* A nonempty set of naturals has a least element. *)
LEMMA LeastElement ==
    ASSUME NEW I \in SUBSET Nat, I # {}
    PROVE  Min(I) \in I
<1>1. PICK m \in I : \A k \in I : ~ (<<k, m>> \in OpToRel(<, Nat))
    BY NatLessThanWellFounded, WFMin, Zenon
<1>2. \A k \in I : ~ (k < m)
    BY <1>1, Zenon DEF OpToRel
<1>3. \A k \in I : m =< k
    BY <1>2
<1> QED
    BY <1>3 DEF Min

(* A slice of a sequence is a sequence of the entries between its ends. *)
LEMMA Slice ==
    ASSUME NEW S, NEW q \in Seq(S), NEW m \in 1 .. Len(q) + 1,
           NEW n \in 0 .. Len(q)
    PROVE  /\ SubSeq(q, m, n) \in Seq(S)
           /\ Len(SubSeq(q, m, n)) = IF m <= n THEN n - m + 1 ELSE 0
           /\ \A j \in 1 .. n - m + 1 : SubSeq(q, m, n)[j] = q[m + j - 1]
<1>1. Len(q) \in Nat /\ m \in Int /\ n \in Int
    BY LenProperties
<1>2. \A i \in m .. n : q[i] \in S
    BY <1>1, ElementOfSeq
<1> QED
    BY <1>1, <1>2, SubSeqProperties

(* Removing a position closes the gap, ... *)
LEMMA RemoveAtEntries ==
    ASSUME NEW S, NEW q \in Seq(S), NEW i \in 1 .. Len(q)
    PROVE  /\ RemoveAt(q, i) \in Seq(S)
           /\ DOMAIN RemoveAt(q, i) = 1 .. Len(q) - 1
           /\ \A j \in 1 .. Len(q) - 1 :
                 RemoveAt(q, i)[j] = q[IF j < i THEN j ELSE j + 1]
<1>1. PICK n \in Nat : n = Len(q) /\ DOMAIN q = 1 .. n
    BY LenProperties
<1>2. /\ 1 \in 1 .. n + 1 /\ i - 1 \in 0 .. n
      /\ i + 1 \in 1 .. n + 1 /\ n \in 0 .. n
    BY <1>1
<1>3. PICK a : a = SubSeq(q, 1, i - 1)
    OBVIOUS
<1>4. PICK b : b = SubSeq(q, i + 1, n)
    OBVIOUS
<1>5. /\ a \in Seq(S)
      /\ Len(a) = IF 1 <= i - 1 THEN i - 1 - 1 + 1 ELSE 0
      /\ \A j \in 1 .. i - 1 - 1 + 1 : a[j] = q[1 + j - 1]
    BY <1>1, <1>2, <1>3, Slice
<1>6. /\ b \in Seq(S)
      /\ Len(b) = IF i + 1 <= n THEN n - (i + 1) + 1 ELSE 0
      /\ \A j \in 1 .. n - (i + 1) + 1 : b[j] = q[i + 1 + j - 1]
    BY <1>1, <1>2, <1>4, Slice
<1>7. Len(a) = i - 1 /\ Len(b) = n - i
    BY <1>1, <1>5, <1>6
<1>8. /\ a \o b \in Seq(S)
      /\ Len(a \o b) = Len(a) + Len(b)
      /\ \A m \in 1 .. Len(a) + Len(b) :
            (a \o b)[m] = IF m <= Len(a) THEN a[m] ELSE b[m - Len(a)]
    BY <1>5, <1>6, ConcatProperties
<1>9. DOMAIN (a \o b) = 1 .. n - 1
  <2>1. Len(a \o b) = n - 1
      BY <1>1, <1>7, <1>8
  <2>2. DOMAIN (a \o b) = 1 .. Len(a \o b)
      BY <1>8, LenProperties
  <2> QED
      BY <2>1, <2>2
<1>10. ASSUME NEW j \in 1 .. n - 1
       PROVE  (a \o b)[j] = q[IF j < i THEN j ELSE j + 1]
  <2>1. j \in 1 .. Len(a) + Len(b)
      BY <1>1, <1>7
  <2>2. (a \o b)[j] = IF j <= Len(a) THEN a[j] ELSE b[j - Len(a)]
      BY <1>8, <2>1
  <2>3. CASE j < i
    <3>1. j <= Len(a) /\ j \in 1 .. i - 1 - 1 + 1 /\ 1 + j - 1 = j
        BY <1>1, <1>7, <2>3
    <3>2. a[j] = q[j]
        BY <1>5, <3>1
    <3> QED
        BY <2>2, <2>3, <3>1, <3>2
  <2>4. CASE ~ (j < i)
    <3>1. PICK m \in 1 .. n - (i + 1) + 1 : m = j - Len(a)
        BY <1>1, <1>7, <2>4
    <3>2. ~ (j <= Len(a)) /\ i + 1 + m - 1 = j + 1
        BY <1>1, <1>7, <2>4, <3>1
    <3>3. b[m] = q[j + 1]
        BY <1>6, <3>2
    <3> QED
        BY <2>2, <2>4, <3>1, <3>2, <3>3
  <2> QED
      BY <2>3, <2>4
<1>11. RemoveAt(q, i) = a \o b
    BY <1>1, <1>3, <1>4 DEF RemoveAt
<1> QED
    BY <1>1, <1>8, <1>9, <1>10, <1>11

(* ... so that every other entry is kept. *)
LEMMA RemoveAtKeeps ==
    ASSUME NEW S, NEW q \in Seq(S), NEW i \in 1 .. Len(q)
    PROVE  /\ RemoveAt(q, i) \in Seq(S)
           /\ \A j \in DOMAIN q : j # i =>
                 \E m \in DOMAIN RemoveAt(q, i) : RemoveAt(q, i)[m] = q[j]
<1>1. PICK n \in Nat : n = Len(q) /\ DOMAIN q = 1 .. n
    BY LenProperties
<1>2. PICK r \in Seq(S) :
         /\ r = RemoveAt(q, i)
         /\ DOMAIN r = 1 .. n - 1
         /\ \A j \in 1 .. n - 1 : r[j] = q[IF j < i THEN j ELSE j + 1]
    BY <1>1, RemoveAtEntries
<1>3. ASSUME NEW j \in DOMAIN q, j # i
      PROVE  \E m \in DOMAIN r : r[m] = q[j]
  <2>1. CASE j < i
    <3>1. j \in 1 .. n - 1
        BY <1>1, <2>1
    <3>2. r[j] = q[IF j < i THEN j ELSE j + 1]
        BY <1>2, <3>1
    <3> QED
        BY <1>2, <2>1, <3>1, <3>2
  <2>2. CASE j > i
    <3>1. j - 1 \in 1 .. n - 1 /\ ~ (j - 1 < i) /\ j - 1 + 1 = j
        BY <1>1, <2>2
    <3>2. r[j - 1] = q[IF j - 1 < i THEN j - 1 ELSE j - 1 + 1]
        BY <1>2, <3>1
    <3> QED
        BY <1>2, <3>1, <3>2
  <2> QED
      BY <1>1, <1>3, <2>1, <2>2
<1> QED
    BY <1>2, <1>3

(* remove(c) takes one packet of id c off the queue, if there is one, ... *)
LEMMA UnqueueEntries ==
    ASSUME NEW S, NEW q \in Seq(S), NEW c
    PROVE  \/ /\ Unqueue(q, c) = q
              /\ \A i \in DOMAIN q : q[i].cid # c
           \/ \E i \in DOMAIN q :
                /\ q[i].cid = c
                /\ Unqueue(q, c) = RemoveAt(q, i)
<1> DEFINE hits == {i \in DOMAIN q : q[i].cid = c}
<1>1. Unqueue(q, c) = IF hits = {} THEN q ELSE RemoveAt(q, Min(hits))
    BY DEF Unqueue
<1>2. DOMAIN q = 1 .. Len(q) /\ Len(q) \in Nat
    BY LenProperties
<1>3. CASE hits = {}
    BY <1>1, <1>3
<1>4. CASE hits # {}
  <2>1. hits \in SUBSET Nat
      BY <1>2
  <2>2. PICK i \in hits : i = Min(hits)
    <3> HIDE DEF hits
    <3> QED
        BY <1>4, <2>1, LeastElement
  <2> QED
      BY <1>1, <1>4, <2>2
<1> QED
    BY <1>3, <1>4

(* ... and nothing else. *)
LEMMA UnqueueKeeps ==
    ASSUME NEW S, NEW q \in Seq(S), NEW c
    PROVE  /\ Unqueue(q, c) \in Seq(S)
           /\ \A j \in DOMAIN q : q[j].cid # c =>
                 \E m \in DOMAIN Unqueue(q, c) : Unqueue(q, c)[m] = q[j]
<1>1. CASE Unqueue(q, c) = q
    BY <1>1
<1>2. ASSUME NEW i \in DOMAIN q, q[i].cid = c,
             Unqueue(q, c) = RemoveAt(q, i)
      PROVE  /\ Unqueue(q, c) \in Seq(S)
             /\ \A j \in DOMAIN q : q[j].cid # c =>
                   \E m \in DOMAIN Unqueue(q, c) : Unqueue(q, c)[m] = q[j]
  <2>1. i \in 1 .. Len(q)
      BY LenProperties
  <2> QED
      BY <1>2, <2>1, RemoveAtKeeps
<1> QED
    BY <1>1, <1>2, UnqueueEntries

(* A packet of another call stays queued when one is taken off, ... *)
LEMMA UnqueueQueued ==
    ASSUME NEW S, NEW q \in Seq(S), NEW c, NEW p, Queued(q, p), p.cid # c
    PROVE  Queued(Unqueue(q, c), p)
<1>1. PICK j \in DOMAIN q : q[j] = p
    BY DEF Queued
<1>2. q[j].cid # c
    BY <1>1
<1>3. \A i \in DOMAIN q : q[i].cid # c =>
         \E m \in DOMAIN Unqueue(q, c) : Unqueue(q, c)[m] = q[i]
    BY UnqueueKeeps
<1>4. PICK m \in DOMAIN Unqueue(q, c) : Unqueue(q, c)[m] = q[j]
    BY <1>2, <1>3
<1> QED
    BY <1>1, <1>4 DEF Queued

(* ... and when a packet is queued behind it. *)
LEMMA AppendQueued ==
    ASSUME NEW S, NEW q \in Seq(S), NEW e \in S
    PROVE  /\ Queued(Append(q, e), e)
           /\ \A p : Queued(q, p) => Queued(Append(q, e), p)
<1>1. Len(q) \in Nat /\ DOMAIN q = 1 .. Len(q)
    BY LenProperties
<1>2. /\ Len(Append(q, e)) = Len(q) + 1
      /\ \A i \in 1 .. Len(q) : Append(q, e)[i] = q[i]
      /\ Append(q, e)[Len(q) + 1] = e
      /\ Append(q, e) \in Seq(S)
    BY AppendProperties
<1>3. DOMAIN Append(q, e) = 1 .. Len(q) + 1
    BY <1>2, LenProperties
<1>4. Queued(Append(q, e), e)
    BY <1>1, <1>2, <1>3 DEF Queued
<1>5. ASSUME NEW p, Queued(q, p)
      PROVE  Queued(Append(q, e), p)
  <2>1. PICK i \in 1 .. Len(q) : q[i] = p
      BY <1>1, <1>5 DEF Queued
  <2>2. i \in 1 .. Len(q) + 1 /\ Append(q, e)[i] = p
      BY <1>1, <1>2, <2>1
  <2> QED
      BY <1>3, <2>2 DEF Queued
<1> QED
    BY <1>4, <1>5

-----------------------------------------------------------------------------
(* Type correctness. *)

(* The types hold at first, ... *)
LEMMA TypeInit == Init => TypeOK
<1> SUFFICES ASSUME Init
             PROVE  TypeOK
    OBVIOUS
<1>1. /\ <<>> \in Seq(Request \cup Return) /\ <<>> \in Seq(Signal)
      /\ <<>> \in Seq(Job)
    BY EmptySeq
<1> QED
    BY <1>1 DEF Init, TypeOK, Stage, Live, Active, Parked

(* A call that leaves the table takes the next one out of parking, if any. *)
LEMMA FinishType ==
    ASSUME TypeOK, NEW k \in Live, NEW r \in Reason,
           NEW data \in Payload \cup {None}, NEW q \in Seq(Request \cup Return),
           Finish(k, r, data, q)
    PROVE  /\ stage' \in [Call -> Stage]
           /\ request' \in [Call -> Request \cup {None}]
           /\ \A j \in Live' : request'[j] \in Request
           /\ sendq' \in Seq(Request \cup Return)
           /\ jobs' \in Seq(Job)
           /\ named' \in SUBSET Call
<1>1. k \in Call /\ request \in [Call -> Request \cup {None}]
      /\ stage \in [Call -> Stage] /\ jobs \in Seq(Job) /\ named \in SUBSET Call
    BY DEF TypeOK, Live, Active, Parked
<1>2. request' = [request EXCEPT ![k] = None] /\ named' = named \ {k}
      /\ jobs' = Append(jobs, [job |-> "finished", call |-> k, reason |-> r,
                               data |-> data])
    BY DEF Finish
<1>3. [job |-> "finished", call |-> k, reason |-> r, data |-> data] \in Job
    BY <1>1 DEF Job, Completion
<1>4. jobs' \in Seq(Job)
    BY <1>1, <1>2, <1>3, AppendProperties
<1>5. CASE stage' = [stage EXCEPT ![k] = "done"] /\ sendq' = q
    BY <1>1, <1>2, <1>4, <1>5 DEF TypeOK, Live, Active, Parked, Stage
<1>6. ASSUME NEW n \in Newest(Parked \ {k}),
             stage' = [stage EXCEPT ![k] = "done", ![n] = "active"],
             sendq' = Append(q, request[n])
      PROVE  /\ stage' \in [Call -> Stage]
             /\ \A j \in Live' : request'[j] \in Request
             /\ sendq' \in Seq(Request \cup Return)
  <2>1. n \in Parked /\ n # k /\ n \in Call
      BY DEF Newest, Parked
  <2>2. request[n] \in Request
      BY <2>1 DEF TypeOK, Live
  <2>3. sendq' \in Seq(Request \cup Return)
      BY <2>2, <1>6, AppendProperties
  <2> QED
      BY <1>1, <1>2, <1>6, <2>1, <2>2, <2>3 DEF TypeOK, Live, Active, Parked, Stage
<1> QED
    BY <1>1, <1>2, <1>4, <1>5, <1>6 DEF Finish, OutgoingCallFinished

(* ... what goes to the feedback queue has them, ... *)
LEMMA FeedbackType ==
    ASSUME TypeOK, NEW kind \in {"ack", "nak", "exception"}, NEW c \in Cid
    PROVE  Append(fbq, Feedback(kind, c)) \in Seq(Signal)
<1>1. Feedback(kind, c) \in Signal
    BY DEF Feedback, Signal
<1> QED
    BY <1>1, AppendProperties DEF TypeOK

(* Every packet carries an id, and a call or a return an argument. *)
LEMMA PacketFields ==
    /\ \A p \in Packet : p.cid \in Cid
    /\ \A p \in Request \cup Return : p.data \in Payload
    /\ \A p \in Packet : p.kind \in {"call", "unknown"} => p \in Request
    /\ \A p \in Packet : p.kind = "return" => p \in Return
BY DEF Packet, Request, Return, Signal

(* ... do_call keeps them ... *)
LEMMA DoCallType ==
    ASSUME TypeOK, NEW p \in Request, DoCall(p)
    PROVE  TypeOK'
<1>1. PICK k \in Call :
         /\ stage[k] = "unborn"
         /\ request' = [request EXCEPT ![k] = p]
         /\ \/ /\ stage' = [stage EXCEPT ![k] = "parked"]
               /\ UNCHANGED sendq
            \/ /\ stage' = [stage EXCEPT ![k] = "active"]
               /\ sendq' = Append(sendq, p)
         /\ named' = IF rpkt # None /\ rpkt.cid = p.cid
                     THEN named \cup {k} ELSE named
    BY DEF DoCall
<1>2. UNCHANGED <<inc, fbq, jobs, pool, recvVars>>
    BY DEF DoCall
<1>3. Append(sendq, p) \in Seq(Request \cup Return)
    BY AppendProperties DEF TypeOK
<1>4. sendq' \in Seq(Request \cup Return) /\ named' \in SUBSET Call
    BY <1>1, <1>3 DEF TypeOK
<1>5. stage' \in [Call -> Stage] /\ request' \in [Call -> Request \cup {None}]
    BY <1>1 DEF TypeOK, Stage
<1>6. \A j \in Live' : request'[j] \in Request
    BY <1>1 DEF TypeOK, Live, Active, Parked
<1> QED
    BY <1>2, <1>4, <1>5, <1>6 DEF TypeOK, pool, recvVars

(* Steps of an endpoint, however long its queues are. *)
Moves ==
    \/ \E c \in Cid, d \in Sized :
          DoCall([kind |-> "call", cid |-> c, data |-> d])
    \/ \E k \in Call : Cancel(k)
    \/ Expiry
    \/ \E p \in Packet : Receive(p)
    \/ Process
    \/ \E w \in Worker : Work(w)
    \/ \E p \in Packet : SendFeedback(p)

(* ... and so does every step, also where the peer is not held back. *)
LEMMA TypeStep == TypeOK /\ [Moves]_vars => TypeOK'
<1> SUFFICES ASSUME TypeOK, [Moves]_vars
             PROVE  TypeOK'
    OBVIOUS
<1> USE EarpcAssumption
<1>1. ASSUME NEW c \in Cid, NEW d \in Sized,
             DoCall([kind |-> "call", cid |-> c, data |-> d])
      PROVE  TypeOK'
  <2>1. [kind |-> "call", cid |-> c, data |-> d] \in Request
      BY DEF Request
  <2> QED
      BY <1>1, <2>1, DoCallType
<1>2. ASSUME NEW k \in Call, NEW r \in Reason, k \in Live,
             Finish(k, r, None, Unqueue(sendq, request[k].cid)),
             UNCHANGED <<inc, fbq, pool, recvVars>>
      PROVE  TypeOK'
  <2>1. Unqueue(sendq, request[k].cid) \in Seq(Request \cup Return)
      BY UnqueueKeeps DEF TypeOK
  <2> QED
      BY <1>2, <2>1, FinishType DEF TypeOK, pool, recvVars
<1>3. ASSUME NEW k \in Call, Cancel(k) \/ ExpireOutgoing(k)
      PROVE  TypeOK'
    BY <1>2, <1>3 DEF Cancel, ExpireOutgoing, Live, Reason
<1>4. ASSUME NEW c \in Cid, ExpireIncoming(c)
      PROVE  TypeOK'
  <2>1. Unqueue(sendq, c) \in Seq(Request \cup Return)
      BY UnqueueKeeps DEF TypeOK
  <2> QED
      BY <1>4, <2>1
      DEF ExpireIncoming, TypeOK, tables, pool, recvVars, Live, Active, Parked
<1>5. ASSUME NEW p \in Packet, RecvAnswer(p)
      PROVE  TypeOK'
  <2>1. Unqueue(sendq, p.cid) \in Seq(Request \cup Return)
      BY UnqueueKeeps DEF TypeOK
  <2>2. named' \in SUBSET Call
      BY <1>5 DEF RecvAnswer, Outgoing, TypeOK, Live, Active, Parked
  <2>3. p # None
      OBVIOUS
  <2> QED
      BY <1>5, <2>1, <2>2, <2>3, PacketFields
      DEF RecvAnswer, TypeOK, tables, pool, Live, Active, Parked
<1>6. ASSUME NEW p \in Packet, RecvException(p)
      PROVE  TypeOK'
    BY <1>6, FeedbackType, PacketFields
    DEF RecvException, TypeOK, tables, pool, recvVars, Live, Active, Parked
<1>7. ASSUME NEW p \in Packet, RecvCall(p)
      PROVE  TypeOK'
  <2>1. p # None /\ p \in Request /\ p.cid \in Cid
      BY <1>7, PacketFields DEF RecvCall
  <2>2. \A kind \in {"ack", "nak"} : Append(fbq, Feedback(kind, p.cid)) \in Seq(Signal)
      BY <2>1, FeedbackType
  <2>3. fbq' \in Seq(Signal)
      BY <1>7, <2>2 DEF RecvCall, TypeOK
  <2> QED
      BY <1>7, <2>1, <2>3
      DEF RecvCall, TypeOK, tables, pool, recvVars, Live, Active, Parked
<1>8. CASE Process
  <2>1. CASE ProcessReturn
    <3>1. rpkt \in Return /\ rpkt.cid \in Cid /\ rpkt.data \in Payload
        BY <2>1 DEF ProcessReturn, TypeOK, Return
    <3>2. \A kind \in {"ack", "nak"} :
             Append(fbq, Feedback(kind, rpkt.cid)) \in Seq(Signal)
        BY <3>1, FeedbackType
    <3>3. fbq' \in Seq(Signal)
        BY <2>1, <3>2 DEF ProcessReturn
    <3>4. UNCHANGED <<inc, pool>> /\ RecvDone
        BY <2>1 DEF ProcessReturn
    <3>5. ASSUME NEW k \in Outgoing(rpkt.cid),
                 Finish(k, "success", rpkt.data, sendq)
                    \/ Finish(k, "size_mismatch", None, sendq)
          PROVE  TypeOK'
      <4>1. k \in Live /\ sendq \in Seq(Request \cup Return)
          BY DEF Outgoing, TypeOK
      <4>2. "success" \in Reason /\ "size_mismatch" \in Reason
          BY DEF Reason
      <4> QED
          BY <3>1, <3>3, <3>4, <3>5, <4>1, <4>2, FinishType
          DEF TypeOK, RecvDone, pool
    <3>6. CASE UNCHANGED <<tables, sendq, jobs, named>>
        BY <3>3, <3>4, <3>6
        DEF TypeOK, RecvDone, tables, pool, Live, Active, Parked
    <3> QED
        BY <2>1, <3>5, <3>6 DEF ProcessReturn
  <2>2. CASE ProcessAck
      BY <2>2, PacketFields
      DEF ProcessAck, RecvDone, TypeOK, tables, pool, Live, Active, Parked
  <2>3. CASE ProcessNak
      BY <2>3, PacketFields
      DEF ProcessNak, RecvDone, TypeOK, tables, pool, Live, Active, Parked
  <2>4. CASE ProcessNakOutgoing
    <3>1. UNCHANGED <<inc, fbq, pool>> /\ RecvDone
        BY <2>4 DEF ProcessNakOutgoing
    <3>2. ASSUME NEW k \in Outgoing(rpkt.cid), Finish(k, "rejected", None, sendq)
          PROVE  TypeOK'
      <4>1. k \in Live /\ sendq \in Seq(Request \cup Return)
            /\ "rejected" \in Reason
          BY DEF Outgoing, TypeOK, Reason
      <4> QED
          BY <3>1, <3>2, <4>1, FinishType DEF TypeOK, RecvDone, pool
    <3>3. CASE UNCHANGED <<tables, sendq, jobs, named>>
        BY <3>1, <3>3
        DEF TypeOK, RecvDone, tables, pool, Live, Active, Parked
    <3> QED
        BY <2>4, <3>2, <3>3 DEF ProcessNakOutgoing
  <2>5. CASE ProcessCallCheck
    <3>1. rpkt \in Request /\ rpkt.cid \in Cid
        BY <2>5 DEF ProcessCallCheck, TypeOK, Request
    <3>2. \A kind \in {"ack", "nak"} :
             Append(fbq, Feedback(kind, rpkt.cid)) \in Seq(Signal)
        BY <3>1, FeedbackType
    <3> QED
        BY <2>5, <3>1, <3>2
        DEF ProcessCallCheck, RecvDone, TypeOK, tables, pool, Live, Active, Parked
  <2>6. CASE ProcessCallPush
    <3>1. rpkt.cid \in Cid /\ rpkt.data \in Payload
        BY <2>6 DEF ProcessCallPush, TypeOK, Request
    <3>2. [job |-> "serve", cid |-> rpkt.cid, data |-> rpkt.data] \in Job
        BY <3>1 DEF Job, Service
    <3>3. jobs' \in Seq(Job)
        BY <2>6, <3>2, AppendProperties DEF ProcessCallPush, TypeOK
    <3>4. named' \in SUBSET Call
        BY <2>6 DEF ProcessCallPush, TypeOK, Outgoing, Live, Active, Parked
    <3> QED
        BY <2>6, <3>1, <3>3, <3>4
        DEF ProcessCallPush, RecvDone, TypeOK, tables, pool, Live, Active, Parked
  <2> QED
      BY <1>8, <2>1, <2>2, <2>3, <2>4, <2>5, <2>6 DEF Process
<1>9. ASSUME NEW w \in Worker, Work(w)
      PROVE  TypeOK'
  <2>1. CASE Take(w)
    <3>1. Head(jobs) \in Job /\ Tail(jobs) \in Seq(Job)
        BY <2>1, HeadTailProperties DEF Take, TypeOK
    <3> QED
        BY <2>1, <3>1
        DEF Take, TypeOK, tables, pool, recvVars, Live, Active, Parked
  <2>2. CASE Report(w)
    <3>1. running[w] \in Completion
        BY <2>2 DEF Report, TypeOK, Job, Service
    <3>2. running[w].call \in Call
        BY <3>1 DEF Completion
    <3> QED
        BY <2>2, <3>2
        DEF Report, TypeOK, tables, recvVars, Live, Active, Parked
  <2>3. ASSUME NEW d \in Sized, Respond(w, d)
        PROVE  TypeOK'
    <3>1. running[w] \in Service
        BY <2>3 DEF Respond, TypeOK, Job, Completion
    <3>2. [kind |-> "return", cid |-> running[w].cid, data |-> d] \in Return
        BY <3>1 DEF Service, Return
    <3>3. sendq' \in Seq(Request \cup Return)
        BY <2>3, <3>2, AppendProperties DEF Respond, TypeOK
    <3> QED
        BY <2>3, <3>3
        DEF Respond, TypeOK, tables, recvVars, Live, Active, Parked
  <2> QED
      BY <1>9, <2>1, <2>2, <2>3 DEF Work
<1>10. ASSUME NEW p \in Packet, SendFeedback(p)
       PROVE  TypeOK'
    BY <1>10, HeadTailProperties
    DEF SendFeedback, TypeOK, tables, pool, recvVars, Live, Active, Parked
<1>11. CASE UNCHANGED vars
    BY <1>11
    DEF vars, TypeOK, Live, Active, Parked
<1> QED
    BY <1>1, <1>3, <1>4, <1>5, <1>6, <1>7, <1>8, <1>9, <1>10, <1>11
    DEF Moves, Expiry, Receive

(* Where it is held back it takes no other step. *)
LEMMA NextMoves == [Next]_vars => [Moves]_vars
BY DEF Next, Moves

(* The tables, queues and worker slots hold what the code declares, in     *)
(* every reachable state.                                                  *)
THEOREM TypeCorrect == Spec => []TypeOK
<1>1. TypeOK /\ [Next]_vars => TypeOK'
    BY TypeStep, NextMoves
<1> QED
    BY <1>1, TypeInit, PTL DEF Spec

-----------------------------------------------------------------------------
(* Safety of the outgoing calls.  The inductive invariant adds to the      *)
(* properties what the threads know between two of their locks: a packet   *)
(* being processed, or a call on the incoming table, has named whatever    *)
(* outgoing call has its id.  Without it a removal from the send queue     *)
(* could hit a call the peer knows nothing of.                             *)
Answering == rpc \in {"ack", "nak", "return", "rejected"}

(* The calls counted as named are on the table, and the packet in hand has *)
(* named those with its id.                                                *)
NamedKnown ==
    /\ \A c \in Cid : inc[c] # None => Outgoing(c) \subseteq named
    /\ Answering => Outgoing(rpkt.cid) \subseteq named

(* The inductive invariant. *)
IInv == TypeOK /\ OneAtATime /\ UniqueIds /\ Resent /\ NamedKnown

(* The inductive invariant holds at first, ... *)
LEMMA IInvInit == Init => IInv
<1> SUFFICES ASSUME Init
             PROVE  IInv
    OBVIOUS
<1>1. TypeOK
    BY TypeInit
<1>2. Live = {}
    BY DEF Init, Live, Active, Parked
<1> QED
    BY <1>1, <1>2
    DEF Init, IInv, OneAtATime, UniqueIds, Resent, NamedKnown, Answering,
        Outgoing, Live

(* The table after a call was added: the other calls stay as they were. *)
LEMMA DoCallSafe ==
    ASSUME IInv, NEW p \in Request, DoCall(p), TypeOK'
    PROVE  IInv'
<1>1. PICK k \in Call :
         /\ stage[k] = "unborn"
         /\ request' = [request EXCEPT ![k] = p]
         /\ \/ /\ Active # {}
               /\ stage' = [stage EXCEPT ![k] = "parked"]
               /\ UNCHANGED sendq
            \/ /\ Active = {}
               /\ stage' = [stage EXCEPT ![k] = "active"]
               /\ sendq' = Append(sendq, p)
         /\ named' = IF rpkt # None /\ rpkt.cid = p.cid
                     THEN named \cup {k} ELSE named
    BY DEF DoCall
<1>2. /\ Outgoing(p.cid) = {} /\ inc[p.cid] = None
      /\ UNCHANGED <<inc, rpc, rpkt>>
    BY DEF DoCall, recvVars
<1>3. stage \in [Call -> Stage] /\ request \in [Call -> Request \cup {None}]
    BY DEF IInv, TypeOK
<1>4. k \notin Live /\ Live' = Live \cup {k} /\ request'[k] = p
      /\ \A j \in Live : request'[j] = request[j]
    BY <1>1, <1>3 DEF Live, Active, Parked
<1>5. OneAtATime'
    BY <1>1, <1>3 DEF IInv, OneAtATime, Active, Parked
<1>6. UniqueIds'
    BY <1>2, <1>4 DEF IInv, UniqueIds, Outgoing
<1>7. Resent'
  <2>1. \A j \in Active : j \in named' \/ Queued(sendq', request'[j])
    <3>1. \A j \in Active : j \in named \/ Queued(sendq, request[j])
        BY DEF IInv, Resent
    <3>2. \A j \in Active : Queued(sendq, request[j]) => Queued(sendq', request[j])
        BY <1>1, AppendQueued DEF IInv, TypeOK
    <3> QED
        BY <1>1, <1>4, <3>1, <3>2 DEF Live
  <2>2. CASE stage' = [stage EXCEPT ![k] = "parked"]
    <3>1. Active' = Active
        BY <1>1, <1>3, <2>2 DEF Active
    <3> QED
        BY <2>1, <3>1 DEF Resent
  <2>3. CASE stage' = [stage EXCEPT ![k] = "active"] /\ sendq' = Append(sendq, p)
    <3>1. Active' \subseteq Active \cup {k}
        BY <1>3, <2>3 DEF Active
    <3>2. Queued(sendq', request'[k])
        BY <1>4, <2>3, AppendQueued DEF IInv, TypeOK
    <3> QED
        BY <2>1, <3>1, <3>2 DEF Resent
  <2> QED
      BY <1>1, <2>2, <2>3
<1>8. NamedKnown'
  <2>1. \A c \in Cid : Outgoing(c)' \subseteq Outgoing(c) \cup {j \in {k} : p.cid = c}
      BY <1>4 DEF Outgoing
  <2> QED
      BY <1>1, <1>2, <2>1, PacketFields DEF IInv, TypeOK, NamedKnown, Answering
<1> QED
    BY <1>5, <1>6, <1>7, <1>8 DEF IInv

(* A call left the table, and q is what its packet's removal left of the   *)
(* send queue: whoever ended the call, the rest is safe if q still has the *)
(* packets of the other calls.                                             *)
LEMMA FinishSafe ==
    ASSUME IInv, NEW k \in Live, NEW r \in Reason,
           NEW data \in Payload \cup {None}, NEW q \in Seq(Request \cup Return),
           Finish(k, r, data, q), TypeOK',
           \A j \in Active \ {k} : j \in named \/ Queued(q, request[j]),
           UNCHANGED inc, rpc' = "idle" \/ UNCHANGED <<rpc, rpkt>>
    PROVE  IInv'
<1>1. k \in Call /\ stage \in [Call -> Stage]
      /\ request \in [Call -> Request \cup {None}]
    BY DEF Live, Active, Parked, IInv, TypeOK
<1>2. request' = [request EXCEPT ![k] = None] /\ named' = named \ {k}
    BY DEF Finish
<1>3. \/ /\ Active \ {k} # {} \/ Parked \ {k} = {}
         /\ stage' = [stage EXCEPT ![k] = "done"]
         /\ sendq' = q
      \/ /\ Active \ {k} = {}
         /\ \E n \in Parked \ {k} :
               /\ stage' = [stage EXCEPT ![k] = "done", ![n] = "active"]
               /\ sendq' = Append(q, request[n])
    BY DEF Finish, OutgoingCallFinished, Newest
<1>4. Live' = Live \ {k} /\ \A j \in Live' : request'[j] = request[j]
    BY <1>1, <1>2, <1>3 DEF Live, Active, Parked
<1>5. OneAtATime'
    BY <1>1, <1>3 DEF IInv, OneAtATime, Active, Parked
<1>6. UniqueIds'
    BY <1>4 DEF IInv, UniqueIds
<1>7. Resent'
  <2>1. CASE stage' = [stage EXCEPT ![k] = "done"] /\ sendq' = q
    <3>1. Active' = Active \ {k}
        BY <1>1, <2>1 DEF Active
    <3> QED
        BY <1>2, <1>4, <2>1, <3>1 DEF Resent, Live
  <2>2. ASSUME NEW n \in Parked \ {k}, Active \ {k} = {},
               stage' = [stage EXCEPT ![k] = "done", ![n] = "active"],
               sendq' = Append(q, request[n])
        PROVE  Resent'
    <3>1. Active' = {n}
        BY <1>1, <2>2 DEF Active, Parked
    <3>2. request[n] \in Request /\ request'[n] = request[n]
        BY <1>1, <1>2 DEF IInv, TypeOK, Live, Parked
    <3>3. Queued(sendq', request'[n])
        BY <2>2, <3>2, AppendQueued
    <3> QED
        BY <3>1, <3>3 DEF Resent
  <2> QED
      BY <1>3, <2>1, <2>2
<1>8. NamedKnown'
  <2>1. \A c : Outgoing(c)' = Outgoing(c) \ {k}
      BY <1>4 DEF Outgoing
  <2> QED
      BY <1>2, <2>1 DEF IInv, NamedKnown, Answering
<1> QED
    BY <1>5, <1>6, <1>7, <1>8 DEF IInv

(* ... every step keeps it, ... *)
LEMMA IInvStep == IInv /\ [Next]_vars => IInv'
<1> SUFFICES ASSUME IInv, [Next]_vars
             PROVE  IInv'
    OBVIOUS
<1> USE EarpcAssumption
<1>0. TypeOK /\ TypeOK'
    BY TypeStep, NextMoves DEF IInv
<1>a. ASSUME UNCHANGED <<tables, named>>,
             \A j \in Active : j \in named \/ Queued(sendq', request[j]),
             \A c \in Cid : inc'[c] # None => Outgoing(c) \subseteq named,
             Answering' => Outgoing(rpkt'.cid) \subseteq named
      PROVE  IInv'
    BY <1>0, <1>a
    DEF IInv, OneAtATime, UniqueIds, Resent, NamedKnown, Outgoing, Live,
        Active, Parked, tables
<1>1. ASSUME NEW c \in Cid, NEW d \in Sized,
             DoCall([kind |-> "call", cid |-> c, data |-> d])
      PROVE  IInv'
  <2>1. [kind |-> "call", cid |-> c, data |-> d] \in Request
      BY DEF Request
  <2> QED
      BY <1>0, <1>1, <2>1, DoCallSafe
<1>2. ASSUME NEW k \in Live, NEW r \in Reason,
             Finish(k, r, None, Unqueue(sendq, request[k].cid)),
             UNCHANGED <<inc, fbq, pool, recvVars>>
      PROVE  IInv'
  <2>1. Unqueue(sendq, request[k].cid) \in Seq(Request \cup Return)
      BY <1>0, UnqueueKeeps DEF TypeOK
  <2>2. ASSUME NEW j \in Active \ {k}, j \notin named
        PROVE  Queued(Unqueue(sendq, request[k].cid), request[j])
    <3>1. Queued(sendq, request[j]) /\ request[j].cid # request[k].cid
        BY <2>2 DEF IInv, Resent, UniqueIds, Live
    <3> QED
        BY <1>0, <3>1, UnqueueQueued DEF TypeOK
  <2> QED
      BY <1>0, <1>2, <2>1, <2>2, FinishSafe DEF recvVars
<1>3. ASSUME NEW k \in Call, Cancel(k) \/ ExpireOutgoing(k)
      PROVE  IInv'
    BY <1>2, <1>3 DEF Cancel, ExpireOutgoing, Live, Reason
<1>4. ASSUME NEW c \in Cid, ExpireIncoming(c)
      PROVE  IInv'
  <2>1. ASSUME NEW j \in Active, j \notin named
        PROVE  Queued(sendq', request[j])
    <3>1. request[j].cid # c
        BY <1>4, <2>1 DEF ExpireIncoming, IInv, NamedKnown, Outgoing, Live
    <3>2. Queued(sendq, request[j])
        BY <2>1 DEF IInv, Resent
    <3> QED
        BY <1>0, <1>4, <3>1, <3>2, UnqueueQueued DEF ExpireIncoming, TypeOK
  <2> QED
      BY <1>0, <1>4, <1>a, <2>1
      DEF ExpireIncoming, IInv, NamedKnown, Answering, TypeOK, recvVars
<1>5. ASSUME NEW p \in Packet, RecvAnswer(p)
      PROVE  IInv'
  <2>1. /\ named' = named \cup Outgoing(p.cid)
        /\ sendq' = Unqueue(sendq, p.cid)
        /\ rpkt' = p
        /\ UNCHANGED <<tables, inc>>
      BY <1>5 DEF RecvAnswer
  <2>2. Live' = Live /\ Active' = Active /\ \A c : Outgoing(c)' = Outgoing(c)
      BY <2>1 DEF tables, Live, Active, Parked, Outgoing
  <2>3. ASSUME NEW j \in Active, j \notin named'
        PROVE  Queued(sendq', request[j])
    <3>1. request[j].cid # p.cid /\ j \notin named
        BY <2>1, <2>3 DEF Outgoing, Live
    <3>2. Queued(sendq, request[j])
        BY <3>1 DEF IInv, Resent
    <3> QED
        BY <1>0, <2>1, <3>1, <3>2, UnqueueQueued DEF TypeOK
  <2>4. Resent'
      BY <2>1, <2>2, <2>3 DEF Resent, tables
  <2>5. OneAtATime' /\ UniqueIds'
      BY <2>1 DEF IInv, OneAtATime, UniqueIds, tables, Live, Active, Parked
  <2>6. NamedKnown'
      BY <2>1, <2>2 DEF IInv, NamedKnown
  <2> QED
      BY <1>0, <2>4, <2>5, <2>6 DEF IInv
<1>6. ASSUME NEW p \in Packet, RecvException(p) \/ RecvCall(p)
      PROVE  IInv'
  <2>1. UNCHANGED <<tables, inc, sendq, named>>
      BY <1>6 DEF RecvException, RecvCall
  <2>2. ~ Answering' \/ UNCHANGED <<rpc, rpkt>>
      BY <1>6 DEF RecvException, RecvCall, Answering, recvVars
  <2> QED
      BY <1>0, <1>a, <2>1, <2>2 DEF IInv, Resent, NamedKnown, Answering
<1>7. ASSUME NEW k \in Outgoing(rpkt.cid), NEW r \in Reason,
             NEW data \in Payload \cup {None}, Answering,
             Finish(k, r, data, sendq), UNCHANGED inc, RecvDone
      PROVE  IInv'
  <2>1. k \in Live /\ sendq \in Seq(Request \cup Return)
      BY <1>0 DEF Outgoing, TypeOK
  <2>2. \A j \in Active \ {k} : j \in named \/ Queued(sendq, request[j])
      BY DEF IInv, Resent
  <2> QED
      BY <1>0, <1>7, <2>1, <2>2, FinishSafe DEF RecvDone
<1>8. ASSUME UNCHANGED <<tables, sendq, named>>, RecvDone \/ ~ Answering',
             \A c \in Cid : inc'[c] # None => Outgoing(c) \subseteq named
      PROVE  IInv'
  <2>1. ~ Answering'
      BY <1>8 DEF RecvDone, Answering
  <2> QED
      BY <1>8, <1>a, <2>1 DEF IInv, Resent
<1>9. CASE ProcessReturn
  <2>1. rpkt.data \in Payload /\ Answering
      BY <1>0, <1>9 DEF ProcessReturn, TypeOK, Return, Answering
  <2>2. CASE UNCHANGED <<tables, sendq, jobs, named>>
      BY <1>8, <1>9, <2>2 DEF ProcessReturn, pool, IInv, NamedKnown
  <2>3. ASSUME NEW k \in Outgoing(rpkt.cid),
               Finish(k, "success", rpkt.data, sendq)
                  \/ Finish(k, "size_mismatch", None, sendq)
        PROVE  IInv'
    <3>1. "success" \in Reason /\ "size_mismatch" \in Reason
        BY DEF Reason
    <3> QED
        BY <1>7, <1>9, <2>1, <2>3, <3>1 DEF ProcessReturn
  <2> QED
      BY <1>9, <2>2, <2>3 DEF ProcessReturn
<1>10. CASE ProcessAck
  <2>1. \A c \in Cid : inc'[c] # None => inc[c] # None
      BY <1>0, <1>10 DEF ProcessAck, TypeOK
  <2> QED
      BY <1>8, <1>10, <2>1 DEF ProcessAck, IInv, NamedKnown
<1>11. CASE ProcessNak
  <2>1. \A c \in Cid : inc'[c] # None => inc[c] # None
      BY <1>0, <1>11 DEF ProcessNak, TypeOK
  <2>2. UNCHANGED <<tables, sendq, named>>
      BY <1>11 DEF ProcessNak
  <2>3. Outgoing(rpkt.cid) \subseteq named
      BY <1>11 DEF ProcessNak, IInv, NamedKnown, Answering
  <2>4. RecvDone \/ UNCHANGED rpkt
      BY <1>11 DEF ProcessNak
  <2>5. CASE RecvDone
      BY <1>8, <2>1, <2>2, <2>5 DEF IInv, NamedKnown
  <2>6. CASE UNCHANGED rpkt
      BY <1>a, <2>1, <2>2, <2>3, <2>6 DEF IInv, NamedKnown, Resent
  <2> QED
      BY <2>4, <2>5, <2>6
<1>12. CASE ProcessNakOutgoing
  <2>1. CASE UNCHANGED <<tables, sendq, jobs, named>>
      BY <1>8, <1>12, <2>1 DEF ProcessNakOutgoing, IInv, NamedKnown
  <2>2. ASSUME NEW k \in Outgoing(rpkt.cid), Finish(k, "rejected", None, sendq)
        PROVE  IInv'
    <3>1. "rejected" \in Reason /\ Answering
        BY <1>12 DEF Reason, Answering, ProcessNakOutgoing
    <3> QED
        BY <1>7, <1>12, <2>2, <3>1 DEF ProcessNakOutgoing
  <2> QED
      BY <1>12, <2>1, <2>2 DEF ProcessNakOutgoing
<1>13. CASE ProcessCallCheck
  <2>1. UNCHANGED <<tables, inc, sendq, named>>
      BY <1>13 DEF ProcessCallCheck
  <2>2. RecvDone \/ rpc' = "push"
      BY <1>13 DEF ProcessCallCheck
  <2> QED
      BY <1>8, <2>1, <2>2 DEF IInv, NamedKnown, Answering
<1>14. CASE ProcessCallPush
  <2>1. /\ named' = named \cup Outgoing(rpkt.cid)
        /\ inc' = [inc EXCEPT ![rpkt.cid] = rpkt.data]
        /\ RecvDone /\ UNCHANGED <<tables, sendq>>
      BY <1>14 DEF ProcessCallPush
  <2>2. Live' = Live /\ Active' = Active /\ \A c : Outgoing(c)' = Outgoing(c)
      BY <2>1 DEF tables, Live, Active, Parked, Outgoing
  <2>3. OneAtATime' /\ UniqueIds'
      BY <2>1 DEF IInv, OneAtATime, UniqueIds, tables, Live, Active, Parked
  <2>4. Resent'
      BY <2>1, <2>2 DEF IInv, Resent, tables
  <2>5. NamedKnown'
      BY <1>0, <2>1, <2>2
      DEF IInv, NamedKnown, Answering, RecvDone, TypeOK
  <2> QED
      BY <1>0, <2>3, <2>4, <2>5 DEF IInv
<1>15. ASSUME NEW w \in Worker, Work(w)
       PROVE  IInv'
  <2>1. UNCHANGED <<tables, inc, recvVars, named>>
      BY <1>15 DEF Work, Take, Report, Respond
  <2>2. sendq' = sendq \/ \E e \in Request \cup Return : sendq' = Append(sendq, e)
    <3>1. CASE Take(w) \/ Report(w)
        BY <3>1 DEF Take, Report
    <3>2. ASSUME NEW d \in Sized, Respond(w, d)
          PROVE  \E e \in Return : sendq' = Append(sendq, e)
      <4>1. running[w] \in Service
          BY <1>0, <3>2 DEF Respond, TypeOK, Job, Completion
      <4>2. [kind |-> "return", cid |-> running[w].cid, data |-> d] \in Return
          BY <4>1 DEF Service, Return
      <4> QED
          BY <3>2, <4>2 DEF Respond
    <3> QED
        BY <1>15, <3>1, <3>2 DEF Work
  <2>3. \A p : Queued(sendq, p) => Queued(sendq', p)
    <3>1. sendq \in Seq(Request \cup Return)
        BY <1>0 DEF TypeOK
    <3>2. ASSUME NEW e \in Request \cup Return, sendq' = Append(sendq, e)
          PROVE  \A p : Queued(sendq, p) => Queued(sendq', p)
        BY <3>1, <3>2, AppendQueued
    <3> QED
        BY <2>2, <3>2
  <2> QED
      BY <1>a, <2>1, <2>3 DEF IInv, NamedKnown, Resent, recvVars, Answering
<1>16. ASSUME UNCHANGED <<tables, inc, sendq, recvVars, named>>
       PROVE  IInv'
    BY <1>a, <1>16 DEF IInv, NamedKnown, Resent, recvVars, Answering
<1>17. ASSUME NEW p \in Packet, SendFeedback(p)
       PROVE  IInv'
    BY <1>16, <1>17 DEF SendFeedback
<1>18. CASE UNCHANGED vars
    BY <1>16, <1>18 DEF vars, tables, recvVars
<1> QED
    BY <1>1, <1>3, <1>4, <1>5, <1>6, <1>9, <1>10, <1>11, <1>12, <1>13, <1>14,
       <1>15, <1>17, <1>18
    DEF Next, Expiry, Process, Receive

(* ... and so it always holds. *)
LEMMA IInvCorrect == Spec => []IInv
<1>1. IInv /\ [Next]_vars => IInv'
    BY IInvStep
<1> QED
    BY <1>1, IInvInit, PTL DEF Spec

(* At most one call is on its way to the peer and none stays parked        *)
(* without one that is, whichever thread ends a call.                      *)
THEOREM OneAtATimeHolds == Spec => []OneAtATime
<1>1. IInv => OneAtATime
    BY DEF IInv
<1> QED
    BY <1>1, IInvCorrect, PTL

(* generate_call_id never gives out the id of a call that is on the table. *)
THEOREM UniqueIdsHold == Spec => []UniqueIds
<1>1. IInv => UniqueIds
    BY DEF IInv
<1> QED
    BY <1>1, IInvCorrect, PTL

(* An active call the peer has not named is in the send queue, so that it  *)
(* is sent again until it ends.                                            *)
THEOREM ResentHolds == Spec => []Resent
<1>1. IInv => Resent
    BY DEF IInv
<1> QED
    BY <1>1, IInvCorrect, PTL

(* A parked call ends only when it is cancelled or when a packet of the    *)
(* peer names its id; it never expires.                                    *)
THEOREM ParkedEndsHolds == Spec => ParkedEnds
<1> DEFINE A == \A k \in Call : stage[k] = "parked" /\ stage'[k] = "done"
                   => Last(jobs').reason = "cancelled" \/ k \in named
<1>1. IInv /\ [Next]_vars => [A]_vars
  <2> SUFFICES ASSUME IInv, Next, NEW k \in Call,
                      stage[k] = "parked", stage'[k] = "done", k \notin named
               PROVE  Last(jobs').reason = "cancelled"
      OBVIOUS
  <2>0. /\ stage \in [Call -> Stage] /\ jobs \in Seq(Job) /\ TypeOK
        /\ \A c \in Cid : Unqueue(sendq, c) \in Seq(Request \cup Return)
      BY UnqueueKeeps DEF IInv, TypeOK
  <2>1. ASSUME NEW j \in Live, NEW r \in Reason, NEW d \in Payload \cup {None},
               NEW q, Finish(j, r, d, q)
        PROVE  j = k /\ Last(jobs').reason = r
    <3>1. j \in Call
        BY DEF Live, Active, Parked
    <3>2. j = k
        BY <2>0, <2>1, <3>1 DEF Finish, OutgoingCallFinished, Newest, Parked
    <3>3. [job |-> "finished", call |-> j, reason |-> r, data |-> d] \in Job
        BY <3>1 DEF Job, Completion
    <3>4. Last(jobs') = [job |-> "finished", call |-> j, reason |-> r, data |-> d]
        BY <2>0, <2>1, <3>3, AppendProperties DEF Finish, Last
    <3> QED
        BY <3>2, <3>4
  <2>2. ASSUME NEW c \in Cid, NEW d \in Sized,
               DoCall([kind |-> "call", cid |-> c, data |-> d])
        PROVE  FALSE
      BY <2>0, <2>2 DEF DoCall
  <2>3. ASSUME NEW j \in Call, Cancel(j)
        PROVE  Last(jobs').reason = "cancelled"
      BY <2>1, <2>3 DEF Cancel, Reason
  <2>4. ASSUME NEW j \in Call, ExpireOutgoing(j)
        PROVE  FALSE
    <3>1. j \in Live /\ stage[j] = "active" /\ "expired" \in Reason
        BY <2>4 DEF ExpireOutgoing, Live, Active, Reason
    <3> QED
        BY <2>1, <2>4, <3>1 DEF ExpireOutgoing
  <2>5. ASSUME NEW j \in Outgoing(rpkt.cid), NEW r \in Reason,
               NEW d \in Payload \cup {None}, Finish(j, r, d, sendq), Answering
        PROVE  FALSE
    <3>1. j = k
        BY <2>1, <2>5 DEF Outgoing
    <3>2. j \in named
        BY <2>5 DEF IInv, NamedKnown
    <3> QED
        BY <3>1, <3>2
  <2>6. CASE ProcessReturn
    <3>1. rpkt.data \in Payload /\ Answering
        BY <2>0, <2>6 DEF ProcessReturn, TypeOK, Return, Answering
    <3>2. "success" \in Reason /\ "size_mismatch" \in Reason
        BY DEF Reason
    <3>3. PICK j \in Outgoing(rpkt.cid) :
             \/ Finish(j, "success", rpkt.data, sendq)
             \/ Finish(j, "size_mismatch", None, sendq)
        BY <2>0, <2>6 DEF ProcessReturn, tables
    <3> QED
        BY <2>5, <3>1, <3>2, <3>3
  <2>7. CASE ProcessNakOutgoing
    <3>1. "rejected" \in Reason /\ Answering
        BY <2>7 DEF Reason, Answering, ProcessNakOutgoing
    <3>2. PICK j \in Outgoing(rpkt.cid) : Finish(j, "rejected", None, sendq)
        BY <2>0, <2>7 DEF ProcessNakOutgoing, tables
    <3> QED
        BY <2>5, <3>1, <3>2
  <2>8. CASE UNCHANGED stage
      BY <2>8
  <2>9. ASSUME NEW c \in Cid, ExpireIncoming(c)
        PROVE  UNCHANGED stage
      BY <2>9 DEF ExpireIncoming, tables
  <2>10. ASSUME NEW p \in Packet,
                \/ RecvAnswer(p) \/ RecvException(p) \/ RecvCall(p)
                \/ SendFeedback(p)
         PROVE  UNCHANGED stage
      BY <2>10 DEF RecvAnswer, RecvException, RecvCall, SendFeedback, tables
  <2>11. ASSUME ProcessAck \/ ProcessNak \/ ProcessCallCheck \/ ProcessCallPush
         PROVE  UNCHANGED stage
      BY <2>11 DEF ProcessAck, ProcessNak, ProcessCallCheck, ProcessCallPush, tables
  <2>12. ASSUME NEW w \in Worker, Work(w)
         PROVE  UNCHANGED stage
      BY <2>12 DEF Work, Take, Report, Respond, tables
  <2> QED
      BY <2>2, <2>3, <2>4, <2>6, <2>7, <2>8, <2>9, <2>10, <2>11, <2>12
      DEF Next, Expiry, Process, Receive
<1>2. Spec => [][A]_vars
  <2> HIDE DEF A
  <2> QED
      BY <1>1, IInvCorrect, PTL DEF Spec
<1> QED
    BY <1>2 DEF ParkedEnds

-----------------------------------------------------------------------------
(* An earpc endpoint implements CallService: the callback of every call    *)
(* that ended runs at most once and is never lost, and the tables behind   *)
(* it show the callers one call under way at a time.                       *)

(* Where the callbacks are, after each of the ways the queue changes. *)

(* ... when a job is put behind the others, *)
LEMMA AppendQueuedAt ==
    ASSUME NEW e \in Job, jobs \in Seq(Job), jobs' = Append(jobs, e),
           NEW k \in Call
    PROVE  QueuedAt(k)' = QueuedAt(k) \cup {i \in {Len(jobs) + 1} : JobOf(e, k)}
<1>1. Len(jobs) \in Nat /\ DOMAIN jobs = 1 .. Len(jobs)
    BY LenProperties
<1>2. /\ Len(jobs') = Len(jobs) + 1 /\ jobs' \in Seq(Job)
      /\ \A i \in 1 .. Len(jobs) : jobs'[i] = jobs[i]
      /\ jobs'[Len(jobs) + 1] = e
    BY AppendProperties
<1>3. DOMAIN jobs' = 1 .. Len(jobs) + 1
    BY <1>2, LenProperties
<1> QED
    BY <1>1, <1>2, <1>3 DEF QueuedAt

(* ... and when the first is taken. *)
LEMMA TailQueuedAt ==
    ASSUME jobs \in Seq(Job), jobs # <<>>, jobs' = Tail(jobs), NEW k \in Call
    PROVE  /\ QueuedAt(k)' = {i \in Nat \ {0} : i + 1 \in QueuedAt(k)}
           /\ 1 \in QueuedAt(k) <=> JobOf(Head(jobs), k)
           /\ \A i \in QueuedAt(k) : i # 1 => i - 1 \in QueuedAt(k)'
<1>1. Len(jobs) \in Nat \ {0} /\ DOMAIN jobs = 1 .. Len(jobs)
    BY LenProperties, EmptySeq
<1>2. /\ Len(jobs') = Len(jobs) - 1 /\ jobs' \in Seq(Job)
      /\ \A i \in 1 .. Len(jobs') : jobs'[i] = jobs[i + 1]
    BY HeadTailProperties
<1>3. DOMAIN jobs' = 1 .. Len(jobs) - 1
    BY <1>2, LenProperties
<1>4. Head(jobs) = jobs[1]
    BY <1>1
<1>5. QueuedAt(k)' = {i \in Nat \ {0} : i + 1 \in QueuedAt(k)}
    BY <1>1, <1>2, <1>3 DEF QueuedAt
<1>6. 1 \in QueuedAt(k) <=> JobOf(Head(jobs), k)
    BY <1>1, <1>4 DEF QueuedAt
<1>7. ASSUME NEW i \in QueuedAt(k), i # 1
      PROVE  i - 1 \in QueuedAt(k)'
  <2>1. i \in 1 .. Len(jobs)
      BY <1>1 DEF QueuedAt
  <2>2. i - 1 \in Nat \ {0} /\ i - 1 + 1 = i
      BY <1>1, <1>7, <2>1
  <2> QED
      BY <1>5, <2>2
<1> QED
    BY <1>5, <1>6, <1>7

-----------------------------------------------------------------------------
(* Every end of a call is told once. *)

(* The inductive invariant of the callbacks. *)
TInv == TypeOK /\ ToldOnce

(* The invariant with ToldOnce holds at first, ... *)
LEMMA TInvInit == Init => TInv
<1> SUFFICES ASSUME Init
             PROVE  ToldOnce
    BY TypeInit DEF TInv
<1>1. \A k \in Call : QueuedAt(k) = {} /\ TakenBy(k) = {}
    BY DEF Init, QueuedAt, TakenBy, JobOf
<1> QED
    BY <1>1 DEF Init, ToldOnce

(* Call k was neither told nor queued before it left the table. *)
LEMMA FinishTold ==
    ASSUME TInv, NEW k \in Live, NEW r \in Reason,
           NEW data \in Payload \cup {None}, NEW q, Finish(k, r, data, q),
           UNCHANGED pool
    PROVE  ToldOnce'
<1> DEFINE e == [job |-> "finished", call |-> k, reason |-> r, data |-> data]
<1>1. /\ k \in Call /\ stage[k] # "done"
      /\ stage \in [Call -> Stage] /\ jobs \in Seq(Job)
    BY DEF Live, Active, Parked, TInv, TypeOK
<1>2. e \in Job /\ jobs' = Append(jobs, e) /\ UNCHANGED <<running, told>>
    BY <1>1 DEF Finish, Job, Completion, pool
<1>3. \A j \in Call : stage'[j] = "done" <=> j = k \/ stage[j] = "done"
    BY <1>1 DEF Finish, OutgoingCallFinished, Newest, Parked
<1>4. \A j \in Call : JobOf(e, j) <=> j = k
  <2>1. e # None
      BY <1>2, EarpcAssumption
  <2> QED
      BY <2>1 DEF JobOf
<1> HIDE DEF e
<1>5. \A j \in Call : TakenBy(j)' = TakenBy(j)
    BY <1>2 DEF TakenBy
<1>6. \A j \in Call : j # k => QueuedAt(j)' = QueuedAt(j)
    BY <1>1, <1>2, <1>4, AppendQueuedAt
<1>7. QueuedAt(k)' = {Len(jobs) + 1} /\ told[k] = 0 /\ TakenBy(k) = {}
  <2>1. QueuedAt(k) = {} /\ TakenBy(k) = {} /\ told[k] = 0
      BY <1>1 DEF TInv, ToldOnce
  <2> QED
      BY <1>1, <1>2, <1>4, <2>1, AppendQueuedAt
<1>8. ASSUME NEW j \in Call, j # k
      PROVE  /\ told'[j] = told[j] /\ QueuedAt(j)' = QueuedAt(j)
             /\ TakenBy(j)' = TakenBy(j) /\ stage'[j] = "done" <=> stage[j] = "done"
    BY <1>2, <1>3, <1>5, <1>6, <1>8
<1> QED
    BY <1>2, <1>3, <1>5, <1>7, <1>8 DEF TInv, ToldOnce

(* ... a job that serves the peer does not touch it, ... *)
LEMMA ServeTold ==
    ASSUME TInv, NEW e \in Job, e.job = "serve", jobs' = Append(jobs, e),
           UNCHANGED <<stage, running, told>>
    PROVE  ToldOnce'
<1>1. \A k \in Call : ~ JobOf(e, k)
    BY DEF JobOf
<1>2. \A k \in Call : QueuedAt(k)' = QueuedAt(k)
    BY <1>1, AppendQueuedAt DEF TInv, TypeOK
<1>3. \A k \in Call : TakenBy(k)' = TakenBy(k)
    BY DEF TakenBy
<1> QED
    BY <1>2, <1>3 DEF TInv, ToldOnce

(* ... a worker takes a callback off the queue, ... *)
LEMMA TakeTold ==
    ASSUME TInv, NEW w \in Worker, Take(w)
    PROVE  ToldOnce'
<1>1. /\ running[w] = None /\ jobs # <<>> /\ jobs \in Seq(Job)
      /\ running' = [running EXCEPT ![w] = Head(jobs)]
      /\ running \in [Worker -> Job \cup {None}]
      /\ jobs' = Tail(jobs) /\ UNCHANGED <<stage, told>>
    BY DEF Take, tables, TInv, TypeOK
<1> SUFFICES ASSUME NEW k \in Call
             PROVE  /\ told[k] = 0 \/ (told[k] = 1 /\ stage[k] = "done")
                    /\ (stage[k] = "done" /\ told[k] = 0)
                          <=> (QueuedAt(k)' # {} \/ TakenBy(k)' # {})
                    /\ QueuedAt(k)' = {} \/ TakenBy(k)' = {}
                    /\ \A i, j \in QueuedAt(k)' : i = j
                    /\ \A v, u \in TakenBy(k)' : v = u
    BY <1>1 DEF ToldOnce
<1>2. /\ QueuedAt(k)' = {i \in Nat \ {0} : i + 1 \in QueuedAt(k)}
      /\ 1 \in QueuedAt(k) <=> JobOf(Head(jobs), k)
      /\ \A i \in QueuedAt(k) : i # 1 => i - 1 \in QueuedAt(k)'
    BY <1>1, TailQueuedAt
<1>3. /\ told[k] = 0 \/ (told[k] = 1 /\ stage[k] = "done")
      /\ (stage[k] = "done" /\ told[k] = 0)
            <=> (QueuedAt(k) # {} \/ TakenBy(k) # {})
      /\ QueuedAt(k) = {} \/ TakenBy(k) = {}
      /\ \A i, j \in QueuedAt(k) : i = j
      /\ \A v, u \in TakenBy(k) : v = u
    BY DEF TInv, ToldOnce
<1>4. w \notin TakenBy(k)
    BY <1>1 DEF TakenBy, JobOf
<1>5. CASE JobOf(Head(jobs), k)
  <2>1. TakenBy(k)' = TakenBy(k) \cup {w}
      BY <1>1, <1>5 DEF TakenBy
  <2>2. 1 \in QueuedAt(k) /\ TakenBy(k) = {}
      BY <1>2, <1>3, <1>5
  <2>3. QueuedAt(k)' = {}
    <3> SUFFICES ASSUME NEW i \in Nat \ {0}, i + 1 \in QueuedAt(k)
                 PROVE  FALSE
        BY <1>2
    <3>1. i + 1 = 1
        BY <1>3, <2>2
    <3> QED
        BY <3>1
  <2> QED
      BY <1>3, <2>1, <2>2, <2>3
<1>6. CASE ~ JobOf(Head(jobs), k)
  <2>1. TakenBy(k)' = TakenBy(k)
      BY <1>1, <1>4, <1>6 DEF TakenBy
  <2>2. QueuedAt(k) = {} <=> QueuedAt(k)' = {}
      BY <1>2, <1>6
  <2>3. \A i, j \in QueuedAt(k)' : i = j
    <3> SUFFICES ASSUME NEW i \in Nat, NEW j \in Nat,
                        i + 1 \in QueuedAt(k), j + 1 \in QueuedAt(k)
                 PROVE  i = j
        BY <1>2
    <3>1. i + 1 = j + 1
        BY <1>3
    <3> QED
        BY <3>1
  <2> QED
      BY <1>3, <2>1, <2>2, <2>3
<1> QED
    BY <1>5, <1>6

(* ... and runs it, once, ... *)
LEMMA ReportTold ==
    ASSUME TInv, NEW w \in Worker, Report(w)
    PROVE  ToldOnce'
<1>1. /\ running[w] # None /\ running[w].job = "finished"
      /\ running' = [running EXCEPT ![w] = None]
      /\ told' = [told EXCEPT ![running[w].call] = @ + 1]
      /\ running \in [Worker -> Job \cup {None}] /\ told \in [Call -> Nat]
      /\ UNCHANGED <<stage, jobs>>
    BY DEF Report, tables, TInv, TypeOK
<1>2. PICK c \in Call : c = running[w].call
  <2>1. running[w] \in Completion \cup Service
      BY <1>1 DEF Job
  <2>2. running[w] \in Completion
      BY <1>1, <2>1 DEF Service
  <2> QED
      BY <2>2 DEF Completion
<1>3. \A k \in Call : JobOf(running[w], k) <=> k = c
    BY <1>1, <1>2 DEF JobOf
<1>4. \A k \in Call : QueuedAt(k)' = QueuedAt(k)
    BY <1>1 DEF QueuedAt
<1>5. \A k \in Call : TakenBy(k)' = TakenBy(k) \ {w}
  <2>1. \A k \in Call : ~ JobOf(None, k)
      BY DEF JobOf
  <2>2. running'[w] = None /\ \A v \in Worker : v # w => running'[v] = running[v]
      BY <1>1
  <2> QED
      BY <2>1, <2>2 DEF TakenBy
<1>6. \A k \in Call : w \in TakenBy(k) <=> k = c
    BY <1>3 DEF TakenBy
<1>7. /\ told[c] = 0 /\ stage[c] = "done" /\ QueuedAt(c) = {}
      /\ TakenBy(c)' = {}
  <2>1. \A v, u \in TakenBy(c) : v = u
      BY <1>2 DEF TInv, ToldOnce
  <2>2. TakenBy(c) # {} /\ TakenBy(c)' = {}
      BY <1>2, <1>5, <1>6, <2>1
  <2> QED
      BY <1>2, <2>2 DEF TInv, ToldOnce
<1>8. \A k \in Call : k # c => TakenBy(k)' = TakenBy(k) /\ told'[k] = told[k]
    BY <1>1, <1>2, <1>5, <1>6
<1>9. told'[c] = 1
    BY <1>1, <1>2, <1>7
<1>10. ASSUME NEW k \in Call, k # c
       PROVE  /\ told'[k] = told[k] /\ QueuedAt(k)' = QueuedAt(k)
              /\ TakenBy(k)' = TakenBy(k) /\ stage'[k] = stage[k]
    BY <1>1, <1>4, <1>8, <1>10
<1>11. /\ told'[c] = 1 /\ QueuedAt(c)' = {} /\ TakenBy(c)' = {}
       /\ stage'[c] = "done"
    BY <1>1, <1>2, <1>4, <1>7, <1>9
<1> QED
    BY <1>10, <1>11 DEF TInv, ToldOnce

(* ... every step keeps it, ... *)
LEMMA TInvStep == TInv /\ [Next]_vars => TInv'
<1> SUFFICES ASSUME TInv, [Next]_vars
             PROVE  ToldOnce'
    BY TypeStep, NextMoves DEF TInv
<1> USE EarpcAssumption
<1>0. /\ stage \in [Call -> Stage] /\ jobs \in Seq(Job)
      /\ rpc = "return" => rpkt \in Return
      /\ rpc \in {"check", "push"} => rpkt \in Request
    BY DEF TInv, TypeOK
<1>1. ASSUME UNCHANGED <<stage, jobs, running, told>>
      PROVE  ToldOnce'
    BY <1>1 DEF TInv, ToldOnce, QueuedAt, TakenBy
<1>2. ASSUME NEW c \in Cid, NEW d \in Sized,
             DoCall([kind |-> "call", cid |-> c, data |-> d])
      PROVE  ToldOnce'
  <2>1. UNCHANGED <<jobs, running, told>>
      BY <1>2 DEF DoCall, pool
  <2>2. \A k \in Call : stage'[k] = "done" <=> stage[k] = "done"
      BY <1>0, <1>2 DEF DoCall
  <2> QED
      BY <2>1, <2>2 DEF TInv, ToldOnce, QueuedAt, TakenBy
<1>3. ASSUME NEW k \in Call, Cancel(k) \/ ExpireOutgoing(k)
      PROVE  ToldOnce'
  <2>1. /\ k \in Live /\ UNCHANGED pool
        /\ \E r \in Reason : Finish(k, r, None, Unqueue(sendq, request[k].cid))
      BY <1>3 DEF Cancel, ExpireOutgoing, Live, Reason
  <2> QED
      BY <2>1, FinishTold
<1>4. ASSUME NEW k \in Outgoing(rpkt.cid), NEW r \in Reason,
             NEW data \in Payload \cup {None}, Finish(k, r, data, sendq),
             UNCHANGED pool
      PROVE  ToldOnce'
    BY <1>4, FinishTold DEF Outgoing
<1>5. CASE ProcessReturn
  <2>1. rpkt.data \in Payload /\ UNCHANGED pool
      BY <1>0, <1>5 DEF ProcessReturn, Return
  <2>2. "success" \in Reason /\ "size_mismatch" \in Reason
      BY DEF Reason
  <2>3. CASE UNCHANGED <<tables, sendq, jobs, named>>
      BY <1>1, <2>1, <2>3 DEF tables, pool
  <2>4. CASE \E k \in Outgoing(rpkt.cid) :
                \/ Finish(k, "success", rpkt.data, sendq)
                \/ Finish(k, "size_mismatch", None, sendq)
      BY <1>4, <2>1, <2>2, <2>4
  <2> QED
      BY <1>5, <2>3, <2>4 DEF ProcessReturn
<1>6. CASE ProcessNakOutgoing
  <2>1. UNCHANGED pool /\ "rejected" \in Reason
      BY <1>6 DEF ProcessNakOutgoing, Reason
  <2>2. CASE UNCHANGED <<tables, sendq, jobs, named>>
      BY <1>1, <2>1, <2>2 DEF tables, pool
  <2>3. CASE \E k \in Outgoing(rpkt.cid) : Finish(k, "rejected", None, sendq)
      BY <1>4, <2>1, <2>3
  <2> QED
      BY <1>6, <2>2, <2>3 DEF ProcessNakOutgoing
<1>7. CASE ProcessCallPush
  <2> DEFINE e == [job |-> "serve", cid |-> rpkt.cid, data |-> rpkt.data]
  <2>1. e \in Job /\ jobs' = Append(jobs, e)
      BY <1>0, <1>7 DEF ProcessCallPush, Request, Job, Service
  <2>2. UNCHANGED <<stage, running, told>>
      BY <1>7 DEF ProcessCallPush, tables, pool
  <2> QED
      BY <2>1, <2>2, ServeTold
<1>8. ASSUME NEW w \in Worker, NEW d \in Sized, Respond(w, d)
      PROVE  ToldOnce'
  <2>1. UNCHANGED <<stage, jobs, told>> /\ running[w] # None
        /\ running[w].job = "serve" /\ running' = [running EXCEPT ![w] = None]
      BY <1>8 DEF Respond, tables
  <2>2. \A k \in Call : TakenBy(k)' = TakenBy(k)
      BY <2>1 DEF TakenBy, JobOf, TInv, TypeOK
  <2> QED
      BY <2>1, <2>2 DEF TInv, ToldOnce, QueuedAt
<1>9. ASSUME NEW w \in Worker, Work(w)
      PROVE  ToldOnce'
    BY <1>8, <1>9, TakeTold, ReportTold DEF Work
<1>10. ASSUME NEW c \in Cid, ExpireIncoming(c)
       PROVE  ToldOnce'
    BY <1>1, <1>10 DEF ExpireIncoming, tables, pool
<1>11. ASSUME NEW p \in Packet, \/ RecvAnswer(p) \/ RecvException(p) \/ RecvCall(p)
                                \/ SendFeedback(p)
       PROVE  ToldOnce'
    BY <1>1, <1>11
    DEF RecvAnswer, RecvException, RecvCall, SendFeedback, tables, pool
<1>12. CASE ProcessAck \/ ProcessNak \/ ProcessCallCheck
    BY <1>1, <1>12 DEF ProcessAck, ProcessNak, ProcessCallCheck, tables, pool
<1>13. CASE UNCHANGED vars
    BY <1>1, <1>13 DEF vars
<1> QED
    BY <1>2, <1>3, <1>5, <1>6, <1>7, <1>9, <1>10, <1>11, <1>12, <1>13
    DEF Next, Expiry, Process, Receive

(* ... and so it always holds. *)
LEMMA TInvCorrect == Spec => []TInv
<1>1. TInv /\ [Next]_vars => TInv'
    BY TInvStep
<1> QED
    BY <1>1, TInvInit, PTL DEF Spec

(* The callback of a call that ended is in exactly one place until it has  *)
(* run, and runs once: no thread loses or repeats it.                      *)
THEOREM ToldOnceHolds == Spec => []ToldOnce
<1>1. TInv => ToldOnce
    BY DEF TInv
<1> QED
    BY <1>1, TInvCorrect, PTL

-----------------------------------------------------------------------------
(* The refinement. *)

(* What the callers see of the stages of their calls. *)
LEMMA StatusProperties ==
    ASSUME stage \in [Call -> Stage]
    PROVE  /\ Callers!UnderWay = Active /\ Callers!Waiting = Parked
           /\ \A k \in Call : /\ Status[k] = "unmade" <=> stage[k] = "unborn"
                              /\ Status[k] = "ended" <=> stage[k] = "done"
BY DEF Callers!UnderWay, Callers!Waiting, Active, Parked, Status, Stage

(* A call that is finished ends for its caller. *)
LEMMA FinishEnds ==
    ASSUME TInv, NEW k \in Live, NEW r, NEW data, NEW q, Finish(k, r, data, q),
           UNCHANGED told
    PROVE  Callers!End(k)
<1>1. k \in Call /\ k \in Active \cup Parked /\ stage \in [Call -> Stage]
    BY DEF Live, Active, Parked, TInv, TypeOK
<1>2. k \in Callers!UnderWay \cup Callers!Waiting
    BY <1>1, StatusProperties
<1>3. CASE /\ Active \ {k} # {} \/ Parked \ {k} = {}
           /\ stage' = [stage EXCEPT ![k] = "done"]
  <2>1. Status' = [Status EXCEPT ![k] = "ended"]
      BY <1>1, <1>3 DEF Status, Stage
  <2> QED
      BY <1>1, <1>2, <1>3, <2>1, StatusProperties DEF Callers!End
<1>4. ASSUME NEW n \in Parked \ {k}, Active \ {k} = {},
             stage' = [stage EXCEPT ![k] = "done", ![n] = "active"]
      PROVE  Callers!End(k)
  <2>1. n \in Call /\ n # k
      BY DEF Parked
  <2>2. Status' = [Status EXCEPT ![k] = "ended", ![n] = "underway"]
      BY <1>1, <1>4, <2>1 DEF Status, Stage
  <2> QED
      BY <1>1, <1>2, <1>4, <2>2, StatusProperties DEF Callers!End
<1> QED
    BY <1>3, <1>4 DEF Finish, OutgoingCallFinished, Newest

(* Every step is one of the service, or none of its. *)
LEMMA ServiceStep == TInv /\ [Next]_vars => [Callers!Next]_Callers!vars
<1> SUFFICES ASSUME TInv, [Next]_vars
             PROVE  [Callers!Next]_Callers!vars
    OBVIOUS
<1> USE EarpcAssumption
<1>0. /\ stage \in [Call -> Stage] /\ told \in [Call -> Nat]
      /\ running \in [Worker -> Job \cup {None}]
    BY DEF TInv, TypeOK
<1>1. ASSUME UNCHANGED <<stage, told>>
      PROVE  UNCHANGED Callers!vars
    BY <1>1 DEF Callers!vars, Status
<1>2. ASSUME NEW c \in Cid, NEW d \in Sized,
             DoCall([kind |-> "call", cid |-> c, data |-> d])
      PROVE  \E k \in Call : Callers!Make(k)
  <2>1. UNCHANGED told
      BY <1>2 DEF DoCall, pool
  <2>2. PICK k \in Call :
           /\ stage[k] = "unborn"
           /\ \A j \in Call : j < k => stage[j] # "unborn"
           /\ \/ Active # {} /\ stage' = [stage EXCEPT ![k] = "parked"]
              \/ Active = {} /\ stage' = [stage EXCEPT ![k] = "active"]
      BY <1>2 DEF DoCall
  <2>3. Status[k] = "unmade" /\ \A j \in Call : j < k => Status[j] # "unmade"
      BY <1>0, <2>2, StatusProperties
  <2>4. Status' = [Status EXCEPT ![k] = IF Active = {} THEN "underway"
                                        ELSE "waiting"]
      BY <1>0, <2>2 DEF Status, Stage
  <2> QED
      BY <1>0, <2>1, <2>3, <2>4, StatusProperties DEF Callers!Make
<1>3. ASSUME NEW k \in Live, NEW r, NEW data, NEW q, Finish(k, r, data, q),
             UNCHANGED told
      PROVE  Callers!Next
  <2>1. k \in Call
      BY DEF Live, Active, Parked
  <2> QED
      BY <1>3, <2>1, FinishEnds DEF Callers!Next
<1>4. ASSUME NEW k \in Call, Cancel(k) \/ ExpireOutgoing(k)
      PROVE  Callers!Next
    BY <1>3, <1>4 DEF Cancel, ExpireOutgoing, Live, pool
<1>5. CASE ProcessReturn
  <2>1. CASE UNCHANGED <<tables, sendq, jobs, named>>
      BY <1>1, <1>5, <2>1 DEF ProcessReturn, tables, pool
  <2>2. CASE \E k \in Outgoing(rpkt.cid) :
                \/ Finish(k, "success", rpkt.data, sendq)
                \/ Finish(k, "size_mismatch", None, sendq)
      BY <1>3, <1>5, <2>2 DEF ProcessReturn, pool, Outgoing
  <2> QED
      BY <1>5, <2>1, <2>2 DEF ProcessReturn
<1>6. CASE ProcessNakOutgoing
  <2>1. CASE UNCHANGED <<tables, sendq, jobs, named>>
      BY <1>1, <1>6, <2>1 DEF ProcessNakOutgoing, tables, pool
  <2>2. CASE \E k \in Outgoing(rpkt.cid) : Finish(k, "rejected", None, sendq)
      BY <1>3, <1>6, <2>2 DEF ProcessNakOutgoing, pool, Outgoing
  <2> QED
      BY <1>6, <2>1, <2>2 DEF ProcessNakOutgoing
<1>7. ASSUME NEW w \in Worker, Report(w)
      PROVE  Callers!Next
  <2>1. /\ running[w] # None /\ running[w].job = "finished"
        /\ told' = [told EXCEPT ![running[w].call] = @ + 1]
        /\ UNCHANGED stage
      BY <1>7 DEF Report, tables
  <2>2. PICK k \in Call : k = running[w].call
    <3>1. running[w] \in Completion \cup Service
        BY <1>0, <2>1 DEF Job
    <3>2. running[w] \in Completion
        BY <2>1, <3>1 DEF Service
    <3> QED
        BY <3>2 DEF Completion
  <2>3. TakenBy(k) # {}
      BY <2>1, <2>2 DEF TakenBy, JobOf
  <2>4. stage[k] = "done" /\ told[k] = 0
      BY <2>3 DEF TInv, ToldOnce
  <2>5. told' = [told EXCEPT ![k] = 1] /\ UNCHANGED Status
      BY <1>0, <2>1, <2>2, <2>4 DEF Status
  <2>6. Callers!Tell(k)
      BY <1>0, <2>4, <2>5, StatusProperties DEF Callers!Tell
  <2> QED
      BY <2>6 DEF Callers!Next
<1>8. ASSUME NEW w \in Worker, Work(w)
      PROVE  [Callers!Next]_Callers!vars
  <2>1. CASE \E d \in Sized : Respond(w, d)
      BY <1>1, <2>1 DEF Respond, tables
  <2>2. CASE Take(w)
      BY <1>1, <2>2 DEF Take, tables
  <2> QED
      BY <1>7, <1>8, <2>1, <2>2 DEF Work
<1>9. ASSUME NEW c \in Cid, ExpireIncoming(c)
      PROVE  UNCHANGED Callers!vars
    BY <1>1, <1>9 DEF ExpireIncoming, tables, pool
<1>10. ASSUME NEW p \in Packet, \/ RecvAnswer(p) \/ RecvException(p) \/ RecvCall(p)
                                \/ SendFeedback(p)
       PROVE  UNCHANGED Callers!vars
    BY <1>1, <1>10
    DEF RecvAnswer, RecvException, RecvCall, SendFeedback, tables, pool
<1>11. CASE ProcessAck \/ ProcessNak \/ ProcessCallCheck \/ ProcessCallPush
    BY <1>1, <1>11
    DEF ProcessAck, ProcessNak, ProcessCallCheck, ProcessCallPush, tables, pool
<1>12. CASE UNCHANGED vars
    BY <1>1, <1>12 DEF vars
<1> QED
    BY <1>2, <1>4, <1>5, <1>6, <1>8, <1>9, <1>10, <1>11, <1>12
    DEF Next, Expiry, Process, Receive, Callers!Next

(* Seen through its callers, the endpoint is a call service: one call      *)
(* under way at a time, no call waiting for nothing, each end told once.   *)
THEOREM EarpcServesCallers == Spec => ServesCallers
<1>1. Init => Callers!Init
    BY DEF Init, Callers!Init, Status
<1>2. TInv /\ [Next]_vars => [Callers!Next]_Callers!vars
    BY ServiceStep
<1> QED
    BY <1>1, <1>2, TInvCorrect, PTL DEF Spec, ServesCallers, Callers!Spec
=============================================================================
