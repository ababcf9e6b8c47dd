------------------------------ MODULE EarpcWay ------------------------------
(* One direction of the link between two earpc endpoints: what becomes of  *)
(* the device's calls.                                                     *)
EXTENDS EarpcLink, SequenceTheorems, TLAPS

(* What is proved of one endpoint, of the device. *)
DP == INSTANCE EarpcProofs WITH
        NCalls <- DCalls,
        stage <- stageD, request <- requestD, inc <- incD, sendq <- sendqD,
        fbq <- fbqD, jobs <- jobsD, running <- runningD, rpc <- rpcD,
        rpkt <- rpktD, told <- toldD, named <- namedD

(* What is on its way, of the calls of one endpoint.  Its calls are on its *)
(* send queue, on the link or with the peer's receive thread; so are the   *)
(* returns on the way back, and the signals of its feedback thread.        *)
Seen(q, to, rpkt, kinds) ==
    {p \in (Range(q) \cup Range(to) \cup {rpkt}) \ {None} : p.kind \in kinds}

(* The calls of either endpoint on their way, ... *)
CallsD == Seen(sendqD, toH, rpktH, {"call"})
CallsH == Seen(sendqH, toD, rpktD, {"call"})

(* ... the returns to them, ... *)
ReturnsD == Seen(sendqH, toD, rpktD, {"return"})
ReturnsH == Seen(sendqD, toH, rpktH, {"return"})

(* ... and what the feedback thread of either endpoint signals. *)
SignalsD == Seen(fbqD, toH, rpktH, {"ack", "nak"})
SignalsH == Seen(fbqH, toD, rpktD, {"ack", "nak"})

(* The ids drawn for calls, ... *)
Ids(made) == {c \in Cid : \E k \in DOMAIN made : made[k] = c}

(* ... and those of the calls in one of the stages: parked, active or      *)
(* done.                                                                   *)
Reached(stages, stage, made) ==
    {c \in Cid : \E k \in DOMAIN made : made[k] = c /\ stage[k] \in stages}

(* All ids of an endpoint; those of calls that were sent; those of calls   *)
(* that are over.                                                          *)
IdsD == Ids(drawnD)
IdsH == Ids(drawnH)
SentD == Reached({"active", "done"}, stageD, drawnD)
SentH == Reached({"active", "done"}, stageH, drawnH)
OverD == Reached({"done"}, stageD, drawnD)
OverH == Reached({"done"}, stageH, drawnH)

(* A call on the outgoing table has the id drawn for it, and none has that *)
(* of another.                                                             *)
Tables(stage, request, made) ==
    /\ \A k \in DOMAIN made :
          /\ stage[k] = "unborn" <=> made[k] = None
          /\ stage[k] \in {"parked", "active"} =>
                /\ request[k].kind = "call"
                /\ request[k].cid = made[k]
                /\ request[k].data \in Sized
    /\ \A j, k \in DOMAIN made :
          made[j] = made[k] /\ made[j] # None => j = k

(* Which kinds of packets are on the queues and on the link, and which one *)
(* the peer's receive thread has in hand at which place.                   *)
Kinded(sendq, fbq, to, rpc, rpkt) ==
    /\ \A p \in Range(sendq) : p.kind \in {"call", "return"}
    /\ \A p \in Range(fbq) : p.kind \in {"ack", "nak"}
    /\ \A p \in Range(to) : p.kind \in {"call", "return", "ack", "nak"}
    /\ rpc \in {"check", "push"} => rpkt.kind = "call"
    /\ rpc \in {"ack", "return", "nak"} => rpkt.kind = rpc
    /\ rpc = "rejected" => rpkt.kind = "nak"

(* Calls under way were sent, with an argument that can be read. *)
Asked(calls, sent) == \A p \in calls : p.cid \in sent /\ p.data \in Sized

(* All that there is of one call (its copies, its record at the peer, its  *)
(* own record) is about one argument.                                      *)
Same(calls, inc, stage, request, made) ==
    \E arg \in [Cid -> Payload \cup {None}] :
        /\ \A p \in calls : p.data = arg[p.cid]
        /\ \A c \in Cid : inc[c] # None => inc[c] = arg[c]
        /\ \A k \in DOMAIN made : stage[k] \in {"parked", "active"}
                                   => request[k].data = arg[made[k]]

(* What the peer has on its incoming table, or serves, was sent. *)
Served(inc, jobs, running, sent) ==
    /\ \A c \in Cid : inc[c] # None => c \in sent
    /\ \A j \in Range(jobs) \cup Range(running) :
          j # None /\ j.job = "serve" => j.cid \in sent

(* Returns under way are to calls that were sent, and carry what a handler *)
(* responded.                                                              *)
Returned(returns, sent, responses) ==
    \A p \in returns :
        p.cid \in sent /\ p.data \in Sized /\ <<p.cid, p.data>> \in responses

(* A signal is about a call of its sender that is over, or it is an ack of *)
(* one that the other endpoint sent.                                       *)
Signalled(signals, sent, over) ==
    \A p \in signals : p.cid \in over \/ (p.kind = "ack" /\ p.cid \in sent)

(* No call of ids follows a signal that it is over. *)
Ordered(to, ids) ==
    \A i, j \in DOMAIN to :
        /\ i < j /\ to[i].kind \in {"ack", "nak"} /\ to[j].kind = "call"
        /\ to[i].cid \in ids
        => to[i].cid # to[j].cid

(* No copy of call c is among the packets. *)
Silent(q, c) == \A p \in Range(q) : p.kind = "call" => p.cid # c

(* Neither does one follow the signal in the receive thread's hand. *)
Closing(to, rpkt, ids) ==
    /\ Ordered(to, ids)
    /\ rpkt # None /\ rpkt.kind \in {"ack", "nak"} /\ rpkt.cid \in ids
          => Silent(to, rpkt.cid)

(* There is one packet at most for each call. *)
Single(q) ==
    \A i, j \in DOMAIN q :
        q[i].kind = "call" /\ q[j].kind = "call" /\ q[i].cid = q[j].cid => i = j

(* On the send queue is at most one packet of each call, and none of a     *)
(* call that is over or has just been answered.                            *)
Once(sendq, over, rpc, rpkt) ==
    /\ Single(sendq)
    /\ \A c \in over : Silent(sendq, c)
    /\ rpc = "return" => Silent(sendq, rpkt.cid)

(* Nothing of call c can reach the peer any more. *)
Closed(c, over, to, rpkt) ==
    /\ c \in over /\ Silent(to, c)
    /\ rpkt # None /\ rpkt.kind = "call" => rpkt.cid # c

(* A call was served at most once: it is on the peer's table from then on, *)
(* unless its record expired, until nothing of it can come any more. What  *)
(* the receive thread has checked is not there yet.                        *)
Taken(sent, over, inc, to, rpc, rpkt, others, count, expired) ==
    /\ \A c \in Cid \ (expired \cup others) :
          \/ count[c] = 0
          \/ /\ count[c] = 1 /\ c \in sent
             /\ inc[c] # None \/ Closed(c, over, to, rpkt)
    /\ rpc \in {"check", "push"} => inc[rpkt.cid] = None

(* A callback that is due is that of a call that is over, and reports that *)
(* it expired or what a handler responded to it.                           *)
Reported(jobs, running, stage, made, responses) ==
    \A j \in Ended(jobs, running) :
        /\ stage[j.call] = "done"
        /\ j.reason \in {"success", "expired"}
        /\ j.reason = "success" => <<made[j.call], j.data>> \in responses

(* The types of both endpoints and of the link. *)
LinkType ==
    /\ D!TypeOK /\ H!TypeOK
    /\ toD \in Seq(D!Packet) /\ toH \in Seq(D!Packet)
    /\ drawnD \in [1 .. DCalls -> Cid \cup {None}]
    /\ drawnH \in [1 .. HCalls -> Cid \cup {None}]
    /\ accepted \in [Cid -> Nat]
    /\ answered \subseteq Cid \X Sized /\ lapsed \subseteq Cid

(* All that is known of the device's calls ... *)
WayD ==
    /\ Tables(stageD, requestD, drawnD)
    /\ Kinded(sendqD, fbqD, toH, rpcH, rpktH)
    /\ Asked(CallsD, SentD)
    /\ Same(CallsD, incH, stageD, requestD, drawnD)
    /\ Served(incH, jobsH, runningH, SentD)
    /\ Returned(ReturnsD, SentD, answered)
    /\ Signalled(SignalsD, SentH, OverD)
    /\ Closing(toH, rpktH, IdsD)
    /\ Once(sendqD, OverD, rpcD, rpktD)
    /\ Taken(SentD, OverD, incH, toH, rpcH, rpktH, IdsH, accepted, lapsed)
    /\ Reported(jobsD, runningD, stageD, drawnD, answered)

(* ... and of the host's. *)
WayH ==
    /\ Tables(stageH, requestH, drawnH)
    /\ Kinded(sendqH, fbqH, toD, rpcD, rpktD)
    /\ Asked(CallsH, SentH)
    /\ Same(CallsH, incD, stageH, requestH, drawnH)
    /\ Served(incD, jobsD, runningD, SentH)
    /\ Returned(ReturnsH, SentH, answered)
    /\ Signalled(SignalsH, SentD, OverH)
    /\ Closing(toD, rpktD, IdsH)
    /\ Once(sendqH, OverH, rpcH, rpktH)
    /\ Taken(SentH, OverH, incD, toD, rpcD, rpktD, IdsD, accepted, lapsed)
    /\ Reported(jobsH, runningH, stageH, drawnH, answered)

(* The inductive invariant of the link. The endpoints draw different ids. *)
IInv == LinkType /\ WayD /\ WayH /\ IdsD \cap IdsH = {}

-----------------------------------------------------------------------------
(* Lemmas about sequences of packets. *)

(* What is queued is added to the entries, ... *)
LEMMA AppendRange ==
    ASSUME NEW S, NEW q \in Seq(S), NEW e \in S
    PROVE  /\ Append(q, e) \in Seq(S)
           /\ Range(Append(q, e)) = Range(q) \cup {e}
<1>1. PICK n \in Nat : n = Len(q) /\ DOMAIN q = 1 .. n
    BY LenProperties
<1>2. /\ Append(q, e) \in Seq(S) /\ Len(Append(q, e)) = n + 1
      /\ \A i \in 1 .. n : Append(q, e)[i] = q[i]
      /\ Append(q, e)[n + 1] = e
    BY <1>1, AppendProperties
<1>3. DOMAIN Append(q, e) = 1 .. n + 1
    BY <1>2, LenProperties
<1>4. \A i : i \in 1 .. n + 1 <=> i \in 1 .. n \/ i = n + 1
    BY <1>1
<1> QED
    BY <1>1, <1>2, <1>3, <1>4 DEF Range

(* ... what is taken off the front was one of them, ... *)
LEMMA TailRange ==
    ASSUME NEW S, NEW q \in Seq(S), q # <<>>
    PROVE  /\ Head(q) \in S /\ Tail(q) \in Seq(S)
           /\ Head(q) \in Range(q) /\ Range(Tail(q)) \subseteq Range(q)
           /\ \A i \in DOMAIN Tail(q) :
                 i \in Nat /\ i + 1 \in DOMAIN q /\ Tail(q)[i] = q[i + 1]
           /\ 1 \in DOMAIN q /\ q[1] = Head(q)
<1>1. PICK n \in Nat : n = Len(q) /\ DOMAIN q = 1 .. n /\ n # 0
    BY LenProperties, EmptySeq
<1>2. PICK r \in Seq(S) :
         /\ r = Tail(q) /\ Len(r) = n - 1 /\ DOMAIN r = 1 .. n - 1
         /\ \A i \in 1 .. n - 1 : r[i] = q[i + 1]
         /\ Head(q) \in S
    BY <1>1, HeadTailProperties, LenProperties
<1>3. \A i \in 1 .. n - 1 : i \in Nat /\ i + 1 \in 1 .. n
    BY <1>1
<1>4. 1 \in 1 .. n /\ Head(q) = q[1]
    BY <1>1
<1>5. Range(r) \subseteq Range(q)
    BY <1>1, <1>2, <1>3 DEF Range
<1> QED
    BY <1>1, <1>2, <1>3, <1>4, <1>5 DEF Range

(* Each endpoint's constants are what its theorems assume. *)
LEMMA Endpoints ==
    /\ DCalls \in Nat /\ HCalls \in Nat /\ MaxQueue \in Nat
    /\ Sized \subseteq Payload
    /\ None \notin Cid \cup Payload \cup DP!Packet \cup DP!Job
BY LinkAssumption
DEF D!Packet, D!Request, D!Return, D!Signal, D!Job, D!Completion, D!Service,
    D!Call, D!Reason,
    DP!Packet, DP!Request, DP!Return, DP!Signal, DP!Job, DP!Completion,
    DP!Service, DP!Call, DP!Reason

(* The two endpoints have the same send queues. *)
LEMMA Unqueues ==
    \A q, c : D!Unqueue(q, c) = DP!Unqueue(q, c)
              /\ H!Unqueue(q, c) = DP!Unqueue(q, c)
BY DEF D!Unqueue, H!Unqueue, DP!Unqueue, D!RemoveAt, H!RemoveAt, DP!RemoveAt,
       D!Min, H!Min, DP!Min

(* ... and what is removed by its id too.                                  *)
LEMMA UnqueueRange ==
    ASSUME NEW S, NEW q \in Seq(S), NEW c
    PROVE  /\ D!Unqueue(q, c) \in Seq(S)
           /\ Range(D!Unqueue(q, c)) \subseteq Range(q)
           /\ Single(q) => Single(D!Unqueue(q, c))
           /\ Single(q) /\ (\A p \in Range(q) : p.cid = c => p.kind = "call")
                 => Silent(D!Unqueue(q, c), c)
<1>1. D!Unqueue(q, c) = DP!Unqueue(q, c)
    BY Unqueues
<1>2. CASE /\ DP!Unqueue(q, c) = q
           /\ \A i \in DOMAIN q : q[i].cid # c
    BY <1>1, <1>2 DEF Silent, Range
<1>3. ASSUME NEW i \in DOMAIN q, q[i].cid = c,
             DP!Unqueue(q, c) = DP!RemoveAt(q, i)
      PROVE  /\ D!Unqueue(q, c) \in Seq(S)
             /\ Range(D!Unqueue(q, c)) \subseteq Range(q)
             /\ Single(q) => Single(D!Unqueue(q, c))
             /\ Single(q) /\ (\A p \in Range(q) : p.cid = c => p.kind = "call")
                   => Silent(D!Unqueue(q, c), c)
  <2>1. PICK n \in Nat : n = Len(q) /\ DOMAIN q = 1 .. n
      BY LenProperties
  <2>2. /\ DP!RemoveAt(q, i) \in Seq(S)
        /\ DOMAIN DP!RemoveAt(q, i) = 1 .. n - 1
        /\ \A j \in 1 .. n - 1 :
              DP!RemoveAt(q, i)[j] = q[IF j < i THEN j ELSE j + 1]
      BY <2>1, Endpoints, DP!RemoveAtEntries
  <2>3. PICK r : r = DP!RemoveAt(q, i)
      OBVIOUS
  <2>4. /\ r \in Seq(S) /\ r = D!Unqueue(q, c)
        /\ DOMAIN r = 1 .. n - 1
        /\ \A j \in 1 .. n - 1 : r[j] = q[IF j < i THEN j ELSE j + 1]
      BY <1>1, <1>3, <2>2, <2>3
  <2>5. \A j \in 1 .. n - 1 : \E k \in 1 .. n :
           r[j] = q[k] /\ k # i /\ k = IF j < i THEN j ELSE j + 1
      BY <2>1, <2>4
  <2>6. Range(r) \subseteq Range(q)
      BY <2>1, <2>4, <2>5 DEF Range
  <2>7. ASSUME Single(q)
        PROVE  Single(r)
    <3> SUFFICES ASSUME NEW j \in 1 .. n - 1, NEW k \in 1 .. n - 1,
                        r[j].kind = "call", r[k].kind = "call",
                        r[j].cid = r[k].cid
                 PROVE  j = k
        BY <2>4 DEF Single
    <3>1. PICK a \in 1 .. n : r[j] = q[a] /\ a = IF j < i THEN j ELSE j + 1
        BY <2>5
    <3>2. PICK b \in 1 .. n : r[k] = q[b] /\ b = IF k < i THEN k ELSE k + 1
        BY <2>5
    <3>3. a = b
        BY <2>1, <2>7, <3>1, <3>2 DEF Single
    <3> QED
        BY <2>1, <3>1, <3>2, <3>3
  <2>8. ASSUME Single(q), \A p \in Range(q) : p.cid = c => p.kind = "call"
        PROVE  Silent(r, c)
    <3> SUFFICES ASSUME NEW j \in 1 .. n - 1, r[j].cid = c
                 PROVE  FALSE
        BY <2>4 DEF Silent, Range
    <3>1. PICK a \in 1 .. n : r[j] = q[a] /\ a # i
        BY <2>5
    <3>2. q[a].kind = "call" /\ q[i].kind = "call"
        BY <1>3, <2>1, <2>8, <3>1 DEF Range
    <3> QED
        BY <1>3, <2>1, <2>8, <3>1, <3>2 DEF Single
  <2> QED
      BY <2>4, <2>6, <2>7, <2>8
<1> QED
    BY <1>2, <1>3, Endpoints, DP!UnqueueEntries

(* The order of the link is kept by taking the oldest packet, ... *)
LEMMA TailOrdered ==
    ASSUME NEW S, NEW q \in Seq(S), q # <<>>, NEW ids, Ordered(q, ids)
    PROVE  /\ Ordered(Tail(q), ids)
           /\ Head(q).kind \in {"ack", "nak"} /\ Head(q).cid \in ids
                 => Silent(Tail(q), Head(q).cid)
<1>1. /\ \A i \in DOMAIN Tail(q) :
             i \in Nat /\ i + 1 \in DOMAIN q /\ Tail(q)[i] = q[i + 1]
      /\ 1 \in DOMAIN q /\ q[1] = Head(q)
    BY TailRange
<1>2. DOMAIN Tail(q) \subseteq Nat \ {0}
    BY HeadTailProperties, LenProperties
<1>3. Ordered(Tail(q), ids)
  <2> SUFFICES ASSUME NEW i \in DOMAIN Tail(q), NEW j \in DOMAIN Tail(q), i < j,
                      Tail(q)[i].kind \in {"ack", "nak"},
                      Tail(q)[j].kind = "call", Tail(q)[i].cid \in ids
               PROVE  Tail(q)[i].cid # Tail(q)[j].cid
      BY DEF Ordered
  <2>1. i + 1 < j + 1
      BY <1>1
  <2> QED
      BY <1>1, <2>1 DEF Ordered
<1>4. ASSUME Head(q).kind \in {"ack", "nak"}, Head(q).cid \in ids
      PROVE  Silent(Tail(q), Head(q).cid)
  <2> SUFFICES ASSUME NEW j \in DOMAIN Tail(q), Tail(q)[j].kind = "call"
               PROVE  Tail(q)[j].cid # Head(q).cid
      BY DEF Silent, Range
  <2>1. 1 < j + 1
      BY <1>2
  <2> QED
      BY <1>1, <1>4, <2>1 DEF Ordered
<1> QED
    BY <1>3, <1>4

(* ... and by sending one that follows no signal about its call.           *)
LEMMA AppendOrdered ==
    ASSUME NEW S, NEW q \in Seq(S), NEW e \in S, NEW ids, Ordered(q, ids),
           e.kind = "call" =>
              \A p \in Range(q) : p.kind \in {"ack", "nak"} /\ p.cid \in ids
                                   => p.cid # e.cid
    PROVE  Ordered(Append(q, e), ids)
<1>1. PICK n \in Nat : n = Len(q) /\ DOMAIN q = 1 .. n
    BY LenProperties
<1>2. /\ Append(q, e) \in Seq(S) /\ Len(Append(q, e)) = n + 1
      /\ \A i \in 1 .. n : Append(q, e)[i] = q[i]
      /\ Append(q, e)[n + 1] = e
    BY <1>1, AppendProperties
<1>3. DOMAIN Append(q, e) = 1 .. n + 1
    BY <1>2, LenProperties
<1>4. PICK r : r = Append(q, e)
    OBVIOUS
<1> SUFFICES ASSUME NEW i \in 1 .. n + 1, NEW j \in 1 .. n + 1, i < j,
                    r[i].kind \in {"ack", "nak"}, r[j].kind = "call",
                    r[i].cid \in ids
             PROVE  r[i].cid # r[j].cid
    BY <1>3, <1>4 DEF Ordered
<1>5. i \in 1 .. n /\ r[i] = q[i] /\ q[i] \in Range(q)
    BY <1>1, <1>2, <1>4 DEF Range
<1>6. CASE j \in 1 .. n
    BY <1>1, <1>2, <1>4, <1>5, <1>6 DEF Ordered
<1>7. CASE j = n + 1
    BY <1>2, <1>4, <1>5, <1>7
<1> QED
    BY <1>1, <1>6, <1>7

(* A call is queued once where no packet of it was queued before. *)
LEMMA AppendSingle ==
    ASSUME NEW S, NEW q \in Seq(S), NEW e \in S, Single(q),
           e.kind = "call" => Silent(q, e.cid)
    PROVE  Single(Append(q, e))
<1>1. PICK n \in Nat : n = Len(q) /\ DOMAIN q = 1 .. n
    BY LenProperties
<1>2. /\ Append(q, e) \in Seq(S) /\ Len(Append(q, e)) = n + 1
      /\ \A i \in 1 .. n : Append(q, e)[i] = q[i]
      /\ Append(q, e)[n + 1] = e
    BY <1>1, AppendProperties
<1>3. DOMAIN Append(q, e) = 1 .. n + 1
    BY <1>2, LenProperties
<1>4. PICK r : r = Append(q, e)
    OBVIOUS
<1>5. \A i \in 1 .. n + 1 : i \in 1 .. n \/ i = n + 1
    BY <1>1
<1>6. \A i \in 1 .. n : q[i] \in Range(q)
    BY <1>1 DEF Range
<1>7. \A i, j \in 1 .. n + 1 :
         r[i].kind = "call" /\ r[j].kind = "call" /\ r[i].cid = r[j].cid => i = j
    BY <1>1, <1>2, <1>4, <1>5, <1>6 DEF Single, Silent
<1> QED
    BY <1>3, <1>4, <1>7 DEF Single

-----------------------------------------------------------------------------
(* Type correctness of an endpoint. *)

(* What the device does of its own, and with packets. *)
DeviceMoves ==
    \/ \E c \in Cid, d \in Sized :
          D!DoCall([kind |-> "call", cid |-> c, data |-> d])
    \/ \E k \in D!Call : D!ExpireOutgoing(k)
    \/ \E c \in Cid : D!ExpireIncoming(c)
    \/ \E p \in D!Packet : D!Receive(p) \/ D!SendFeedback(p)
    \/ D!Process
    \/ \E w \in Worker :
          \/ D!Take(w) \/ D!Report(w)
          \/ \E d \in Sized : D!Respond(w, d)

(* It keeps the device's types. *)
LEMMA DeviceTypes == D!TypeOK /\ [DeviceMoves]_device => D!TypeOK'
<1>1. D!TypeOK <=> DP!TypeOK
    BY DEF
    D!TypeOK, D!Stage, D!Reason, D!Job, D!Completion, D!Service, D!Call,
    D!Live, D!Active, D!Parked, D!Packet, D!Request, D!Return, D!Signal,
    DP!TypeOK, DP!Stage, DP!Reason, DP!Job, DP!Completion, DP!Service,
    DP!Call, DP!Live, DP!Active, DP!Parked, DP!Packet, DP!Request,
    DP!Return, DP!Signal
<1>2. ASSUME DeviceMoves
      PROVE  DP!Moves
  <2>1. \A k : D!ExpireOutgoing(k) => DP!ExpireOutgoing(k)
      BY Unqueues
      DEF
    D!ExpireOutgoing, D!tables, D!recvVars, D!pool, D!Active, D!Parked,
    D!Live, D!Call, D!Finish, D!OutgoingCallFinished, D!Newest, D!Outgoing,
    DP!ExpireOutgoing, DP!tables, DP!recvVars, DP!pool, DP!Active,
    DP!Parked, DP!Live, DP!Call, DP!Finish, DP!OutgoingCallFinished,
    DP!Newest, DP!Outgoing
  <2>2. \A c : D!ExpireIncoming(c) => DP!ExpireIncoming(c)
      BY Unqueues
      DEF
    D!ExpireIncoming, D!tables, D!recvVars, D!pool, DP!ExpireIncoming,
    DP!tables, DP!recvVars, DP!pool
  <2>3. \A p : D!Receive(p) => DP!Receive(p)
      BY Unqueues
      DEF
    D!Receive, D!RecvAnswer, D!RecvException, D!RecvCall, D!Feedback,
    D!tables, D!recvVars, D!pool, D!Outgoing, D!Live, D!Active, D!Parked,
    D!Call, DP!Receive, DP!RecvAnswer, DP!RecvException, DP!RecvCall,
    DP!Feedback, DP!tables, DP!recvVars, DP!pool, DP!Outgoing, DP!Live,
    DP!Active, DP!Parked, DP!Call
  <2>4. \A p : D!SendFeedback(p) => DP!SendFeedback(p)
      BY DEF
    D!SendFeedback, D!tables, D!recvVars, D!pool, DP!SendFeedback,
    DP!tables, DP!recvVars, DP!pool
  <2>5. D!ProcessReturn => DP!ProcessReturn
      BY DEF
    D!ProcessReturn, D!RecvDone, D!Feedback, D!tables, D!recvVars, D!pool,
    D!Active, D!Parked, D!Live, D!Call, D!Finish, D!OutgoingCallFinished,
    D!Newest, D!Outgoing, DP!ProcessReturn, DP!RecvDone, DP!Feedback,
    DP!tables, DP!recvVars, DP!pool, DP!Active, DP!Parked, DP!Live, DP!Call,
    DP!Finish, DP!OutgoingCallFinished, DP!Newest, DP!Outgoing
  <2>6. D!ProcessAck \/ D!ProcessNak \/ D!ProcessNakOutgoing
           => DP!ProcessAck \/ DP!ProcessNak \/ DP!ProcessNakOutgoing
      BY DEF
    D!ProcessAck, D!ProcessNak, D!ProcessNakOutgoing, D!RecvDone, D!tables,
    D!recvVars, D!pool, D!Active, D!Parked, D!Live, D!Call, D!Finish,
    D!OutgoingCallFinished, D!Newest, D!Outgoing, DP!ProcessAck,
    DP!ProcessNak, DP!ProcessNakOutgoing, DP!RecvDone, DP!tables,
    DP!recvVars, DP!pool, DP!Active, DP!Parked, DP!Live, DP!Call, DP!Finish,
    DP!OutgoingCallFinished, DP!Newest, DP!Outgoing
  <2>7. D!ProcessCallCheck \/ D!ProcessCallPush
           => DP!ProcessCallCheck \/ DP!ProcessCallPush
      BY DEF
    D!ProcessCallCheck, D!ProcessCallPush, D!RecvDone, D!Feedback, D!tables,
    D!recvVars, D!pool, D!Outgoing, D!Live, D!Active, D!Parked, D!Call,
    DP!ProcessCallCheck, DP!ProcessCallPush, DP!RecvDone, DP!Feedback,
    DP!tables, DP!recvVars, DP!pool, DP!Outgoing, DP!Live, DP!Active,
    DP!Parked, DP!Call
  <2>8. /\ \A w : D!Take(w) => DP!Take(w)
        /\ \A w : D!Report(w) => DP!Report(w)
        /\ \A w, d : D!Respond(w, d) => DP!Respond(w, d)
      BY DEF
    D!Take, D!Report, D!Respond, D!tables, D!recvVars, D!pool, DP!Take,
    DP!Report, DP!Respond, DP!tables, DP!recvVars, DP!pool
  <2>9. \A p : D!DoCall(p) => DP!DoCall(p)
      BY DEF
    D!DoCall, D!tables, D!recvVars, D!pool, D!Outgoing, D!Live, D!Active,
    D!Parked, D!Call, DP!DoCall, DP!tables, DP!recvVars, DP!pool,
    DP!Outgoing, DP!Live, DP!Active, DP!Parked, DP!Call
  <2>10. D!Packet = DP!Packet /\ D!Call = DP!Call
      BY DEF
    D!Packet, D!Request, D!Return, D!Signal, D!Call, DP!Packet, DP!Request,
    DP!Return, DP!Signal, DP!Call
  <2>11. D!Process => DP!Process
      BY <2>5, <2>6, <2>7 DEF D!Process, DP!Process
  <2>12. \A w : D!Take(w) \/ D!Report(w) \/ (\E d \in Sized : D!Respond(w, d))
           => DP!Work(w)
      BY <2>8, Zenon DEF DP!Work
  <2> QED
      BY <1>2, <2>1, <2>2, <2>3, <2>4, <2>9, <2>10, <2>11, <2>12, Zenon
      DEF DeviceMoves, DP!Moves, DP!Expiry
<1>3. device' = device <=> DP!vars' = DP!vars
    BY DEF device, DP!vars
<1>4. DP!TypeOK' <=> D!TypeOK'
    BY DEF
    D!TypeOK, D!Stage, D!Reason, D!Job, D!Completion, D!Service, D!Call,
    D!Live, D!Active, D!Parked, D!Packet, D!Request, D!Return, D!Signal,
    DP!TypeOK, DP!Stage, DP!Reason, DP!Job, DP!Completion, DP!Service,
    DP!Call, DP!Live, DP!Active, DP!Parked, DP!Packet, DP!Request,
    DP!Return, DP!Signal
<1> QED
    BY <1>1, <1>2, <1>3, <1>4, Endpoints, DP!TypeStep

-----------------------------------------------------------------------------
(* What the steps rely on. *)

(* Everything queued, under way or being processed is a packet. *)
LEMMA Packets ==
    ASSUME LinkType
    PROVE  /\ sendqD \in Seq(D!Packet) /\ fbqD \in Seq(D!Packet)
           /\ sendqH \in Seq(D!Packet) /\ fbqH \in Seq(D!Packet)
           /\ toD \in Seq(D!Packet) /\ toH \in Seq(D!Packet)
           /\ rpktD \in D!Packet \cup {None} /\ rpktH \in D!Packet \cup {None}
           /\ (rpcD = "idle") <=> (rpktD = None)
           /\ (rpcH = "idle") <=> (rpktH = None)
<1>1. /\ D!Request \cup D!Return \subseteq D!Packet
      /\ D!Signal \subseteq D!Packet
      /\ H!Request \cup H!Return \subseteq D!Packet
      /\ H!Signal \subseteq D!Packet
      /\ H!Packet = D!Packet
    BY DEF D!Packet, D!Request, D!Return, D!Signal,
           H!Packet, H!Request, H!Return, H!Signal
<1>2. /\ sendqD \in Seq(D!Request \cup D!Return) /\ fbqD \in Seq(D!Signal)
      /\ sendqH \in Seq(H!Request \cup H!Return) /\ fbqH \in Seq(H!Signal)
      /\ rpktD \in D!Packet \cup {None} /\ rpktH \in H!Packet \cup {None}
      /\ (rpcD = "idle") <=> (rpktD = None)
      /\ (rpcH = "idle") <=> (rpktH = None)
      /\ toD \in Seq(D!Packet) /\ toH \in Seq(D!Packet)
    BY DEF LinkType, D!TypeOK, H!TypeOK
<1>3. sendqD \in Seq(D!Packet) /\ fbqD \in Seq(D!Packet)
    BY <1>1, <1>2, SeqMonotonic
<1>4. sendqH \in Seq(D!Packet) /\ fbqH \in Seq(D!Packet)
    BY <1>1, <1>2, SeqMonotonic
<1> QED
    BY <1>1, <1>2, <1>3, <1>4

(* A packet is none of the values that stand for no packet, and has an id. *)
LEMMA PacketIsSome ==
    /\ None \notin D!Packet
    /\ \A p \in D!Packet : p.cid \in Cid
BY LinkAssumption DEF D!Packet, D!Request, D!Return, D!Signal

(* What is in a sequence is of its type. *)
LEMMA Entries ==
    ASSUME NEW S, NEW q \in Seq(S)
    PROVE  Range(q) \subseteq S
BY LenProperties, ElementOfSeq DEF Range

(* A call that is over was sent, and a call that was sent was made. *)
LEMMA Stages ==
    /\ OverD \subseteq SentD /\ SentD \subseteq IdsD /\ IdsD \subseteq Cid
    /\ OverH \subseteq SentH /\ SentH \subseteq IdsH /\ IdsH \subseteq Cid
BY DEF OverD, SentD, IdsD, OverH, SentH, IdsH, Reached, Ids

(* The tables and histories of the calls made stay as they are. *)
LEMMA SameCalls ==
    ASSUME UNCHANGED <<stageD, drawnD, stageH, drawnH>>
    PROVE  UNCHANGED <<IdsD, SentD, OverD, IdsH, SentH, OverH>>
BY DEF OverD, SentD, IdsD, OverH, SentH, IdsH

-----------------------------------------------------------------------------
(* The link. *)

(* The device sends a call or return: it was on the send queue. *)
LEMMA DeviceSendsWay ==
    ASSUME IInv, NEW p \in D!Packet, D!Send(p),
           NEW q, q = toH \/ (toH # <<>> /\ q = Tail(toH)), toH' = Append(q, p),
           UNCHANGED <<host, toD, history>>
    PROVE  WayD'
<1>1. /\ UNCHANGED device
      /\ p \in Range(sendqD)
    BY DEF D!Send, D!Queued, D!vars, D!tables, D!recvVars, D!pool, device, Range
<1>2. UNCHANGED <<IdsD, SentD, OverD, IdsH, SentH, OverH>>
    BY <1>1, SameCalls DEF device, host, history, drawn
<1>3. /\ q \in Seq(D!Packet) /\ Range(q) \subseteq Range(toH)
      /\ Ordered(q, IdsD)
  <2>1. toH \in Seq(D!Packet) /\ Ordered(toH, IdsD)
      BY Packets DEF IInv, WayD, Closing
  <2>2. CASE toH # <<>> /\ q = Tail(toH)
      BY <2>1, <2>2, TailRange, TailOrdered
  <2> QED
      BY <2>1, <2>2
<1>4. Range(toH') = Range(q) \cup {p} /\ toH' \in Seq(D!Packet)
    BY <1>3, AppendRange
<1>5. /\ p.kind \in {"call", "return"} /\ p # None
      /\ p.kind = "call" => p.cid \notin OverD
    BY <1>1, PacketIsSome DEF IInv, WayD, Kinded, Once, Silent
<1>6. p.kind = "call" => p.cid \in SentD
    BY <1>1, <1>5 DEF IInv, WayD, Asked, CallsD, Seen
<1>7. CallsD' \subseteq CallsD
    BY <1>1, <1>3, <1>4 DEF CallsD, Seen, device, host
<1>8. SignalsD' \subseteq SignalsD
    BY <1>1, <1>3, <1>4, <1>5 DEF SignalsD, Seen, device, host
<1>9. Kinded(sendqD, fbqD, toH, rpcH, rpktH)'
    BY <1>1, <1>3, <1>4, <1>5 DEF IInv, WayD, Kinded, device, host
<1>10. Closing(toH, rpktH, IdsD)'
  <2>1. \A s \in Range(toH) \cup {rpktH} :
           s # None /\ s.kind \in {"ack", "nak"} /\ s.cid \in IdsD
              => s.cid \in OverD
      BY Stages DEF IInv, WayD, Signalled, SignalsD, Seen
  <2>2. Ordered(toH', IdsD)
    <3>1. p.kind = "call" =>
             \A s \in Range(q) : s.kind \in {"ack", "nak"} /\ s.cid \in IdsD
                                 => s.cid # p.cid
        BY <1>3, <1>5, <2>1, Packets, Entries, PacketIsSome DEF IInv
    <3> QED
        BY <1>3, <3>1, AppendOrdered
  <2> QED
      BY <1>1, <1>2, <1>3, <1>4, <1>5, <2>1, <2>2
      DEF IInv, WayD, Closing, Silent, device, host
<1>11. Taken(SentD, OverD, incH, toH, rpcH, rpktH, IdsH, accepted, lapsed)'
    BY <1>1, <1>2, <1>3, <1>4, <1>5
    DEF IInv, WayD, Taken, Closed, Silent, device, host, history
<1> QED
    BY <1>1, <1>2, <1>7, <1>8, <1>9, <1>10, <1>11
    DEF IInv, WayD, Asked, Same, Signalled, ReturnsD, device, host, history, drawn

(* It sends a signal: it was on the feedback queue. *)
LEMMA DeviceSignalsWay ==
    ASSUME IInv, NEW p \in D!Packet, D!SendFeedback(p),
           NEW q, q = toH \/ (toH # <<>> /\ q = Tail(toH)), toH' = Append(q, p),
           UNCHANGED <<host, toD, history>>
    PROVE  WayD'
<1>1. /\ fbqD # <<>> /\ p = Head(fbqD) /\ fbqD' = Tail(fbqD)
      /\ UNCHANGED <<stageD, requestD, incD, sendqD, jobsD, runningD, rpcD,
                     rpktD>>
    BY DEF D!SendFeedback, D!tables, D!pool, D!recvVars
<1>2. UNCHANGED <<IdsD, SentD, OverD, IdsH, SentH, OverH>>
    BY <1>1, SameCalls DEF host, history, drawn
<1>3. /\ q \in Seq(D!Packet) /\ Range(q) \subseteq Range(toH)
      /\ Ordered(q, IdsD)
  <2>1. toH \in Seq(D!Packet) /\ Ordered(toH, IdsD)
      BY Packets DEF IInv, WayD, Closing
  <2>2. CASE toH # <<>> /\ q = Tail(toH)
      BY <2>1, <2>2, TailRange, TailOrdered
  <2> QED
      BY <2>1, <2>2
<1>4. Range(toH') = Range(q) \cup {p} /\ toH' \in Seq(D!Packet)
    BY <1>3, AppendRange
<1>5. /\ p \in Range(fbqD) /\ Range(fbqD') \subseteq Range(fbqD)
      /\ p.kind \in {"ack", "nak"} /\ p # None
  <2>1. fbqD \in Seq(D!Packet)
      BY Packets DEF IInv
  <2>2. p \in Range(fbqD) /\ Range(fbqD') \subseteq Range(fbqD)
      BY <1>1, <2>1, TailRange
  <2> QED
      BY <2>2, PacketIsSome DEF IInv, WayD, Kinded
<1>6. CallsD' \subseteq CallsD
    BY <1>1, <1>3, <1>4, <1>5 DEF CallsD, Seen, host
<1>7. SignalsD' \subseteq SignalsD
    BY <1>1, <1>3, <1>4, <1>5 DEF SignalsD, Seen, host
<1>8. Kinded(sendqD, fbqD, toH, rpcH, rpktH)'
    BY <1>1, <1>3, <1>4, <1>5 DEF IInv, WayD, Kinded, host
<1>9. Closing(toH, rpktH, IdsD)'
  <2>1. Ordered(toH', IdsD)
      BY <1>3, <1>5, AppendOrdered
  <2> QED
      BY <1>2, <1>3, <1>4, <1>5, <2>1 DEF IInv, WayD, Closing, Silent, host
<1>10. Taken(SentD, OverD, incH, toH, rpcH, rpktH, IdsH, accepted, lapsed)'
    BY <1>2, <1>3, <1>4, <1>5
    DEF IInv, WayD, Taken, Closed, Silent, host, history
<1> QED
    BY <1>1, <1>2, <1>6, <1>7, <1>8, <1>9, <1>10
    DEF IInv, WayD, Asked, Same, Signalled, ReturnsD, host, history, drawn

(* The host sends a return or a signal. *)
LEMMA HostSendsWay ==
    ASSUME IInv, NEW p \in D!Packet, H!Send(p) \/ H!SendFeedback(p),
           NEW q, q = toD \/ (toD # <<>> /\ q = Tail(toD)), toD' = Append(q, p),
           UNCHANGED <<device, toH, history>>
    PROVE  WayD'
<1>1. /\ UNCHANGED <<stageH, requestH, incH, sendqH, jobsH, runningH, rpcH,
                     rpktH>>
      /\ p \in Range(sendqH) \/ p \in Range(fbqH)
  <2>1. CASE H!Send(p)
      BY <2>1 DEF H!Send, H!Queued, H!vars, H!tables, H!recvVars, H!pool, Range
  <2>2. CASE H!SendFeedback(p)
    <3>1. fbqH \in Seq(D!Packet) /\ fbqH # <<>> /\ p = Head(fbqH)
        BY <2>2, Packets DEF IInv, H!SendFeedback
    <3>2. p \in Range(fbqH)
        BY <3>1, TailRange
    <3> QED
        BY <2>2, <3>2 DEF H!SendFeedback, H!tables, H!recvVars, H!pool
  <2> QED
      BY <2>1, <2>2
<1>2. UNCHANGED <<IdsD, SentD, OverD, IdsH, SentH, OverH>>
    BY <1>1, SameCalls DEF device, history, drawn
<1>3. q \in Seq(D!Packet) /\ Range(q) \subseteq Range(toD)
  <2>1. toD \in Seq(D!Packet)
      BY Packets DEF IInv
  <2>2. CASE toD # <<>> /\ q = Tail(toD)
      BY <2>1, <2>2, TailRange
  <2> QED
      BY <2>1, <2>2
<1>4. Range(toD') = Range(q) \cup {p}
    BY <1>3, AppendRange
<1>5. p \in Range(fbqH) => p.kind \in {"ack", "nak"}
    BY DEF IInv, WayH, Kinded
<1>6. ReturnsD' \subseteq ReturnsD
    BY <1>1, <1>3, <1>4, <1>5 DEF ReturnsD, Seen, device
<1> QED
    BY <1>1, <1>2, <1>6
    DEF IInv, WayD, Returned, CallsD, SignalsD, device, history, drawn

(* A lost packet is missed by nothing that is known. *)
LEMMA LoseWay ==
    ASSUME IInv, Lose
    PROVE  WayD'
<1>1. UNCHANGED <<device, host, history>>
    BY DEF Lose
<1>2. UNCHANGED <<IdsD, SentD, OverD, IdsH, SentH, OverH>>
    BY <1>1, SameCalls DEF device, host, history, drawn
<1>3. CASE toD # <<>> /\ toD' = Tail(toD) /\ UNCHANGED toH
  <2>1. Range(toD') \subseteq Range(toD)
      BY <1>3, Packets, TailRange DEF IInv
  <2>2. ReturnsD' \subseteq ReturnsD
      BY <1>1, <2>1 DEF ReturnsD, Seen, device, host
  <2> QED
      BY <1>1, <1>2, <1>3, <2>2
      DEF IInv, WayD, Returned, CallsD, SignalsD, device, host, history, drawn
<1>4. CASE toH # <<>> /\ toH' = Tail(toH) /\ UNCHANGED toD
  <2>1. Range(toH') \subseteq Range(toH) /\ Ordered(toH', IdsD)
    <3>1. toH \in Seq(D!Packet) /\ Ordered(toH, IdsD)
        BY Packets DEF IInv, WayD, Closing
    <3> QED
        BY <1>4, <3>1, TailRange, TailOrdered
  <2>2. CallsD' \subseteq CallsD /\ SignalsD' \subseteq SignalsD
      BY <1>1, <2>1 DEF CallsD, SignalsD, Seen, device, host
  <2>3. Kinded(sendqD, fbqD, toH, rpcH, rpktH)'
      BY <1>1, <2>1 DEF IInv, WayD, Kinded, device, host
  <2>4. Closing(toH, rpktH, IdsD)'
      BY <1>1, <1>2, <2>1 DEF IInv, WayD, Closing, Silent, host
  <2>5. Taken(SentD, OverD, incH, toH, rpcH, rpktH, IdsH, accepted, lapsed)'
      BY <1>1, <1>2, <2>1 DEF IInv, WayD, Taken, Closed, Silent, host, history
  <2> QED
      BY <1>1, <1>2, <1>4, <2>2, <2>3, <2>4, <2>5
      DEF IInv, WayD, Asked, Same, Signalled, ReturnsD, device, host, history,
          drawn
<1> QED
    BY <1>3, <1>4 DEF Lose

-----------------------------------------------------------------------------
(* The host hears the device, ... *)

(* The host hears a signal or a return; what it answers is taken off its   *)
(* send queue.                                                             *)
LEMMA HostHearsAnswerWay ==
    ASSUME IInv, NEW p \in D!Packet, toH # <<>>, p = Head(toH),
           toH' = Tail(toH), H!RecvAnswer(p), UNCHANGED <<device, toD, history>>
    PROVE  WayD'
<1>1. /\ rpcH = "idle" /\ rpcH' = p.kind /\ rpktH' = p
      /\ p.kind \in {"ack", "nak", "return"}
      /\ sendqH' = H!Unqueue(sendqH, p.cid)
      /\ UNCHANGED <<stageH, requestH, incH, fbqH, jobsH, runningH>>
    BY DEF H!RecvAnswer, H!tables, H!pool
<1>2. UNCHANGED <<IdsD, SentD, OverD, IdsH, SentH, OverH>>
    BY <1>1, SameCalls DEF device, history, drawn
<1>3. Range(sendqH') \subseteq Range(sendqH)
  <2>1. sendqH' = D!Unqueue(sendqH, p.cid)
      BY <1>1, Unqueues
  <2> QED
      BY <2>1, Packets, UnqueueRange DEF IInv
<1>4. /\ p \in Range(toH) /\ Range(toH') \subseteq Range(toH)
      /\ Ordered(toH', IdsD)
      /\ p.kind \in {"ack", "nak"} /\ p.cid \in IdsD => Silent(toH', p.cid)
  <2>1. toH \in Seq(D!Packet) /\ Ordered(toH, IdsD)
      BY Packets DEF IInv, WayD, Closing
  <2> QED
      BY <2>1, TailRange, TailOrdered
<1>5. p # None
    BY PacketIsSome
<1>6. /\ CallsD' \subseteq CallsD /\ SignalsD' \subseteq SignalsD
      /\ ReturnsD' \subseteq ReturnsD
    BY <1>1, <1>3, <1>4, <1>5
    DEF CallsD, SignalsD, ReturnsD, Seen, device
<1>7. Kinded(sendqD, fbqD, toH, rpcH, rpktH)'
    BY <1>1, <1>4 DEF IInv, WayD, Kinded, device
<1>8. Closing(toH, rpktH, IdsD)'
    BY <1>1, <1>2, <1>4 DEF Closing
<1>9. Taken(SentD, OverD, incH, toH, rpcH, rpktH, IdsH, accepted, lapsed)'
    BY <1>1, <1>2, <1>4 DEF IInv, WayD, Taken, Closed, Silent, history
<1> QED
    BY <1>1, <1>2, <1>6, <1>7, <1>8, <1>9
    DEF IInv, WayD, Asked, Same, Signalled, Returned, device, history, drawn

(* It hears a call, ... *)
LEMMA HostHearsCallWay ==
    ASSUME IInv, NEW p \in D!Packet, toH # <<>>, p = Head(toH),
           toH' = Tail(toH), H!RecvCall(p), UNCHANGED <<device, toD, history>>
    PROVE  WayD'
<1>1. /\ rpcH = "idle" /\ p.kind \in {"call", "unknown"}
      /\ \/ /\ incH[p.cid] # None /\ UNCHANGED <<rpcH, rpktH>>
         \/ /\ incH[p.cid] = None /\ rpcH' = "check" /\ rpktH' = p
      /\ UNCHANGED <<stageH, requestH, incH, sendqH, jobsH, runningH>>
    BY DEF H!RecvCall, H!tables, H!pool, H!recvVars
<1>2. UNCHANGED <<IdsD, SentD, OverD, IdsH, SentH, OverH>>
    BY <1>1, SameCalls DEF device, history, drawn
<1>3. /\ p \in Range(toH) /\ Range(toH') \subseteq Range(toH)
      /\ Ordered(toH', IdsD)
  <2>1. toH \in Seq(D!Packet) /\ Ordered(toH, IdsD)
      BY Packets DEF IInv, WayD, Closing
  <2> QED
      BY <2>1, TailRange, TailOrdered
<1>4. p # None /\ rpktH = None /\ p.kind = "call"
    BY <1>1, <1>3, Packets, PacketIsSome DEF IInv, WayD, Kinded
<1>5. /\ CallsD' \subseteq CallsD /\ SignalsD' \subseteq SignalsD
    BY <1>1, <1>3, <1>4 DEF CallsD, SignalsD, Seen, device
<1>6. Kinded(sendqD, fbqD, toH, rpcH, rpktH)'
    BY <1>1, <1>3, <1>4 DEF IInv, WayD, Kinded, device
<1>7. Closing(toH, rpktH, IdsD)'
    BY <1>1, <1>2, <1>3, <1>4 DEF IInv, WayD, Closing, Silent
<1>8. Taken(SentD, OverD, incH, toH, rpcH, rpktH, IdsH, accepted, lapsed)'
    BY <1>1, <1>2, <1>3, <1>4
    DEF IInv, WayD, Taken, Closed, Silent, history
<1> QED
    BY <1>1, <1>2, <1>5, <1>6, <1>7, <1>8
    DEF IInv, WayD, Asked, Same, Signalled, ReturnsD, device, history, drawn

(* ... so whatever it hears. *)
LEMMA HostHearsWay ==
    ASSUME IInv, NEW p \in D!Packet, HostHears(p)
    PROVE  WayD'
<1>1. /\ toH # <<>> /\ p = Head(toH) /\ toH' = Tail(toH)
      /\ UNCHANGED <<device, toD, history>>
    BY DEF HostHears
<1>2. p.kind # "exception"
  <2>1. p \in Range(toH)
      BY <1>1, Packets, TailRange DEF IInv
  <2> QED
      BY <2>1 DEF IInv, WayD, Kinded
<1>3. H!RecvAnswer(p) \/ H!RecvCall(p)
    BY <1>2 DEF HostHears, H!Receive, H!RecvException
<1> QED
    BY <1>1, <1>3, HostHearsAnswerWay, HostHearsCallWay

(* ... takes its calls for service, ... *)

(* It looks whether it has that call already, ... *)
LEMMA HostChecksWay ==
    ASSUME IInv, H!ProcessCallCheck, UNCHANGED <<device, link, history>>
    PROVE  WayD'
<1>1. /\ rpcH = "check"
      /\ \/ rpcH' = "idle" /\ rpktH' = None
         \/ rpcH' = "push" /\ rpktH' = rpktH
      /\ UNCHANGED <<stageH, requestH, incH, sendqH, jobsH, runningH>>
    BY DEF H!ProcessCallCheck, H!RecvDone, H!tables, H!pool
<1>2. UNCHANGED <<IdsD, SentD, OverD, IdsH, SentH, OverH>>
    BY <1>1, SameCalls DEF device, history, drawn
<1>3. /\ CallsD' \subseteq CallsD /\ SignalsD' \subseteq SignalsD
    BY <1>1 DEF CallsD, SignalsD, Seen, device, link
<1>4. Kinded(sendqD, fbqD, toH, rpcH, rpktH)'
    BY <1>1 DEF IInv, WayD, Kinded, device, link
<1>5. Closing(toH, rpktH, IdsD)'
    BY <1>1, <1>2 DEF IInv, WayD, Closing, link
<1>6. Taken(SentD, OverD, incH, toH, rpcH, rpktH, IdsH, accepted, lapsed)'
    BY <1>1, <1>2 DEF IInv, WayD, Taken, Closed, history, link
<1> QED
    BY <1>1, <1>2, <1>3, <1>4, <1>5, <1>6
    DEF IInv, WayD, Asked, Same, Signalled, ReturnsD, device, link, history,
        drawn

(* ... and if not puts it on its table: once for each call, by Taken. *)
LEMMA HostAcceptsWay ==
    ASSUME IInv, HostAccepts
    PROVE  WayD'
<1>1. /\ rpcH = "push" /\ rpcH' = "idle" /\ rpktH' = None
      /\ incH' = [incH EXCEPT ![rpktH.cid] = rpktH.data]
      /\ jobsH' = Append(jobsH, [job |-> "serve", cid |-> rpktH.cid,
                                 data |-> rpktH.data])
      /\ accepted' = [accepted EXCEPT ![rpktH.cid] = @ + 1]
      /\ UNCHANGED <<stageH, requestH, sendqH, runningH, device, link, drawn,
                     answered, lapsed>>
    BY DEF HostAccepts, Accepts, H!ProcessCallPush, H!RecvDone, H!tables, H!pool
<1>2. UNCHANGED <<IdsD, SentD, OverD, IdsH, SentH, OverH>>
    BY <1>1, SameCalls DEF device, drawn
<1>3. /\ rpktH # None /\ rpktH.kind = "call" /\ rpktH.cid \in Cid
      /\ rpktH \in CallsD /\ rpktH.cid \in SentD /\ rpktH.data \in Sized
      /\ incH[rpktH.cid] = None
  <2>1. rpktH \in D!Packet /\ rpktH.kind = "call" /\ incH[rpktH.cid] = None
      BY <1>1, Packets DEF IInv, WayD, Kinded, Taken
  <2>2. rpktH \in CallsD
      BY <2>1, PacketIsSome DEF CallsD, Seen
  <2> QED
      BY <2>1, <2>2, PacketIsSome DEF IInv, WayD, Asked
<1>4. /\ CallsD' \subseteq CallsD /\ SignalsD' \subseteq SignalsD
    BY <1>1 DEF CallsD, SignalsD, Seen, device, link
<1>5. Kinded(sendqD, fbqD, toH, rpcH, rpktH)'
    BY <1>1 DEF IInv, WayD, Kinded, device, link
<1>6. incH \in [Cid -> Payload \cup {None}] /\ jobsH \in Seq(H!Job)
    BY DEF IInv, LinkType, H!TypeOK
<1>7. Same(CallsD, incH, stageD, requestD, drawnD)'
    BY <1>1, <1>3, <1>4, <1>6 DEF IInv, WayD, Same, device, drawn
<1>8. Served(incH, jobsH, runningH, SentD)'
  <2>1. PICK e \in H!Job :
           e = [job |-> "serve", cid |-> rpktH.cid, data |-> rpktH.data]
      BY <1>3, LinkAssumption DEF H!Job, H!Service
  <2>2. Range(jobsH') = Range(jobsH) \cup {e}
      BY <1>1, <1>6, <2>1, AppendRange
  <2>3. \A c \in Cid : incH'[c] # None => c \in SentD
      BY <1>1, <1>3, <1>6 DEF IInv, WayD, Served
  <2> QED
      BY <1>1, <1>2, <1>3, <2>1, <2>2, <2>3 DEF IInv, WayD, Served
<1>9. Closing(toH, rpktH, IdsD)'
    BY <1>1, <1>2 DEF IInv, WayD, Closing, link
<1>10. Taken(SentD, OverD, incH, toH, rpcH, rpktH, IdsH, accepted, lapsed)'
  <2>1. accepted \in [Cid -> Nat] /\ None \notin Sized
      BY LinkAssumption DEF IInv, LinkType
  <2> SUFFICES ASSUME NEW c \in Cid, c \notin lapsed, c \notin IdsH
               PROVE  \/ accepted'[c] = 0
                      \/ /\ accepted'[c] = 1 /\ c \in SentD
                         /\ incH'[c] # None \/ Closed(c, OverD, toH, None)
      BY <1>1, <1>2 DEF Taken, link
  <2>2. \/ accepted[c] = 0
        \/ /\ accepted[c] = 1 /\ c \in SentD
           /\ incH[c] # None \/ Closed(c, OverD, toH, rpktH)
      BY DEF IInv, WayD, Taken
  <2>3. CASE c = rpktH.cid
      BY <1>1, <1>3, <1>6, <2>1, <2>2, <2>3 DEF Closed
  <2>4. CASE c # rpktH.cid
      BY <1>1, <1>6, <2>1, <2>2, <2>4 DEF Closed
  <2> QED
      BY <2>3, <2>4
<1> QED
    BY <1>1, <1>2, <1>4, <1>5, <1>7, <1>8, <1>9, <1>10
    DEF IInv, WayD, Asked, Signalled, ReturnsD, device, link, drawn

(* ... hears that its answer arrived, or was of no use, ... *)

(* The host heeds a signal about a call of the device: it forgets the      *)
(* record, and no copy of the call follows the signal (Closing).           *)
LEMMA HostHeededWay ==
    ASSUME IInv, H!ProcessAck \/ H!ProcessNak, UNCHANGED <<device, link, history>>
    PROVE  WayD'
<1>1. /\ UNCHANGED <<stageH, requestH, sendqH, jobsH, runningH>>
      /\ \/ /\ rpcH = "ack" \/ rpcH = "nak"
            /\ incH' = [incH EXCEPT ![rpktH.cid] = None]
            /\ rpcH' = "idle" /\ rpktH' = None
         \/ rpcH = "nak" /\ rpcH' = "rejected" /\ UNCHANGED <<incH, rpktH>>
    BY DEF H!ProcessAck, H!ProcessNak, H!RecvDone, H!tables, H!pool
<1>2. UNCHANGED <<IdsD, SentD, OverD, IdsH, SentH, OverH>>
    BY <1>1, SameCalls DEF device, history, drawn
<1>3. /\ rpktH # None /\ rpktH.kind \in {"ack", "nak"}
      /\ rpktH.cid \in IdsD => rpktH.cid \in OverD /\ Silent(toH, rpktH.cid)
  <2>1. /\ rpktH # None /\ rpktH.kind \in {"ack", "nak"}
        /\ rpktH \in D!Packet
      BY <1>1, Packets DEF IInv, WayD, Kinded
  <2>2. rpktH \in SignalsD
      BY <2>1 DEF SignalsD, Seen
  <2> QED
      BY <2>1, <2>2, Stages DEF IInv, WayD, Signalled, Closing
<1>4. /\ CallsD' \subseteq CallsD /\ SignalsD' \subseteq SignalsD
    BY <1>1 DEF CallsD, SignalsD, Seen, device, link
<1>5. Kinded(sendqD, fbqD, toH, rpcH, rpktH)'
    BY <1>1, <1>3 DEF IInv, WayD, Kinded, device, link
<1>6. /\ incH \in [Cid -> Payload \cup {None}]
      /\ \A c \in Cid : incH'[c] = incH[c] \/ (incH'[c] = None /\ c = rpktH.cid
                                              /\ rpktH' = None)
    BY <1>1 DEF IInv, LinkType, H!TypeOK
<1>7. Same(CallsD, incH, stageD, requestD, drawnD)'
    BY <1>1, <1>4, <1>6 DEF IInv, WayD, Same, device, history, drawn
<1>8. Served(incH, jobsH, runningH, SentD)'
    BY <1>1, <1>2, <1>6 DEF IInv, WayD, Served
<1>9. Closing(toH, rpktH, IdsD)'
    BY <1>1, <1>2 DEF IInv, WayD, Closing, link
<1>10. Taken(SentD, OverD, incH, toH, rpcH, rpktH, IdsH, accepted, lapsed)'
  <2> SUFFICES ASSUME NEW c \in Cid, c \notin lapsed, c \notin IdsH
               PROVE  \/ accepted[c] = 0
                      \/ /\ accepted[c] = 1 /\ c \in SentD
                         /\ incH'[c] # None \/ Closed(c, OverD, toH, rpktH')
      BY <1>1, <1>2 DEF Taken, link, history
  <2>1. \/ accepted[c] = 0
        \/ /\ accepted[c] = 1 /\ c \in SentD
           /\ incH[c] # None \/ Closed(c, OverD, toH, rpktH)
      BY DEF IInv, WayD, Taken
  <2> QED
      BY <1>1, <1>3, <1>6, <2>1, Stages DEF Closed
<1> QED
    BY <1>1, <1>2, <1>4, <1>5, <1>7, <1>8, <1>9, <1>10
    DEF IInv, WayD, Asked, Signalled, ReturnsD, device, link, history, drawn

(* A signal of the device names no call of the host that is still waited   *)
(* for, so a nak ends none.                                                *)
LEMMA HostRejectsWay ==
    ASSUME IInv, H!ProcessNakOutgoing, UNCHANGED <<device, link, history>>
    PROVE  WayD'
<1>1. /\ rpcH = "rejected" /\ rpcH' = "idle" /\ rpktH' = None
      /\ UNCHANGED <<incH, runningH>>
    BY DEF H!ProcessNakOutgoing, H!RecvDone, H!pool
<1>2. rpktH # None /\ rpktH.kind = "nak" /\ rpktH.cid \in OverD
  <2>1. rpktH # None /\ rpktH.kind = "nak"
      BY <1>1, Packets DEF IInv, WayD, Kinded
  <2>2. rpktH \in SignalsD
      BY <2>1 DEF SignalsD, Seen
  <2> QED
      BY <2>1, <2>2 DEF IInv, WayD, Signalled
<1>3. H!Outgoing(rpktH.cid) = {}
  <2> SUFFICES ASSUME NEW k \in H!Live, requestH[k].cid = rpktH.cid
               PROVE  FALSE
      BY DEF H!Outgoing
  <2>1. /\ k \in 1 .. HCalls /\ stageH[k] \in {"parked", "active"}
        /\ drawnH \in [1 .. HCalls -> Cid \cup {None}]
      BY DEF H!Live, H!Active, H!Parked, H!Call, IInv, LinkType
  <2>2. drawnH[k] = rpktH.cid
      BY <2>1 DEF IInv, WayH, Tables
  <2>3. rpktH.cid \in IdsH
      BY <1>2, <2>1, <2>2, Stages DEF IdsH, Ids
  <2> QED
      BY <1>2, <2>3, Stages DEF IInv
<1>4. UNCHANGED <<stageH, requestH, sendqH, jobsH>>
    BY <1>3 DEF H!ProcessNakOutgoing, H!tables
<1>5. UNCHANGED <<IdsD, SentD, OverD, IdsH, SentH, OverH>>
    BY <1>4, SameCalls DEF device, history, drawn
<1>6. /\ CallsD' \subseteq CallsD /\ SignalsD' \subseteq SignalsD
    BY <1>1 DEF CallsD, SignalsD, Seen, device, link
<1>7. Kinded(sendqD, fbqD, toH, rpcH, rpktH)'
    BY <1>1 DEF IInv, WayD, Kinded, device, link
<1>8. Closing(toH, rpktH, IdsD)'
    BY <1>1, <1>5 DEF IInv, WayD, Closing, link
<1>9. Taken(SentD, OverD, incH, toH, rpcH, rpktH, IdsH, accepted, lapsed)'
    BY <1>1, <1>5 DEF IInv, WayD, Taken, Closed, history, link
<1> QED
    BY <1>1, <1>4, <1>5, <1>6, <1>7, <1>8, <1>9
    DEF IInv, WayD, Asked, Same, Served, Signalled, ReturnsD, device, link,
        history, drawn

(* ... serves the device's calls, ... *)

(* A worker of the host takes a job or runs a callback. *)
LEMMA HostWorksWay ==
    ASSUME IInv, NEW w \in Worker, HostWorks(w)
    PROVE  WayD'
<1>1. /\ UNCHANGED <<stageH, requestH, incH, sendqH, rpcH, rpktH, device, link,
                     history>>
      /\ \/ /\ jobsH # <<>> /\ jobsH' = Tail(jobsH)
            /\ runningH' = [runningH EXCEPT ![w] = Head(jobsH)]
         \/ /\ jobsH' = jobsH
            /\ runningH' = [runningH EXCEPT ![w] = None]
    BY DEF HostWorks, H!Take, H!Report, H!tables, H!recvVars
<1>2. UNCHANGED <<IdsD, SentD, OverD, IdsH, SentH, OverH>>
    BY <1>1, SameCalls DEF device, history, drawn
<1>3. /\ jobsH \in Seq(H!Job)
      /\ runningH \in [Worker -> H!Job \cup {None}]
    BY DEF IInv, LinkType, H!TypeOK
<1>4. Range(jobsH') \cup Range(runningH')
         \subseteq Range(jobsH) \cup Range(runningH) \cup {None}
  <2>1. CASE jobsH # <<>> /\ jobsH' = Tail(jobsH)
             /\ runningH' = [runningH EXCEPT ![w] = Head(jobsH)]
    <3>1. Head(jobsH) \in Range(jobsH) /\ Range(jobsH') \subseteq Range(jobsH)
        BY <1>3, <2>1, TailRange
    <3>2. \A v \in Worker : runningH'[v] \in {runningH[v], Head(jobsH)}
        BY <1>3, <2>1
    <3> QED
        BY <1>3, <2>1, <3>1, <3>2 DEF Range
  <2>2. CASE jobsH' = jobsH /\ runningH' = [runningH EXCEPT ![w] = None]
      BY <1>3, <2>2 DEF Range
  <2> QED
      BY <1>1, <2>1, <2>2
<1>5. Served(incH, jobsH, runningH, SentD)'
    BY <1>1, <1>2, <1>4 DEF IInv, WayD, Served
<1> QED
    BY <1>1, <1>2, <1>5
    DEF IInv, WayD, CallsD, SignalsD, ReturnsD, device, link, history, drawn

(* A handler of the host responds: its return is new on the send queue. *)
LEMMA HostAnswersWay ==
    ASSUME IInv, NEW w \in Worker, NEW d \in Sized, HostAnswers(w, d)
    PROVE  WayD'
<1> DEFINE c == runningH[w].cid
<1>1. /\ UNCHANGED <<stageH, requestH, incH, jobsH, rpcH, rpktH, device, link,
                     drawn, accepted, lapsed>>
      /\ runningH[w] # None /\ runningH[w].job = "serve"
      /\ runningH' = [runningH EXCEPT ![w] = None]
      /\ sendqH' = Append(sendqH, [kind |-> "return", cid |-> c, data |-> d])
      /\ answered' = answered \cup {<<c, d>>}
    BY DEF HostAnswers, Answers, H!Respond, H!tables, H!recvVars
<1>2. UNCHANGED <<IdsD, SentD, OverD, IdsH, SentH, OverH>>
    BY <1>1, SameCalls DEF device, drawn
<1>3. runningH \in [Worker -> H!Job \cup {None}]
    BY DEF IInv, LinkType, H!TypeOK
<1>4. Range(runningH') \subseteq Range(runningH) \cup {None}
      /\ runningH[w] \in Range(runningH)
    BY <1>1, <1>3 DEF Range
<1>5. c \in SentD
    BY <1>1, <1>4 DEF IInv, WayD, Served
<1>6. PICK e \in D!Packet : e = [kind |-> "return", cid |-> c, data |-> d]
    BY <1>5, Stages, LinkAssumption DEF D!Packet, D!Return
<1>7. Range(sendqH') = Range(sendqH) \cup {e}
    BY <1>1, <1>6, Packets, AppendRange DEF IInv
<1>8. Returned(ReturnsD, SentD, answered)'
  <2>1. ReturnsD' \subseteq ReturnsD \cup {e}
      BY <1>1, <1>7 DEF ReturnsD, Seen, device, link
  <2>2. e.cid = c /\ e.data = d /\ <<c, d>> \in answered'
      BY <1>1, <1>6
  <2>3. /\ SentD' = SentD /\ answered \subseteq answered'
        /\ Returned(ReturnsD, SentD, answered)
      BY <1>1, <1>2 DEF IInv, WayD
  <2> HIDE DEF c
  <2> QED
      BY <1>5, <2>1, <2>2, <2>3 DEF Returned
<1>9. Served(incH, jobsH, runningH, SentD)'
    BY <1>1, <1>2, <1>4 DEF IInv, WayD, Served
<1>10. Reported(jobsD, runningD, stageD, drawnD, answered)'
    BY <1>1 DEF IInv, WayD, Reported, device, drawn
<1> QED
    BY <1>1, <1>2, <1>8, <1>9, <1>10
    DEF IInv, WayD, CallsD, SignalsD, device, link, drawn

(* ... gives one up when its record expires, ... *)
LEMMA HostForgetsWay ==
    ASSUME IInv, NEW c \in Cid, HostForgets(c)
    PROVE  WayD'
<1>1. /\ UNCHANGED <<stageH, requestH, jobsH, runningH, rpcH, rpktH, device,
                     link, drawn, accepted, answered>>
      /\ incH' = [incH EXCEPT ![c] = None]
      /\ sendqH' = H!Unqueue(sendqH, c)
      /\ lapsed' = lapsed \cup {c}
    BY DEF HostForgets, Forgets, H!ExpireIncoming, H!tables, H!pool, H!recvVars
<1>2. UNCHANGED <<IdsD, SentD, OverD, IdsH, SentH, OverH>>
    BY <1>1, SameCalls DEF device, drawn
<1>3. Range(sendqH') \subseteq Range(sendqH)
  <2>1. sendqH' = D!Unqueue(sendqH, c)
      BY <1>1, Unqueues
  <2> QED
      BY <2>1, Packets, UnqueueRange DEF IInv
<1>4. /\ CallsD' = CallsD /\ SignalsD' = SignalsD
      /\ ReturnsD' \subseteq ReturnsD
    BY <1>1, <1>3 DEF CallsD, SignalsD, ReturnsD, Seen, device, link
<1>5. /\ incH \in [Cid -> Payload \cup {None}]
      /\ \A b \in Cid : incH'[b] = IF b = c THEN None ELSE incH[b]
    BY <1>1 DEF IInv, LinkType, H!TypeOK
<1>6. Same(CallsD, incH, stageD, requestD, drawnD)'
    BY <1>1, <1>4, <1>5 DEF IInv, WayD, Same, device, drawn
<1>7. Served(incH, jobsH, runningH, SentD)'
    BY <1>1, <1>2, <1>5 DEF IInv, WayD, Served
<1>8. Taken(SentD, OverD, incH, toH, rpcH, rpktH, IdsH, accepted, lapsed)'
  <2>1. rpcH \in {"check", "push"} => rpktH.cid \in Cid
      BY Packets, PacketIsSome DEF IInv
  <2> QED
      BY <1>1, <1>2, <1>5, <2>1 DEF IInv, WayD, Taken, link
<1> QED
    BY <1>1, <1>2, <1>4, <1>6, <1>7, <1>8
    DEF IInv, WayD, Returned, device, link, drawn

(* ... and makes calls of its own, which may end.                          *)
LEMMA HostTablesWay ==
    ASSUME IInv,
           UNCHANGED <<incH, runningH, device, link, drawnD, accepted, answered,
                       lapsed>>,
           UNCHANGED <<rpcH, rpktH>> \/ (rpcH' = "idle" /\ rpktH' = None),
           IdsH \subseteq IdsH', SentH \subseteq SentH',
           \A j \in Range(jobsH') : j \in Range(jobsH) \/ j.job = "finished",
           \A p \in Range(sendqH') : p \in Range(sendqH) \/ p.kind = "call"
    PROVE  WayD'
<1>1. UNCHANGED <<IdsD, SentD, OverD>>
    BY DEF IdsD, SentD, OverD, device
<1>2. /\ CallsD' \subseteq CallsD /\ SignalsD' \subseteq SignalsD
      /\ ReturnsD' \subseteq ReturnsD
    BY DEF CallsD, SignalsD, ReturnsD, Seen, device, link
<1>3. Kinded(sendqD, fbqD, toH, rpcH, rpktH)'
    BY DEF IInv, WayD, Kinded, device, link
<1>4. Closing(toH, rpktH, IdsD)'
    BY <1>1 DEF IInv, WayD, Closing, link
<1>5. Taken(SentD, OverD, incH, toH, rpcH, rpktH, IdsH, accepted, lapsed)'
    BY <1>1 DEF IInv, WayD, Taken, Closed, link
<1>6. Served(incH, jobsH, runningH, SentD)'
    BY <1>1 DEF IInv, WayD, Served
<1>7. Signalled(SignalsD, SentH, OverD)'
    BY <1>1, <1>2 DEF IInv, WayD, Signalled
<1> QED
    BY <1>1, <1>2, <1>3, <1>4, <1>5, <1>6, <1>7
    DEF IInv, WayD, Asked, Same, Returned, device, link

(* The host makes a call, with an id nobody drew. *)
LEMMA HostCallsWay ==
    ASSUME IInv, NEW k \in 1 .. HCalls, NEW c \in Cid, NEW d \in Sized,
           HostCalls(k, c, d)
    PROVE  WayD'
<1> DEFINE p == [kind |-> "call", cid |-> c, data |-> d]
<1>1. /\ UNCHANGED <<incH, jobsH, runningH, rpcH, rpktH, device, link, drawnD,
                     accepted, answered, lapsed>>
      /\ stageH[k] = "unborn"
      /\ drawnH' = [drawnH EXCEPT ![k] = c]
      /\ sendqH' = sendqH \/ sendqH' = Append(sendqH, p)
    BY DEF HostCalls, H!DoCall, H!pool, H!recvVars
<1>2. PICK j \in 1 .. HCalls :
         /\ stageH[j] = "unborn"
         /\ \/ stageH' = [stageH EXCEPT ![j] = "parked"]
            \/ stageH' = [stageH EXCEPT ![j] = "active"]
    BY DEF HostCalls, H!DoCall, H!Call
<1>3. /\ drawnH \in [1 .. HCalls -> Cid \cup {None}]
      /\ stageH \in [1 .. HCalls -> H!Stage]
      /\ drawnH[k] = None /\ drawnH[j] = None /\ None \notin Cid
    BY <1>1, <1>2, LinkAssumption
    DEF IInv, LinkType, H!TypeOK, H!Call, WayH, Tables
<1>4. IdsH \subseteq IdsH' /\ SentH \subseteq SentH'
    BY <1>1, <1>2, <1>3 DEF IdsH, SentH, Ids, Reached
<1>5. \A e \in Range(sendqH') : e \in Range(sendqH) \/ e.kind = "call"
  <2>1. PICK e \in D!Packet : e = p
      BY LinkAssumption DEF D!Packet, D!Request
  <2>2. Range(Append(sendqH, e)) = Range(sendqH) \cup {e}
      BY Packets, AppendRange DEF IInv
  <2>3. e.kind = "call" /\ (sendqH' = sendqH \/ sendqH' = Append(sendqH, e))
      BY <1>1, <2>1
  <2> QED
      BY <2>2, <2>3
<1> QED
    BY <1>1, <1>4, <1>5, HostTablesWay

(* A call of the host ends, for whatever reason. *)
LEMMA HostFinishesWay ==
    ASSUME IInv, NEW k \in H!Live, NEW r \in H!Reason,
           NEW data \in Payload \cup {None},
           NEW q \in Seq(D!Packet), Range(q) \subseteq Range(sendqH),
           H!Finish(k, r, data, q),
           UNCHANGED <<rpcH, rpktH>> \/ (rpcH' = "idle" /\ rpktH' = None),
           UNCHANGED <<incH, runningH, device, link, history>>
    PROVE  WayD'
<1>1. /\ drawnH \in [1 .. HCalls -> Cid \cup {None}]
      /\ stageH \in [1 .. HCalls -> H!Stage]
      /\ k \in 1 .. HCalls /\ stageH[k] \in {"parked", "active"}
      /\ jobsH \in Seq(H!Job)
    BY DEF IInv, LinkType, H!TypeOK, H!Call, H!Live, H!Active, H!Parked
<1>2. \/ stageH' = [stageH EXCEPT ![k] = "done"] /\ sendqH' = q
      \/ \E n \in 1 .. HCalls :
            /\ stageH[n] = "parked"
            /\ stageH' = [stageH EXCEPT ![k] = "done", ![n] = "active"]
            /\ sendqH' = Append(q, requestH[n])
    BY DEF H!Finish, H!OutgoingCallFinished, H!Newest, H!Parked, H!Call
<1>3. IdsH \subseteq IdsH' /\ SentH \subseteq SentH'
    BY <1>1, <1>2 DEF IdsH, SentH, Ids, Reached, history, drawn
<1>4. \A p \in Range(sendqH') : p \in Range(sendqH) \/ p.kind = "call"
  <2>1. ASSUME NEW n \in 1 .. HCalls, stageH[n] = "parked",
               sendqH' = Append(q, requestH[n])
        PROVE  \A p \in Range(sendqH') : p \in Range(sendqH) \/ p.kind = "call"
    <3>1. requestH[n].kind = "call"
        BY <1>1, <2>1 DEF IInv, WayH, Tables
    <3>2. requestH[n] \in D!Packet
      <4>1. requestH[n] \in H!Request
          BY <2>1 DEF IInv, LinkType, H!TypeOK, H!Live, H!Parked, H!Call
      <4> QED
          BY <4>1 DEF H!Request, D!Packet, D!Request
    <3>3. Range(sendqH') = Range(q) \cup {requestH[n]}
        BY <2>1, <3>2, AppendRange
    <3> QED
        BY <3>1, <3>3
  <2> QED
      BY <1>2, <2>1
<1>5. \A j \in Range(jobsH') : j \in Range(jobsH) \/ j.job = "finished"
  <2>1. PICK e \in H!Job :
           e = [job |-> "finished", call |-> k, reason |-> r, data |-> data]
      BY <1>1 DEF H!Job, H!Completion, H!Call
  <2>2. Range(jobsH') = Range(jobsH) \cup {e}
      BY <1>1, <2>1, AppendRange DEF H!Finish
  <2> QED
      BY <2>1, <2>2
<1> QED
    BY <1>3, <1>4, <1>5, HostTablesWay DEF history, drawn

(* A return ends one, ... *)
LEMMA HostReturnsWay ==
    ASSUME IInv, H!ProcessReturn, UNCHANGED <<device, link, history>>
    PROVE  WayD'
<1>1. /\ rpcH = "return" /\ rpcH' = "idle" /\ rpktH' = None
      /\ UNCHANGED <<incH, runningH>>
    BY DEF H!ProcessReturn, H!RecvDone, H!pool
<1>2. sendqH \in Seq(D!Packet)
    BY Packets DEF IInv
<1>3. ASSUME NEW k \in H!Outgoing(rpktH.cid),
             \/ H!Finish(k, "success", rpktH.data, sendqH)
             \/ H!Finish(k, "size_mismatch", None, sendqH)
      PROVE  WayD'
  <2>1. /\ k \in H!Live /\ "success" \in H!Reason
        /\ "size_mismatch" \in H!Reason
      BY DEF H!Outgoing, H!Reason
  <2>2. rpktH.data \in Payload
      BY <1>1 DEF IInv, LinkType, H!TypeOK, H!Return
  <2> QED
      BY <1>1, <1>2, <1>3, <2>1, <2>2, HostFinishesWay
<1>4. CASE UNCHANGED <<stageH, requestH, sendqH, jobsH>>
  <2>1. UNCHANGED <<IdsH, SentH>>
      BY <1>4 DEF IdsH, SentH, history, drawn
  <2> QED
      BY <1>1, <1>4, <2>1, HostTablesWay DEF history, drawn
<1> QED
    BY <1>3, <1>4 DEF H!ProcessReturn, H!tables

(* ... or its time does. *)
LEMMA HostExpiresWay ==
    ASSUME IInv, NEW k \in 1 .. HCalls, HostExpires(k)
    PROVE  WayD'
<1>1. /\ k \in H!Live /\ "expired" \in H!Reason
      /\ H!Finish(k, "expired", None, H!Unqueue(sendqH, requestH[k].cid))
      /\ UNCHANGED <<rpcH, rpktH, incH, runningH, device, link, history>>
    BY DEF HostExpires, H!ExpireOutgoing, H!Live, H!Reason, H!pool, H!recvVars
<1>2. PICK q : q = H!Unqueue(sendqH, requestH[k].cid)
    OBVIOUS
<1>3. q \in Seq(D!Packet) /\ Range(q) \subseteq Range(sendqH)
    BY <1>2, Packets, UnqueueRange, Unqueues DEF IInv
<1> QED
    BY <1>1, <1>2, <1>3, HostFinishesWay

-----------------------------------------------------------------------------
(* The device hears the host, ... *)

(* What the device sends under the id of one of its calls is that call. *)
LEMMA OwnIds ==
    ASSUME IInv, NEW p \in Range(sendqD), p.cid \in IdsD
    PROVE  p.kind = "call"
<1>1. p \in D!Packet /\ p.kind \in {"call", "return"}
    BY Packets, Entries DEF IInv, WayD, Kinded
<1>2. ASSUME p.kind = "return"
      PROVE  FALSE
  <2>1. p \in ReturnsH
      BY <1>1, <1>2, PacketIsSome DEF ReturnsH, Seen
  <2>2. p.cid \in IdsH
      BY <2>1, Stages DEF IInv, WayH, Returned
  <2> QED
      BY <2>2 DEF IInv
<1> QED
    BY <1>1, <1>2

(* The device hears a signal or a return: its call is no longer resent. *)
LEMMA DeviceHearsAnswerWay ==
    ASSUME IInv, NEW p \in D!Packet, toD # <<>>, p = Head(toD),
           toD' = Tail(toD), D!RecvAnswer(p), UNCHANGED <<host, toH, history>>
    PROVE  WayD'
<1>1. /\ rpcD' = p.kind /\ rpktD' = p
      /\ p.kind \in {"ack", "nak", "return"}
      /\ sendqD' = D!Unqueue(sendqD, p.cid)
      /\ UNCHANGED <<stageD, requestD, incD, fbqD, jobsD, runningD>>
    BY DEF D!RecvAnswer, D!tables, D!pool
<1>2. UNCHANGED <<IdsD, SentD, OverD, IdsH, SentH, OverH>>
    BY <1>1, SameCalls DEF host, history, drawn
<1>3. p \in Range(toD) /\ Range(toD') \subseteq Range(toD) /\ p # None
    BY Packets, TailRange, PacketIsSome DEF IInv
<1>4. /\ Range(sendqD') \subseteq Range(sendqD)
      /\ Single(sendqD')
      /\ (\A e \in Range(sendqD) : e.cid = p.cid => e.kind = "call")
            => Silent(sendqD', p.cid)
    BY <1>1, Packets, UnqueueRange DEF IInv, WayD, Once
<1>5. /\ CallsD' \subseteq CallsD /\ SignalsD' \subseteq SignalsD
      /\ ReturnsD' \subseteq ReturnsD
    BY <1>1, <1>3, <1>4 DEF CallsD, SignalsD, ReturnsD, Seen, host
<1>6. Kinded(sendqD, fbqD, toH, rpcH, rpktH)'
    BY <1>1, <1>4 DEF IInv, WayD, Kinded, host
<1>7. Once(sendqD, OverD, rpcD, rpktD)'
  <2>1. ASSUME p.kind = "return"
        PROVE  Silent(sendqD', p.cid)
    <3>1. p \in ReturnsD
        BY <1>3, <2>1 DEF ReturnsD, Seen
    <3>2. p.cid \in IdsD
        BY <3>1, Stages DEF IInv, WayD, Returned
    <3>3. \A e \in Range(sendqD) : e.cid = p.cid => e.kind = "call"
        BY <3>2, OwnIds
    <3> QED
        BY <1>4, <3>3
  <2> QED
      BY <1>1, <1>2, <1>4, <2>1 DEF IInv, WayD, Once, Silent
<1> QED
    BY <1>1, <1>2, <1>5, <1>6, <1>7
    DEF IInv, WayD, Asked, Same, Signalled, Returned, host, history, drawn

(* It hears a call of the host, ... *)
LEMMA DeviceHearsCallWay ==
    ASSUME IInv, NEW p \in D!Packet, toD # <<>>, p = Head(toD),
           toD' = Tail(toD), D!RecvCall(p), UNCHANGED <<host, toH, history>>
    PROVE  WayD'
<1>1. /\ rpcD = "idle" /\ p.kind \in {"call", "unknown"}
      /\ \/ /\ incD[p.cid] # None /\ UNCHANGED <<rpcD, rpktD>>
            /\ fbqD' = Append(fbqD, D!Feedback(IF incD[p.cid] = p.data THEN "ack"
                                               ELSE "nak", p.cid))
         \/ /\ rpcD' = "check" /\ rpktD' = p /\ UNCHANGED fbqD
      /\ UNCHANGED <<stageD, requestD, incD, sendqD, jobsD, runningD>>
    BY DEF D!RecvCall, D!tables, D!pool, D!recvVars
<1>2. UNCHANGED <<IdsD, SentD, OverD, IdsH, SentH, OverH>>
    BY <1>1, SameCalls DEF host, history, drawn
<1>3. p \in Range(toD) /\ Range(toD') \subseteq Range(toD) /\ p # None
      /\ p.cid \in Cid
    BY Packets, TailRange, PacketIsSome DEF IInv
<1>4. p.kind = "call"
    BY <1>1, <1>3 DEF IInv, WayH, Kinded
<1>5. p \in CallsH /\ p.cid \in SentH
  <2>1. p \in CallsH
      BY <1>3, <1>4 DEF CallsH, Seen
  <2> QED
      BY <2>1 DEF IInv, WayH, Asked
<1>6. CallsD' \subseteq CallsD /\ ReturnsD' \subseteq ReturnsD
    BY <1>1, <1>3, <1>4 DEF CallsD, ReturnsD, Seen, host
<1>7. \A s \in Range(fbqD') :
         s \in Range(fbqD) \/ (s.kind = "ack" /\ s.cid = p.cid)
  <2>1. CASE incD[p.cid] # None
    <3>1. incD[p.cid] = p.data
        BY <1>3, <1>5, <2>1 DEF IInv, WayH, Same
    <3>2. PICK e \in D!Packet : e = [kind |-> "ack", cid |-> p.cid, data |-> None]
        BY <1>3 DEF D!Packet, D!Signal
    <3>3. Range(Append(fbqD, e)) = Range(fbqD) \cup {e}
        BY Packets, AppendRange DEF IInv
    <3>4. fbqD' = fbqD \/ fbqD' = Append(fbqD, e)
        BY <1>1, <3>1, <3>2 DEF D!Feedback
    <3>5. e.kind = "ack" /\ e.cid = p.cid
        BY <3>2
    <3> QED
        BY <3>3, <3>4, <3>5
  <2> QED
      BY <1>1, <2>1
<1>8. Signalled(SignalsD, SentH, OverD)'
  <2>1. \A s \in SignalsD' : s \in SignalsD \/ (s.kind = "ack" /\ s.cid = p.cid)
      BY <1>7 DEF SignalsD, Seen, host
  <2> QED
      BY <1>2, <1>5, <2>1 DEF IInv, WayD, Signalled
<1>9. Kinded(sendqD, fbqD, toH, rpcH, rpktH)'
    BY <1>1, <1>7 DEF IInv, WayD, Kinded, host
<1>10. Once(sendqD, OverD, rpcD, rpktD)'
    BY <1>1, <1>2 DEF IInv, WayD, Once
<1> QED
    BY <1>1, <1>2, <1>6, <1>8, <1>9, <1>10
    DEF IInv, WayD, Asked, Same, Returned, host, history, drawn

(* ... so whatever it hears. *)
LEMMA DeviceHearsWay ==
    ASSUME IInv, NEW p \in D!Packet, DeviceHears(p)
    PROVE  WayD'
<1>1. /\ toD # <<>> /\ p = Head(toD) /\ toD' = Tail(toD)
      /\ UNCHANGED <<host, toH, history>>
    BY DEF DeviceHears
<1>2. p.kind # "exception"
  <2>1. p \in Range(toD)
      BY <1>1, Packets, TailRange DEF IInv
  <2> QED
      BY <2>1 DEF IInv, WayH, Kinded
<1>3. D!RecvAnswer(p) \/ D!RecvCall(p)
    BY <1>2 DEF DeviceHears, D!Receive, D!RecvException
<1> QED
    BY <1>1, <1>3, DeviceHearsAnswerWay, DeviceHearsCallWay

(* ... takes its calls for service, which is no matter of its own, ... *)

(* It looks whether it has that call already, ... *)
LEMMA DeviceChecksWay ==
    ASSUME IInv, D!ProcessCallCheck, UNCHANGED <<host, link, history>>
    PROVE  WayD'
<1>1. /\ rpcD = "check"
      /\ UNCHANGED <<stageD, requestD, incD, sendqD, jobsD, runningD>>
    BY DEF D!ProcessCallCheck, D!tables, D!pool
<1>2. UNCHANGED <<IdsD, SentD, OverD, IdsH, SentH, OverH>>
    BY <1>1, SameCalls DEF host, history, drawn
<1>3. /\ rpktD # None /\ rpktD.kind = "call" /\ rpktD.cid \in Cid
      /\ rpktD.cid \in SentH /\ rpktD.data \in Sized
  <2>1. rpktD # None /\ rpktD.kind = "call" /\ rpktD.cid \in Cid
      BY <1>1, Packets, PacketIsSome DEF IInv, WayH, Kinded
  <2>2. rpktD \in CallsH
      BY <2>1 DEF CallsH, Seen
  <2> QED
      BY <2>1, <2>2 DEF IInv, WayH, Asked
<1>4. D!Outgoing(rpktD.cid) = {}
  <2> SUFFICES ASSUME NEW k \in D!Live, requestD[k].cid = rpktD.cid
               PROVE  FALSE
      BY DEF D!Outgoing
  <2>1. /\ k \in 1 .. DCalls /\ stageD[k] \in {"parked", "active"}
        /\ drawnD \in [1 .. DCalls -> Cid \cup {None}]
      BY DEF D!Live, D!Active, D!Parked, D!Call, IInv, LinkType
  <2>2. drawnD[k] = rpktD.cid
      BY <2>1 DEF IInv, WayD, Tables
  <2>3. rpktD.cid \in IdsD
      BY <1>3, <2>1, <2>2 DEF IdsD, Ids
  <2> QED
      BY <1>3, <2>3, Stages DEF IInv
<1>5. /\ rpcD' = "push" /\ rpktD' = rpktD
      /\ fbqD' = Append(fbqD, [kind |-> "ack", cid |-> rpktD.cid, data |-> None])
    BY <1>3, <1>4 DEF D!ProcessCallCheck, D!Feedback
<1>6. \A s \in Range(fbqD') :
         s \in Range(fbqD) \/ (s.kind = "ack" /\ s.cid \in SentH)
  <2>1. PICK e \in D!Packet :
           e = [kind |-> "ack", cid |-> rpktD.cid, data |-> None]
      BY <1>3 DEF D!Packet, D!Signal
  <2>2. Range(fbqD') = Range(fbqD) \cup {e}
      BY <1>5, <2>1, Packets, AppendRange DEF IInv
  <2>3. e.kind = "ack" /\ e.cid \in SentH
      BY <1>3, <2>1
  <2> QED
      BY <2>2, <2>3
<1>7. CallsD' \subseteq CallsD /\ ReturnsD' \subseteq ReturnsD
    BY <1>1, <1>5 DEF CallsD, ReturnsD, Seen, host, link
<1>8. Signalled(SignalsD, SentH, OverD)'
  <2>1. \A s \in SignalsD' : s \in SignalsD \/ (s.kind = "ack" /\ s.cid \in SentH)
      BY <1>6 DEF SignalsD, Seen, host, link
  <2> QED
      BY <1>2, <2>1 DEF IInv, WayD, Signalled
<1>9. Kinded(sendqD, fbqD, toH, rpcH, rpktH)'
    BY <1>1, <1>6 DEF IInv, WayD, Kinded, host, link
<1>10. Once(sendqD, OverD, rpcD, rpktD)'
    BY <1>1, <1>2, <1>5 DEF IInv, WayD, Once
<1> QED
    BY <1>1, <1>2, <1>7, <1>8, <1>9, <1>10
    DEF IInv, WayD, Asked, Same, Returned, host, link, history, drawn

(* ... and if not puts it on its table. *)
LEMMA DeviceAcceptsWay ==
    ASSUME IInv, DeviceAccepts
    PROVE  WayD'
<1>1. /\ rpcD = "push" /\ rpcD' = "idle" /\ rpktD' = None
      /\ jobsD' = Append(jobsD, [job |-> "serve", cid |-> rpktD.cid,
                                 data |-> rpktD.data])
      /\ accepted' = [accepted EXCEPT ![rpktD.cid] = @ + 1]
      /\ UNCHANGED <<stageD, requestD, sendqD, fbqD, runningD, host, link, drawn,
                     answered, lapsed>>
    BY DEF DeviceAccepts, Accepts, D!ProcessCallPush, D!RecvDone, D!tables,
           D!pool
<1>2. UNCHANGED <<IdsD, SentD, OverD, IdsH, SentH, OverH>>
    BY <1>1, SameCalls DEF host, drawn
<1>3. /\ rpktD # None /\ rpktD.kind = "call" /\ rpktD.cid \in Cid
      /\ rpktD.cid \in IdsH /\ rpktD.data \in Sized
  <2>1. rpktD # None /\ rpktD.kind = "call" /\ rpktD.cid \in Cid
      BY <1>1, Packets, PacketIsSome DEF IInv, WayH, Kinded
  <2>2. rpktD \in CallsH
      BY <2>1 DEF CallsH, Seen
  <2> QED
      BY <2>1, <2>2, Stages DEF IInv, WayH, Asked
<1>4. CallsD' \subseteq CallsD /\ ReturnsD' \subseteq ReturnsD
    BY <1>1 DEF CallsD, ReturnsD, Seen, host, link
<1>5. Reported(jobsD, runningD, stageD, drawnD, answered)'
  <2>1. PICK e \in D!Job :
           e = [job |-> "serve", cid |-> rpktD.cid, data |-> rpktD.data]
      BY <1>3, LinkAssumption DEF D!Job, D!Service
  <2>2. jobsD \in Seq(D!Job)
      BY DEF IInv, LinkType, D!TypeOK
  <2>3. Range(jobsD') = Range(jobsD) \cup {e}
      BY <1>1, <2>1, <2>2, AppendRange
  <2>4. Ended(jobsD', runningD) \subseteq Ended(jobsD, runningD)
      BY <2>1, <2>3 DEF Ended
  <2> QED
      BY <1>1, <2>4 DEF IInv, WayD, Reported, drawn
<1>6. Once(sendqD, OverD, rpcD, rpktD)'
    BY <1>1, <1>2 DEF IInv, WayD, Once
<1>7. Taken(SentD, OverD, incH, toH, rpcH, rpktH, IdsH, accepted, lapsed)'
  <2>1. \A c \in Cid \ IdsH : accepted'[c] = accepted[c]
      BY <1>1, <1>3 DEF IInv, LinkType
  <2> QED
      BY <1>1, <1>2, <2>1 DEF IInv, WayD, Taken, host, link
<1> QED
    BY <1>1, <1>2, <1>4, <1>5, <1>6, <1>7
    DEF IInv, WayD, Asked, Same, Returned, SignalsD, host, link, drawn

(* ... hears that its answer arrived, or was of no use, ... *)

(* The device heeds a signal about a call of the host: it forgets the      *)
(* record.                                                                 *)
LEMMA DeviceHeededWay ==
    ASSUME IInv, D!ProcessAck \/ D!ProcessNak, UNCHANGED <<host, link, history>>
    PROVE  WayD'
<1>1. /\ UNCHANGED <<stageD, requestD, sendqD, fbqD, jobsD, runningD>>
      /\ \/ rpcD' = "idle" /\ rpktD' = None
         \/ rpcD' = "rejected" /\ UNCHANGED rpktD
    BY DEF D!ProcessAck, D!ProcessNak, D!RecvDone, D!tables, D!pool
<1>2. UNCHANGED <<IdsD, SentD, OverD, IdsH, SentH, OverH>>
    BY <1>1, SameCalls DEF host, history, drawn
<1>3. ReturnsD' \subseteq ReturnsD
    BY <1>1 DEF ReturnsD, Seen, host, link
<1>4. Once(sendqD, OverD, rpcD, rpktD)'
    BY <1>1, <1>2 DEF IInv, WayD, Once
<1> QED
    BY <1>1, <1>2, <1>3, <1>4
    DEF IInv, WayD, CallsD, SignalsD, Returned, host, link, history, drawn

(* The host's signals end no call of the device either.                    *)
LEMMA DeviceRejectsWay ==
    ASSUME IInv, D!ProcessNakOutgoing, UNCHANGED <<host, link, history>>
    PROVE  WayD'
<1>1. /\ rpcD = "rejected" /\ rpcD' = "idle" /\ rpktD' = None
      /\ UNCHANGED <<incD, fbqD, runningD>>
    BY DEF D!ProcessNakOutgoing, D!RecvDone, D!pool
<1>2. rpktD # None /\ rpktD.kind = "nak" /\ rpktD.cid \in OverH
  <2>1. rpktD # None /\ rpktD.kind = "nak"
      BY <1>1, Packets DEF IInv, WayH, Kinded
  <2>2. rpktD \in SignalsH
      BY <2>1 DEF SignalsH, Seen
  <2> QED
      BY <2>1, <2>2 DEF IInv, WayH, Signalled
<1>3. D!Outgoing(rpktD.cid) = {}
  <2> SUFFICES ASSUME NEW k \in D!Live, requestD[k].cid = rpktD.cid
               PROVE  FALSE
      BY DEF D!Outgoing
  <2>1. /\ k \in 1 .. DCalls /\ stageD[k] \in {"parked", "active"}
        /\ drawnD \in [1 .. DCalls -> Cid \cup {None}]
      BY DEF D!Live, D!Active, D!Parked, D!Call, IInv, LinkType
  <2>2. drawnD[k] = rpktD.cid
      BY <2>1 DEF IInv, WayD, Tables
  <2>3. rpktD.cid \in IdsD
      BY <1>2, <2>1, <2>2, Stages DEF IdsD, Ids
  <2> QED
      BY <1>2, <2>3, Stages DEF IInv
<1>4. UNCHANGED <<stageD, requestD, sendqD, jobsD>>
    BY <1>3 DEF D!ProcessNakOutgoing, D!tables
<1>5. UNCHANGED <<IdsD, SentD, OverD, IdsH, SentH, OverH>>
    BY <1>4, SameCalls DEF host, history, drawn
<1>6. ReturnsD' \subseteq ReturnsD
    BY <1>1, <1>4 DEF ReturnsD, Seen, host, link
<1>7. Once(sendqD, OverD, rpcD, rpktD)'
    BY <1>1, <1>4, <1>5 DEF IInv, WayD, Once
<1> QED
    BY <1>1, <1>4, <1>5, <1>6, <1>7
    DEF IInv, WayD, CallsD, SignalsD, Returned, host, link, history, drawn

(* ... runs callbacks and handlers, ... *)

(* A worker of the device takes a job or runs a callback. *)
LEMMA DeviceWorksWay ==
    ASSUME IInv, NEW w \in Worker, DeviceWorks(w)
    PROVE  WayD'
<1>1. /\ UNCHANGED <<stageD, requestD, incD, sendqD, fbqD, rpcD, rpktD, host,
                     link, history>>
      /\ \/ /\ jobsD # <<>> /\ jobsD' = Tail(jobsD)
            /\ runningD' = [runningD EXCEPT ![w] = Head(jobsD)]
         \/ /\ jobsD' = jobsD
            /\ runningD' = [runningD EXCEPT ![w] = None]
    BY DEF DeviceWorks, D!Take, D!Report, D!tables, D!recvVars
<1>2. UNCHANGED <<IdsD, SentD, OverD, IdsH, SentH, OverH>>
    BY <1>1, SameCalls DEF host, history, drawn
<1>3. /\ jobsD \in Seq(D!Job)
      /\ runningD \in [Worker -> D!Job \cup {None}]
    BY DEF IInv, LinkType, D!TypeOK
<1>4. Range(jobsD') \cup Range(runningD')
         \subseteq Range(jobsD) \cup Range(runningD) \cup {None}
  <2>1. CASE jobsD # <<>> /\ jobsD' = Tail(jobsD)
             /\ runningD' = [runningD EXCEPT ![w] = Head(jobsD)]
    <3>1. Head(jobsD) \in Range(jobsD) /\ Range(jobsD') \subseteq Range(jobsD)
        BY <1>3, <2>1, TailRange
    <3>2. \A v \in Worker : runningD'[v] \in {runningD[v], Head(jobsD)}
        BY <1>3, <2>1
    <3> QED
        BY <1>3, <2>1, <3>1, <3>2 DEF Range
  <2>2. CASE jobsD' = jobsD /\ runningD' = [runningD EXCEPT ![w] = None]
      BY <1>3, <2>2 DEF Range
  <2> QED
      BY <1>1, <2>1, <2>2
<1>5. Reported(jobsD, runningD, stageD, drawnD, answered)'
  <2>1. Ended(jobsD', runningD') \subseteq Ended(jobsD, runningD)
      BY <1>4 DEF Ended
  <2> QED
      BY <1>1, <2>1 DEF IInv, WayD, Reported, history, drawn
<1> QED
    BY <1>1, <1>2, <1>5
    DEF IInv, WayD, CallsD, SignalsD, ReturnsD, host, link, history, drawn

(* A handler of the device responds. *)
LEMMA DeviceAnswersWay ==
    ASSUME IInv, NEW w \in Worker, NEW d \in Sized, DeviceAnswers(w, d)
    PROVE  WayD'
<1> DEFINE c == runningD[w].cid
<1>1. /\ UNCHANGED <<stageD, requestD, incD, fbqD, jobsD, rpcD, rpktD, host,
                     link, drawn, accepted, lapsed>>
      /\ runningD[w] # None /\ runningD[w].job = "serve"
      /\ runningD' = [runningD EXCEPT ![w] = None]
      /\ sendqD' = Append(sendqD, [kind |-> "return", cid |-> c, data |-> d])
      /\ answered' = answered \cup {<<c, d>>}
    BY DEF DeviceAnswers, Answers, D!Respond, D!tables, D!recvVars
<1>2. UNCHANGED <<IdsD, SentD, OverD, IdsH, SentH, OverH>>
    BY <1>1, SameCalls DEF host, drawn
<1>3. runningD \in [Worker -> D!Job \cup {None}]
    BY DEF IInv, LinkType, D!TypeOK
<1>4. Range(runningD') \subseteq Range(runningD) \cup {None}
      /\ runningD[w] \in Range(runningD)
    BY <1>1, <1>3 DEF Range
<1>5. c \in SentH
    BY <1>1, <1>4 DEF IInv, WayH, Served
<1>6. PICK e \in D!Packet : e = [kind |-> "return", cid |-> c, data |-> d]
    BY <1>5, Stages, LinkAssumption DEF D!Packet, D!Return
<1>7. /\ Range(sendqD') = Range(sendqD) \cup {e} /\ e.kind = "return"
      /\ Single(sendqD')
  <2>1. sendqD \in Seq(D!Packet) /\ sendqD' = Append(sendqD, e)
      BY <1>1, <1>6, Packets DEF IInv
  <2>2. e.kind = "return"
      BY <1>6
  <2>3. Single(sendqD')
      BY <2>1, <2>2, AppendSingle DEF IInv, WayD, Once
  <2> QED
      BY <2>1, <2>2, <2>3, AppendRange
<1>8. CallsD' \subseteq CallsD
    BY <1>1, <1>7 DEF CallsD, Seen, host, link
<1>9. Returned(ReturnsD, SentD, answered)'
  <2>1. ReturnsD' = ReturnsD /\ answered \subseteq answered'
      BY <1>1 DEF ReturnsD, host, link
  <2> QED
      BY <1>2, <2>1 DEF IInv, WayD, Returned
<1>10. Reported(jobsD, runningD, stageD, drawnD, answered)'
  <2>1. Ended(jobsD', runningD') \subseteq Ended(jobsD, runningD)
      BY <1>1, <1>4 DEF Ended
  <2> QED
      BY <1>1, <2>1 DEF IInv, WayD, Reported, drawn
<1>11. Kinded(sendqD, fbqD, toH, rpcH, rpktH)'
    BY <1>1, <1>7 DEF IInv, WayD, Kinded, host, link
<1>12. Once(sendqD, OverD, rpcD, rpktD)'
    BY <1>1, <1>2, <1>7 DEF IInv, WayD, Once, Silent
<1> QED
    BY <1>1, <1>2, <1>8, <1>9, <1>10, <1>11, <1>12
    DEF IInv, WayD, Asked, Same, SignalsD, host, link, drawn

(* ... gives a call of the host's up, ... *)
LEMMA DeviceForgetsWay ==
    ASSUME IInv, NEW c \in Cid, DeviceForgets(c)
    PROVE  WayD'
<1>1. /\ UNCHANGED <<stageD, requestD, fbqD, jobsD, runningD, rpcD, rpktD, host,
                     link, drawn, accepted, answered>>
      /\ sendqD' = D!Unqueue(sendqD, c)
      /\ lapsed' = lapsed \cup {c}
    BY DEF DeviceForgets, Forgets, D!ExpireIncoming, D!tables, D!pool, D!recvVars
<1>2. UNCHANGED <<IdsD, SentD, OverD, IdsH, SentH, OverH>>
    BY <1>1, SameCalls DEF host, drawn
<1>3. Range(sendqD') \subseteq Range(sendqD) /\ Single(sendqD')
    BY <1>1, Packets, UnqueueRange DEF IInv, WayD, Once
<1>4. CallsD' \subseteq CallsD
    BY <1>1, <1>3 DEF CallsD, Seen, host, link
<1>5. Kinded(sendqD, fbqD, toH, rpcH, rpktH)'
    BY <1>1, <1>3 DEF IInv, WayD, Kinded, host, link
<1>6. Once(sendqD, OverD, rpcD, rpktD)'
    BY <1>1, <1>2, <1>3 DEF IInv, WayD, Once, Silent
<1>7. Taken(SentD, OverD, incH, toH, rpcH, rpktH, IdsH, accepted, lapsed)'
    BY <1>1, <1>2 DEF IInv, WayD, Taken, host, link
<1> QED
    BY <1>1, <1>2, <1>4, <1>5, <1>6, <1>7
    DEF IInv, WayD, Asked, Same, SignalsD, ReturnsD, host, link, drawn

(* ... makes calls, ... *)

(* A callback that is due belongs to a call of the device. *)
LEMMA EndedCalls ==
    ASSUME IInv, NEW j \in Ended(jobsD, runningD)
    PROVE  j.call \in 1 .. DCalls
<1>1. jobsD \in Seq(D!Job) /\ runningD \in [Worker -> D!Job \cup {None}]
    BY DEF IInv, LinkType, D!TypeOK
<1>2. Range(jobsD) \subseteq D!Job /\ Range(runningD) \subseteq D!Job \cup {None}
    BY <1>1, Entries DEF Range
<1>3. j \in D!Job /\ j.job = "finished"
    BY <1>2 DEF Ended
<1> QED
    BY <1>3 DEF D!Job, D!Completion, D!Service, D!Call

(* The device makes a call, with an id nobody drew. *)
LEMMA DeviceCallsWay ==
    ASSUME IInv, NEW k \in 1 .. DCalls, NEW c \in Cid, NEW d \in Sized,
           DeviceCalls(k, c, d)
    PROVE  WayD'
<1> DEFINE p == [kind |-> "call", cid |-> c, data |-> d]
<1>1. /\ UNCHANGED <<incD, fbqD, jobsD, runningD, rpcD, rpktD, host, link, drawnH,
                     accepted, answered, lapsed>>
      /\ stageD[k] = "unborn" /\ stageD'[k] # "unborn"
      /\ drawnD' = [drawnD EXCEPT ![k] = c]
      /\ c \notin Range(drawnD) \cup Range(drawnH)
    BY DEF DeviceCalls, D!DoCall, D!pool, D!recvVars, Fresh
<1>2. PICK j \in 1 .. DCalls :
         /\ stageD[j] = "unborn"
         /\ requestD' = [requestD EXCEPT ![j] = p]
         /\ \/ stageD' = [stageD EXCEPT ![j] = "parked"] /\ sendqD' = sendqD
            \/ stageD' = [stageD EXCEPT ![j] = "active"]
               /\ sendqD' = Append(sendqD, p)
    BY DEF DeviceCalls, D!DoCall, D!Call
<1>3. /\ drawnD \in [1 .. DCalls -> Cid \cup {None}]
      /\ drawnH \in [1 .. HCalls -> Cid \cup {None}]
      /\ stageD \in [1 .. DCalls -> D!Stage]
      /\ requestD \in [1 .. DCalls -> D!Request \cup {None}]
      /\ None \notin Cid
    BY LinkAssumption DEF IInv, LinkType, D!TypeOK, D!Call
<1>4. /\ j = k /\ drawnD[k] = None
      /\ requestD' = [requestD EXCEPT ![k] = p]
      /\ stageD' \in [1 .. DCalls -> D!Stage]
      /\ \/ stageD' = [stageD EXCEPT ![k] = "parked"] /\ sendqD' = sendqD
         \/ stageD' = [stageD EXCEPT ![k] = "active"]
            /\ sendqD' = Append(sendqD, p)
    BY <1>1, <1>2, <1>3 DEF IInv, WayD, Tables, D!Stage
<1>5. c \notin IdsD /\ c \notin IdsH
    BY <1>1, <1>3 DEF IdsD, IdsH, Ids, Range
<1>6. /\ IdsD' = IdsD \cup {c} /\ OverD' = OverD /\ SentD \subseteq SentD'
      /\ stageD'[k] = "active" => c \in SentD'
  <2>1. \A i \in 1 .. DCalls : i # k =>
           drawnD'[i] = drawnD[i] /\ stageD'[i] = stageD[i]
      BY <1>3, <1>4, <1>1
  <2>2. drawnD'[k] = c /\ stageD'[k] \in {"parked", "active"}
      BY <1>1, <1>3, <1>4
  <2>3. DOMAIN drawnD' = 1 .. DCalls /\ DOMAIN drawnD = 1 .. DCalls
      BY <1>1, <1>3
  <2>4. IdsD' = IdsD \cup {c}
      BY <1>3, <1>4, <2>1, <2>2, <2>3 DEF IdsD, Ids
  <2>5. OverD' = OverD /\ SentD \subseteq SentD'
      BY <1>1, <1>3, <1>4, <2>1, <2>2, <2>3 DEF OverD, SentD, Reached
  <2>6. stageD'[k] = "active" => c \in SentD'
      BY <2>2, <2>3 DEF SentD, Reached
  <2> QED
      BY <2>4, <2>5, <2>6
<1>7. UNCHANGED <<IdsH, SentH>>
    BY <1>1 DEF IdsH, SentH, host
<1>8. PICK e \in D!Packet :
         e = p /\ e.kind = "call" /\ e.cid = c /\ e.data = d
  <2>1. p \in D!Packet
      BY LinkAssumption DEF D!Packet, D!Request
  <2> QED
      BY <2>1
<1>9. \A s \in CallsD : s.cid # c
    BY <1>5, Stages DEF IInv, WayD, Asked
<1>10. Silent(sendqD, c)
    BY <1>9, Packets, Entries, PacketIsSome DEF IInv, Silent, CallsD, Seen
<1>11. /\ \/ sendqD' = sendqD
          \/ Range(sendqD') = Range(sendqD) \cup {e} /\ c \in SentD'
       /\ Single(sendqD')
  <2>1. sendqD \in Seq(D!Packet) /\ Single(sendqD)
      BY Packets DEF IInv, WayD, Once
  <2>2. CASE sendqD' = Append(sendqD, e) /\ stageD' = [stageD EXCEPT ![k] = "active"]
    <3>1. Range(sendqD') = Range(sendqD) \cup {e}
        BY <2>1, <2>2, AppendRange
    <3>2. Single(sendqD')
        BY <1>8, <1>10, <2>1, <2>2, AppendSingle
    <3> QED
        BY <1>3, <1>6, <2>2, <3>1, <3>2
  <2>3. sendqD' = sendqD \/ (sendqD' = Append(sendqD, e)
                             /\ stageD' = [stageD EXCEPT ![k] = "active"])
      BY <1>4, <1>8
  <2> QED
      BY <2>1, <2>2, <2>3
<1>12. Tables(stageD, requestD, drawnD)'
  <2>1. \A i \in 1 .. DCalls : i # k =>
           /\ drawnD'[i] = drawnD[i] /\ stageD'[i] = stageD[i]
           /\ requestD'[i] = requestD[i] /\ drawnD[i] # c
      BY <1>1, <1>3, <1>4 DEF Range
  <2>2. /\ drawnD'[k] = c /\ stageD'[k] \in {"parked", "active"}
        /\ requestD'[k] = e
      BY <1>1, <1>3, <1>4, <1>8
  <2>3. DOMAIN drawnD' = 1 .. DCalls /\ DOMAIN drawnD = 1 .. DCalls
      BY <1>1, <1>3
  <2> QED
      BY <1>3, <1>8, <2>1, <2>2, <2>3 DEF IInv, WayD, Tables
<1>13. CallsD' \subseteq CallsD \cup {e} /\ (e \in CallsD' => c \in SentD')
  <2>1. sendqD' = sendqD => CallsD' = CallsD
      BY <1>1 DEF CallsD, host, link
  <2>2. Range(sendqD') = Range(sendqD) \cup {e} => CallsD' \subseteq CallsD \cup {e}
      BY <1>1 DEF CallsD, Seen, host, link
  <2> QED
      BY <1>8, <1>9, <1>11, <2>1, <2>2
<1>14. Asked(CallsD, SentD)'
    BY <1>6, <1>8, <1>13 DEF IInv, WayD, Asked
<1>15. Same(CallsD, incH, stageD, requestD, drawnD)'
  <2>1. PICK arg \in [Cid -> Payload \cup {None}] :
           /\ \A s \in CallsD : s.data = arg[s.cid]
           /\ \A b \in Cid : incH[b] # None => incH[b] = arg[b]
           /\ \A i \in DOMAIN drawnD : stageD[i] \in {"parked", "active"}
                 => requestD[i].data = arg[drawnD[i]]
      BY DEF IInv, WayD, Same
  <2>2. PICK arg2 \in [Cid -> Payload \cup {None}] :
           arg2[c] = d /\ \A b \in Cid : b # c => arg2[b] = arg[b]
    <3>1. [arg EXCEPT ![c] = d] \in [Cid -> Payload \cup {None}]
        BY LinkAssumption
    <3> QED
        BY <3>1
  <2>3. \A s \in CallsD' : s.data = arg2[s.cid]
    <3>1. \A s \in CallsD : s.cid \in Cid
        BY Stages DEF IInv, WayD, Asked
    <3> QED
        BY <1>8, <1>9, <1>13, <2>1, <2>2, <3>1
  <2>4. \A b \in Cid : incH'[b] # None => incH'[b] = arg2[b]
    <3>1. incH[c] = None
        BY <1>5, Stages DEF IInv, WayD, Served
    <3> QED
        BY <1>1, <2>1, <2>2, <3>1 DEF host
  <2>5. \A i \in DOMAIN drawnD' : stageD'[i] \in {"parked", "active"}
           => requestD'[i].data = arg2[drawnD'[i]]
    <3>1. \A i \in 1 .. DCalls : i # k /\ stageD[i] \in {"parked", "active"} =>
             drawnD[i] \in Cid /\ drawnD[i] # c
        BY <1>1, <1>3 DEF IInv, WayD, Tables, Range
    <3>2. \A i \in 1 .. DCalls : i # k =>
             /\ drawnD'[i] = drawnD[i] /\ stageD'[i] = stageD[i]
             /\ requestD'[i] = requestD[i]
        BY <1>1, <1>3, <1>4
    <3>3. requestD'[k].data = d /\ drawnD'[k] = c
        BY <1>1, <1>3, <1>4, <1>8
    <3>4. DOMAIN drawnD' = 1 .. DCalls /\ DOMAIN drawnD = 1 .. DCalls
        BY <1>1, <1>3
    <3> QED
        BY <2>1, <2>2, <3>1, <3>2, <3>3, <3>4
  <2> QED
      BY <2>3, <2>4, <2>5 DEF Same
<1>16. Once(sendqD, OverD, rpcD, rpktD)'
  <2>1. ASSUME NEW b, b # c, Silent(sendqD, b)
        PROVE  Silent(sendqD', b)
      BY <1>8, <1>11, <2>1 DEF Silent
  <2>2. rpcD = "return" => rpktD.cid # c
    <3> SUFFICES ASSUME rpcD = "return"
                 PROVE  rpktD.cid # c
        OBVIOUS
    <3>1. rpktD \in ReturnsD
        BY Packets DEF IInv, WayH, Kinded, ReturnsD, Seen
    <3> QED
        BY <1>5, <3>1, Stages DEF IInv, WayD, Returned
  <2>3. c \notin OverD
      BY <1>5, Stages
  <2> QED
      BY <1>1, <1>6, <1>11, <2>1, <2>2, <2>3 DEF IInv, WayD, Once
<1>17. Closing(toH, rpktH, IdsD)'
  <2>1. \A s \in Range(toH) \cup {rpktH} :
           s # None /\ s.kind \in {"ack", "nak"} => s.cid # c
      BY <1>5, Stages DEF IInv, WayD, Signalled, SignalsD, Seen
  <2>2. Ordered(toH, IdsD')
    <3>1. \A s \in Range(toH) : s # None
        BY Packets, Entries, PacketIsSome DEF IInv
    <3> QED
        BY <1>6, <2>1, <3>1 DEF IInv, WayD, Closing, Ordered, Range
  <2> QED
      BY <1>1, <1>6, <2>1, <2>2 DEF IInv, WayD, Closing, host, link
<1>18. Reported(jobsD, runningD, stageD, drawnD, answered)'
  <2>1. \A i \in Ended(jobsD, runningD) : i.call # k
      BY <1>1 DEF IInv, WayD, Reported
  <2>2. ASSUME NEW i \in Ended(jobsD, runningD)
        PROVE  stageD'[i.call] = stageD[i.call] /\ drawnD'[i.call] = drawnD[i.call]
    <3>1. i.call \in 1 .. DCalls /\ i.call # k
        BY <2>1, EndedCalls
    <3>2. \A b \in 1 .. DCalls : b # k =>
             stageD'[b] = stageD[b] /\ drawnD'[b] = drawnD[b]
        BY <1>1, <1>3, <1>4
    <3> QED
        BY <3>1, <3>2
  <2> QED
      BY <1>1, <2>2 DEF IInv, WayD, Reported
<1>19. Kinded(sendqD, fbqD, toH, rpcH, rpktH)'
    BY <1>1, <1>8, <1>11 DEF IInv, WayD, Kinded, host, link
<1>20. Taken(SentD, OverD, incH, toH, rpcH, rpktH, IdsH, accepted, lapsed)'
    BY <1>1, <1>6, <1>7 DEF IInv, WayD, Taken, host, link
<1>21. Served(incH, jobsH, runningH, SentD)' /\ Returned(ReturnsD, SentD, answered)'
       /\ Signalled(SignalsD, SentH, OverD)'
    BY <1>1, <1>6, <1>7
    DEF IInv, WayD, Served, Returned, Signalled, ReturnsD, SignalsD, host, link
<1> QED
    BY <1>12, <1>14, <1>15, <1>16, <1>17, <1>18, <1>19, <1>20, <1>21 DEF WayD

(* ... and sees them end. *)

(* A call of the device ends: no copy of it is left on the send queue,     *)
(* what is signalled is that it is over, and success comes with what a     *)
(* handler responded.                                                      *)
LEMMA DeviceFinishesWay ==
    ASSUME IInv, NEW k \in D!Live, NEW r \in {"success", "expired"},
           NEW data \in Payload \cup {None},
           NEW q \in Seq(D!Packet), Range(q) \subseteq Range(sendqD), Single(q),
           Silent(q, drawnD[k]),
           D!Finish(k, r, data, q),
           r = "success" => <<drawnD[k], data>> \in answered,
           UNCHANGED <<rpcD, rpktD>> \/ (rpcD' = "idle" /\ rpktD' = None),
           \A s \in Range(fbqD') :
              \/ s \in Range(fbqD)
              \/ s.kind \in {"ack", "nak"} /\ s.cid = drawnD[k],
           UNCHANGED <<runningD, host, link, history>>
    PROVE  WayD'
<1> DEFINE c == drawnD[k]
           resumed == {n \in 1 .. DCalls : stageD[n] = "parked" /\ n # k
                                           /\ stageD'[n] = "active"}
<1>1. /\ drawnD \in [1 .. DCalls -> Cid \cup {None}]
      /\ stageD \in [1 .. DCalls -> D!Stage]
      /\ requestD \in [1 .. DCalls -> D!Request \cup {None}]
      /\ k \in 1 .. DCalls /\ stageD[k] \in {"parked", "active"}
      /\ jobsD \in Seq(D!Job)
    BY DEF IInv, LinkType, D!TypeOK, D!Call, D!Live, D!Active, D!Parked
<1>2. c \in Cid /\ c \in IdsD
  <2>1. c # None /\ c \in Cid \cup {None}
      BY <1>1 DEF IInv, WayD, Tables
  <2> QED
      BY <1>1, <2>1 DEF IdsD, Ids
<1>3. /\ requestD' = [requestD EXCEPT ![k] = None]
      /\ jobsD' = Append(jobsD, [job |-> "finished", call |-> k, reason |-> r,
                                 data |-> data])
      /\ drawnD' = drawnD
    BY DEF D!Finish, history, drawn
<1>4. /\ stageD'[k] = "done"
      /\ \A n \in 1 .. DCalls : n # k => stageD'[n] = stageD[n] \/ n \in resumed
      /\ sendqD' = q \/ \E n \in resumed : sendqD' = Append(q, requestD[n])
  <2>1. \/ stageD' = [stageD EXCEPT ![k] = "done"] /\ sendqD' = q
        \/ \E n \in 1 .. DCalls :
              /\ stageD[n] = "parked" /\ n # k
              /\ stageD' = [stageD EXCEPT ![k] = "done", ![n] = "active"]
              /\ sendqD' = Append(q, requestD[n])
      BY DEF D!Finish, D!OutgoingCallFinished, D!Newest, D!Parked, D!Call
  <2> QED
      BY <1>1, <2>1
<1>5. /\ IdsD' = IdsD /\ OverD' = OverD \cup {c}
      /\ SentD \subseteq SentD' /\ c \in SentD'
  <2>1. DOMAIN drawnD = 1 .. DCalls
      BY <1>1
  <2>2. IdsD' = IdsD
      BY <1>3 DEF IdsD
  <2>3. OverD' = OverD \cup {c}
      BY <1>1, <1>2, <1>3, <1>4, <2>1 DEF OverD, Reached
  <2>4. SentD \subseteq SentD' /\ c \in SentD'
      BY <1>1, <1>2, <1>3, <1>4, <2>1 DEF SentD, Reached
  <2> QED
      BY <2>2, <2>3, <2>4
<1>6. UNCHANGED <<IdsH, SentH>>
    BY DEF IdsH, SentH, host, history, drawn
<1>7. ASSUME NEW n \in resumed
      PROVE  /\ requestD[n] \in D!Packet
             /\ requestD[n].kind = "call" /\ requestD[n].cid = drawnD[n]
             /\ requestD[n].data \in Sized /\ drawnD[n] \in IdsD
             /\ drawnD[n] \in SentD' /\ drawnD[n] \notin SentD
             /\ drawnD[n] \notin OverD' /\ drawnD[n] \in Cid
  <2>1. n \in 1 .. DCalls /\ stageD[n] = "parked" /\ n # k
        /\ DOMAIN drawnD = 1 .. DCalls
      BY <1>1
  <2>2. /\ requestD[n].kind = "call" /\ requestD[n].cid = drawnD[n]
        /\ requestD[n].data \in Sized /\ drawnD[n] # None
      BY <2>1 DEF IInv, WayD, Tables
  <2>3. requestD[n] \in D!Packet
    <3>1. requestD[n] \in D!Request
        BY <2>1 DEF IInv, LinkType, D!TypeOK, D!Live, D!Parked, D!Call
    <3> QED
        BY <3>1 DEF D!Packet
  <2>4. drawnD[n] \in Cid
      BY <1>1, <2>1, <2>2
  <2>5. drawnD[n] \notin SentD /\ drawnD[n] # c
      BY <1>1, <2>1, <2>2 DEF IInv, WayD, Tables, SentD, Reached
  <2>6. drawnD[n] \in IdsD
      BY <2>1, <2>4 DEF IdsD, Ids
  <2>7. drawnD[n] \in SentD'
      BY <1>3, <2>1, <2>4 DEF SentD, Reached
  <2> QED
      BY <1>5, <2>2, <2>3, <2>4, <2>5, <2>6, <2>7, Stages
<1> HIDE DEF resumed, c
<1>8. \/ sendqD' = q
      \/ \E n \in resumed : sendqD' = Append(q, requestD[n])
                            /\ Range(sendqD') = Range(q) \cup {requestD[n]}
  <2>1. ASSUME NEW n \in resumed
        PROVE  Range(Append(q, requestD[n])) = Range(q) \cup {requestD[n]}
      BY <1>7, AppendRange
  <2> QED
      BY <1>4, <2>1
<1>9. \A s \in Range(q) : s.kind = "call" => s \in CallsD /\ s.cid \in SentD
  <2>1. \A s \in Range(q) : s # None
      BY Entries, PacketIsSome
  <2> QED
      BY <2>1 DEF IInv, WayD, Asked, CallsD, Seen
<1>10. \A s \in CallsD' : s \in CallsD \/ \E n \in resumed : s = requestD[n]
    BY <1>8 DEF CallsD, Seen, host, link
<1>11. Tables(stageD, requestD, drawnD)'
  <2>1. /\ DOMAIN drawnD' = 1 .. DCalls /\ drawnD' = drawnD
        /\ DOMAIN drawnD = 1 .. DCalls
      BY <1>1, <1>3
  <2>2. \A n \in 1 .. DCalls : n # k => requestD'[n] = requestD[n]
      BY <1>1, <1>3
  <2>3. \A n \in resumed : stageD'[n] = "active" /\ stageD[n] = "parked"
      BY DEF resumed
  <2>4. /\ \A n \in 1 .. DCalls :
              /\ stageD[n] = "unborn" <=> drawnD[n] = None
              /\ stageD[n] \in {"parked", "active"} =>
                    /\ requestD[n].kind = "call" /\ requestD[n].cid = drawnD[n]
                    /\ requestD[n].data \in Sized
        /\ \A j, n \in 1 .. DCalls :
              drawnD[j] = drawnD[n] /\ drawnD[j] # None => j = n
      BY <2>1 DEF IInv, WayD, Tables
  <2> QED
      BY <1>1, <1>4, <2>1, <2>2, <2>3, <2>4 DEF Tables
<1>12. Asked(CallsD, SentD)'
    BY <1>5, <1>7, <1>10 DEF IInv, WayD, Asked
<1>13. Same(CallsD, incH, stageD, requestD, drawnD)'
  <2>1. PICK arg \in [Cid -> Payload \cup {None}] :
           /\ \A s \in CallsD : s.data = arg[s.cid]
           /\ \A b \in Cid : incH[b] # None => incH[b] = arg[b]
           /\ \A i \in DOMAIN drawnD : stageD[i] \in {"parked", "active"}
                 => requestD[i].data = arg[drawnD[i]]
      BY DEF IInv, WayD, Same
  <2>2. DOMAIN drawnD = 1 .. DCalls
      BY <1>1
  <2>3. \A n \in resumed : n \in 1 .. DCalls /\ stageD[n] = "parked"
      BY DEF resumed
  <2>4. \A s \in CallsD' : s.data = arg[s.cid]
      BY <1>7, <1>10, <2>1, <2>2, <2>3
  <2>5. \A i \in 1 .. DCalls : stageD'[i] \in {"parked", "active"}
           => requestD'[i].data = arg[drawnD[i]]
      BY <1>1, <1>3, <1>4, <2>1, <2>2, <2>3
  <2> QED
      BY <1>3, <2>1, <2>2, <2>4, <2>5, SMTT(30) DEF Same, host
<1>14. Once(sendqD, OverD, rpcD, rpktD)'
  <2>1. ASSUME NEW n \in resumed
        PROVE  Silent(q, drawnD[n])
      BY <1>7, <1>9 DEF Silent
  <2>2. Single(sendqD')
    <3>1. ASSUME NEW n \in resumed
          PROVE  Single(Append(q, requestD[n]))
        BY <1>7, <2>1, AppendSingle
    <3> QED
        BY <1>8, <3>1
  <2>3. ASSUME NEW b, Silent(q, b), \A n \in resumed : drawnD[n] # b
        PROVE  Silent(sendqD', b)
      BY <1>7, <1>8, <2>3 DEF Silent
  <2>4. \A b \in OverD' : Silent(sendqD', b)
    <3>1. \A b \in OverD' : Silent(q, b)
        BY <1>5 DEF IInv, WayD, Once, Silent, c
    <3> QED
        BY <1>7, <2>3, <3>1
  <2>5. ASSUME rpcD = "return"
        PROVE  Silent(sendqD', rpktD.cid)
    <3>1. rpktD \in ReturnsD
        BY <2>5, Packets DEF IInv, WayH, Kinded, ReturnsD, Seen
    <3>2. rpktD.cid \in SentD
        BY <3>1 DEF IInv, WayD, Returned
    <3>3. Silent(q, rpktD.cid)
        BY <2>5 DEF IInv, WayD, Once, Silent
    <3> QED
        BY <1>7, <2>3, <3>2, <3>3
  <2> QED
      BY <2>2, <2>4, <2>5 DEF Once
<1>15. Signalled(SignalsD, SentH, OverD)'
  <2>1. \A s \in SignalsD' : s \in SignalsD \/ s.cid = c
      BY DEF SignalsD, Seen, host, link, c
  <2> QED
      BY <1>5, <1>6, <2>1 DEF IInv, WayD, Signalled
<1>16. Reported(jobsD, runningD, stageD, drawnD, answered)'
  <2>1. PICK e \in D!Job :
           e = [job |-> "finished", call |-> k, reason |-> r, data |-> data]
      BY <1>1 DEF D!Job, D!Completion, D!Call, D!Reason
  <2>2. Range(jobsD') = Range(jobsD) \cup {e}
      BY <1>1, <1>3, <2>1, AppendRange
  <2>3. \A i \in Ended(jobsD', runningD') : i \in Ended(jobsD, runningD) \/ i = e
      BY <2>2 DEF Ended
  <2>4. \A i \in Ended(jobsD, runningD) : stageD'[i.call] = "done"
    <3>1. \A i \in Ended(jobsD, runningD) :
             stageD[i.call] = "done" /\ i.call \in 1 .. DCalls
        BY EndedCalls DEF IInv, WayD, Reported
    <3>2. \A n \in resumed : stageD[n] = "parked"
        BY DEF resumed
    <3> QED
        BY <1>4, <3>1, <3>2
  <2>5. /\ e.call = k /\ e.reason = r /\ e.data = data
        /\ r = "success" => <<drawnD[k], data>> \in answered
      BY <2>1
  <2> QED
      BY <1>3, <1>4, <2>3, <2>4, <2>5 DEF IInv, WayD, Reported, history
<1>17. Kinded(sendqD, fbqD, toH, rpcH, rpktH)'
  <2>1. \A s \in Range(sendqD') : s.kind \in {"call", "return"}
      BY <1>7, <1>8 DEF IInv, WayD, Kinded
  <2> QED
      BY <2>1 DEF IInv, WayD, Kinded, host, link
<1>18. Returned(ReturnsD, SentD, answered)'
  <2>1. ReturnsD' \subseteq ReturnsD
      BY DEF ReturnsD, Seen, host, link
  <2> QED
      BY <1>5, <2>1 DEF IInv, WayD, Returned, history
<1>19. Taken(SentD, OverD, incH, toH, rpcH, rpktH, IdsH, accepted, lapsed)'
    BY <1>5, <1>6 DEF IInv, WayD, Taken, Closed, host, link, history
<1>20. Served(incH, jobsH, runningH, SentD)' /\ Closing(toH, rpktH, IdsD)'
    BY <1>5 DEF IInv, WayD, Served, host, link
<1> QED
    BY <1>11, <1>12, <1>13, <1>14, <1>15, <1>16, <1>17, <1>18, <1>19, <1>20
    DEF WayD

(* A return ends one, ... *)
LEMMA DeviceReturnsWay ==
    ASSUME IInv, D!ProcessReturn, UNCHANGED <<host, link, history>>
    PROVE  WayD'
<1> DEFINE c == rpktD.cid
<1>1. /\ rpcD = "return" /\ rpcD' = "idle" /\ rpktD' = None
      /\ UNCHANGED <<incD, runningD>>
    BY DEF D!ProcessReturn, D!RecvDone, D!pool
<1>2. /\ rpktD # None /\ rpktD.kind = "return"
      /\ c \in Cid /\ c \in SentD
      /\ rpktD.data \in Sized /\ <<c, rpktD.data>> \in answered
  <2>1. rpktD # None /\ rpktD.kind = "return"
      BY <1>1, Packets DEF IInv, WayH, Kinded
  <2>2. rpktD \in ReturnsD
      BY <2>1 DEF ReturnsD, Seen
  <2> QED
      BY <2>1, <2>2, Stages DEF IInv, WayD, Returned
<1>3. /\ drawnD \in [1 .. DCalls -> Cid \cup {None}]
      /\ stageD \in [1 .. DCalls -> D!Stage]
      /\ fbqD \in Seq(D!Packet) /\ sendqD \in Seq(D!Packet)
    BY Packets DEF IInv, LinkType, D!TypeOK, D!Call
<1>4. ASSUME NEW kind \in {"ack", "nak"}, fbqD' = Append(fbqD, D!Feedback(kind, c))
      PROVE  \A s \in Range(fbqD') :
                s \in Range(fbqD) \/ (s.kind \in {"ack", "nak"} /\ s.cid = c)
  <2>1. PICK e \in D!Packet : e = D!Feedback(kind, c)
      BY <1>2 DEF D!Feedback, D!Packet, D!Signal
  <2>2. e.kind = kind /\ e.cid = c
      BY <2>1 DEF D!Feedback
  <2>3. Range(fbqD') = Range(fbqD) \cup {e}
      BY <1>3, <1>4, <2>1, AppendRange
  <2> QED
      BY <2>2, <2>3
<1>5. ASSUME NEW k \in D!Outgoing(c),
             fbqD' = Append(fbqD, D!Feedback("ack", c)),
             D!Finish(k, "success", rpktD.data, sendqD)
      PROVE  WayD'
  <2>1. k \in D!Live /\ requestD[k].cid = c
      BY DEF D!Outgoing
  <2>2. k \in 1 .. DCalls /\ stageD[k] \in {"parked", "active"}
      BY <2>1 DEF D!Live, D!Active, D!Parked, D!Call
  <2>3. drawnD[k] = c
      BY <1>3, <2>1, <2>2 DEF IInv, WayD, Tables
  <2>4. Single(sendqD) /\ Silent(sendqD, drawnD[k])
      BY <1>1, <2>3 DEF IInv, WayD, Once
  <2>5. rpktD.data \in Payload
      BY <1>2, LinkAssumption
  <2>6. \A s \in Range(fbqD') :
           s \in Range(fbqD) \/ (s.kind \in {"ack", "nak"} /\ s.cid = drawnD[k])
      BY <1>4, <1>5, <2>3
  <2> HIDE DEF c
  <2> QED
      BY <1>1, <1>2, <1>3, <1>5, <2>1, <2>3, <2>4, <2>5, <2>6, DeviceFinishesWay
<1>6. CASE /\ D!Outgoing(c) = {}
           /\ fbqD' = Append(fbqD, D!Feedback("nak", c))
           /\ UNCHANGED <<stageD, requestD, sendqD, jobsD>>
  <2>1. UNCHANGED <<IdsD, SentD, OverD, IdsH, SentH, OverH>>
      BY <1>6, SameCalls DEF host, history, drawn
  <2>2. c \in OverD
    <3>1. PICK k \in DOMAIN drawnD : drawnD[k] = c /\ stageD[k] \in {"active", "done"}
        BY <1>2 DEF SentD, Reached
    <3>2. stageD[k] # "active"
        BY <1>2, <1>3, <1>6, <3>1
        DEF IInv, WayD, Tables, D!Outgoing, D!Live, D!Active, D!Call
    <3> QED
        BY <1>2, <3>1, <3>2 DEF OverD, Reached
  <2>3. Signalled(SignalsD, SentH, OverD)'
    <3>1. \A s \in SignalsD' : s \in SignalsD \/ s.cid = c
        BY <1>4, <1>6 DEF SignalsD, Seen, host, link
    <3> QED
        BY <2>1, <2>2, <3>1 DEF IInv, WayD, Signalled
  <2>4. Kinded(sendqD, fbqD, toH, rpcH, rpktH)'
      BY <1>4, <1>6 DEF IInv, WayD, Kinded, host, link
  <2>5. ReturnsD' \subseteq ReturnsD
      BY <1>1 DEF ReturnsD, Seen, host, link
  <2>6. Once(sendqD, OverD, rpcD, rpktD)'
      BY <1>1, <1>6, <2>1 DEF IInv, WayD, Once
  <2> QED
      BY <1>1, <1>6, <2>1, <2>3, <2>4, <2>5, <2>6
      DEF IInv, WayD, CallsD, Returned, host, link, history, drawn
<1> QED
    BY <1>2, <1>5, <1>6 DEF D!ProcessReturn, D!tables

(* ... or its time does. *)
LEMMA DeviceExpiresWay ==
    ASSUME IInv, NEW k \in 1 .. DCalls, DeviceExpires(k)
    PROVE  WayD'
<1>1. /\ k \in D!Live /\ stageD[k] = "active"
      /\ D!Finish(k, "expired", None, D!Unqueue(sendqD, requestD[k].cid))
      /\ UNCHANGED <<rpcD, rpktD, fbqD, runningD, host, link, history>>
    BY DEF DeviceExpires, D!ExpireOutgoing, D!Live, D!Active, D!pool, D!recvVars
<1>2. drawnD \in [1 .. DCalls -> Cid \cup {None}] /\ sendqD \in Seq(D!Packet)
    BY Packets DEF IInv, LinkType
<1>3. requestD[k].cid = drawnD[k] /\ drawnD[k] # None
    BY <1>1, <1>2 DEF IInv, WayD, Tables
<1>4. drawnD[k] \in IdsD
    BY <1>2, <1>3 DEF IdsD, Ids
<1>5. PICK q : q = D!Unqueue(sendqD, drawnD[k])
    OBVIOUS
<1>6. /\ q \in Seq(D!Packet) /\ Range(q) \subseteq Range(sendqD)
      /\ Single(q) /\ Silent(q, drawnD[k])
  <2>1. \A p \in Range(sendqD) : p.cid = drawnD[k] => p.kind = "call"
      BY <1>4, OwnIds
  <2> QED
      BY <1>2, <1>5, <2>1, UnqueueRange DEF IInv, WayD, Once
<1> QED
    BY <1>1, <1>3, <1>5, <1>6, DeviceFinishesWay

-----------------------------------------------------------------------------
(* The steps of the link, with either endpoint's oldest packet giving way  *)
(* to a new one: so they are the same seen from either end.                *)

(* The link with room for one more: what is on it, or all but the oldest. *)
Room(to) == {to} \cup (IF to # <<>> THEN {Tail(to)} ELSE {})

(* Either endpoint sends, ... *)
DeviceSent(p) ==
    /\ D!Send(p) \/ D!SendFeedback(p)
    /\ \E q \in Room(toH) : toH' = Append(q, p)
    /\ UNCHANGED <<host, toD, history>>

HostSent(p) ==
    /\ H!Send(p) \/ H!SendFeedback(p)
    /\ \E q \in Room(toD) : toD' = Append(q, p)
    /\ UNCHANGED <<device, toH, history>>

(* ... or hears a packet. *)
Travels(p) == DeviceSent(p) \/ HostSent(p) \/ DeviceHears(p) \/ HostHears(p)

(* All steps. Next is among them. *)
Steps ==
    \/ Calls
    \/ \E p \in D!Packet : Travels(p)
    \/ Lose
    \/ DeviceProcesses \/ DeviceAccepts
    \/ HostProcesses \/ HostAccepts
    \/ \E w \in Worker : DeviceRuns(w) \/ HostRuns(w)
    \/ \E c \in Cid : DeviceForgets(c) \/ HostForgets(c)
    \/ \E k \in 1 .. DCalls : DeviceExpires(k)
    \/ \E k \in 1 .. HCalls : HostExpires(k)

(* What is known of the device's calls holds after each of them.           *)
LEMMA WayStep == IInv /\ [Steps]_vars => WayD'
<1> SUFFICES ASSUME IInv, [Steps]_vars
             PROVE  WayD'
    OBVIOUS
<1>1. CASE Calls
    BY <1>1, DeviceCallsWay, HostCallsWay DEF Calls
<1>2. ASSUME NEW p \in D!Packet, Travels(p)
      PROVE  WayD'
  <2>1. ASSUME NEW q \in Room(toH), toH' = Append(q, p), DeviceSent(p)
        PROVE  WayD'
    <3>1. q = toH \/ (toH # <<>> /\ q = Tail(toH))
        BY DEF Room
    <3> QED
        BY <2>1, <3>1, DeviceSendsWay, DeviceSignalsWay DEF DeviceSent
  <2>2. ASSUME NEW q \in Room(toD), toD' = Append(q, p), HostSent(p)
        PROVE  WayD'
    <3>1. q = toD \/ (toD # <<>> /\ q = Tail(toD))
        BY DEF Room
    <3> QED
        BY <2>2, <3>1, HostSendsWay DEF HostSent
  <2> QED
      BY <1>2, <2>1, <2>2, DeviceHearsWay, HostHearsWay
      DEF Travels, DeviceSent, HostSent
<1>3. CASE Lose
    BY <1>3, LoseWay
<1>4. CASE DeviceProcesses \/ DeviceAccepts
    BY <1>4, DeviceReturnsWay, DeviceHeededWay, DeviceRejectsWay, DeviceChecksWay,
       DeviceAcceptsWay
    DEF DeviceProcesses
<1>5. CASE HostProcesses \/ HostAccepts
    BY <1>5, HostReturnsWay, HostHeededWay, HostRejectsWay, HostChecksWay,
       HostAcceptsWay
    DEF HostProcesses
<1>6. ASSUME NEW w \in Worker, DeviceRuns(w) \/ HostRuns(w)
      PROVE  WayD'
    BY <1>6, DeviceWorksWay, DeviceAnswersWay, HostWorksWay, HostAnswersWay
    DEF DeviceRuns, HostRuns
<1>7. ASSUME NEW c \in Cid, DeviceForgets(c) \/ HostForgets(c)
      PROVE  WayD'
    BY <1>7, DeviceForgetsWay, HostForgetsWay
<1>8. CASE \/ \E k \in 1 .. DCalls : DeviceExpires(k)
           \/ \E k \in 1 .. HCalls : HostExpires(k)
    BY <1>8, DeviceExpiresWay, HostExpiresWay
<1>9. CASE UNCHANGED vars
  <2>1. UNCHANGED <<device, host, link, history>>
      BY <1>9 DEF vars
  <2>2. UNCHANGED <<IdsD, SentD, OverD, IdsH, SentH, OverH>>
      BY <2>1, SameCalls DEF device, host, history, drawn
  <2> QED
      BY <2>1, <2>2
      DEF IInv, WayD, CallsD, SignalsD, ReturnsD, device, host, link, history,
          drawn
<1> QED
    BY <1>1, <1>2, <1>3, <1>4, <1>5, <1>6, <1>7, <1>8, <1>9 DEF Steps

(* They are steps of the device or leave it alone, ... *)
LEMMA DeviceStep == [Steps]_vars => [DeviceMoves]_device
<1> SUFFICES ASSUME [Steps]_vars
             PROVE  DeviceMoves \/ UNCHANGED device
    OBVIOUS
<1>1. CASE Calls
    BY <1>1 DEF Calls, DeviceCalls, HostCalls, DeviceMoves
<1>2. ASSUME NEW p \in D!Packet, Travels(p)
      PROVE  DeviceMoves \/ UNCHANGED device
  <2>1. D!Send(p) => UNCHANGED device
      BY DEF D!Send, D!vars, D!tables, D!recvVars, D!pool, device
  <2> QED
      BY <1>2, <2>1
      DEF Travels, DeviceSent, HostSent, DeviceHears, HostHears, DeviceMoves
<1>3. CASE DeviceProcesses \/ DeviceAccepts
    BY <1>3 DEF DeviceProcesses, DeviceAccepts, D!Process, DeviceMoves
<1>4. ASSUME NEW w \in Worker, DeviceRuns(w)
      PROVE  DeviceMoves
    BY <1>4 DEF DeviceRuns, DeviceWorks, DeviceAnswers, DeviceMoves
<1>5. CASE \/ \E c \in Cid : DeviceForgets(c)
           \/ \E k \in 1 .. DCalls : DeviceExpires(k)
    BY <1>5 DEF DeviceForgets, DeviceExpires, DeviceMoves, D!Call
<1>6. CASE \/ Lose \/ HostProcesses \/ HostAccepts
           \/ \E w \in Worker : HostRuns(w)
           \/ \E c \in Cid : HostForgets(c)
           \/ \E k \in 1 .. HCalls : HostExpires(k)
    BY <1>6 DEF Lose, HostProcesses, HostAccepts, HostRuns, HostWorks,
                HostAnswers, HostForgets, HostExpires
<1>7. CASE UNCHANGED vars
    BY <1>7 DEF vars
<1> QED
    BY <1>1, <1>2, <1>3, <1>4, <1>5, <1>6, <1>7 DEF Steps

(* It holds at the start, when nothing is queued.                          *)
LEMMA EmptyWay ==
    /\ Range(<<>>) = {} /\ Single(<<>>)
    /\ \A ids : Ordered(<<>>, ids)
    /\ \A c : Silent(<<>>, c)
<1>1. <<>> \in Seq({}) /\ Len(<<>>) = 0
    BY EmptySeq
<1>2. Range(<<>>) = {}
    BY <1>1, Entries
<1>3. DOMAIN <<>> = {}
    BY <1>1, LenProperties
<1> QED
    BY <1>2, <1>3 DEF Single, Ordered, Silent

(* The device starts well typed, ... *)
LEMMA DeviceInit == D!Init => D!TypeOK
<1>1. D!TypeOK <=> DP!TypeOK
    BY DEF
    D!TypeOK, D!Stage, D!Reason, D!Job, D!Completion, D!Service, D!Call,
    D!Live, D!Active, D!Parked, D!Packet, D!Request, D!Return, D!Signal,
    DP!TypeOK, DP!Stage, DP!Reason, DP!Job, DP!Completion, DP!Service,
    DP!Call, DP!Live, DP!Active, DP!Parked, DP!Packet, DP!Request,
    DP!Return, DP!Signal
<1>2. D!Init => DP!Init
    BY DEF D!Init, DP!Init, D!Call, DP!Call
<1>3. DP!Init => DP!TypeOK
    BY Endpoints, DP!TypeInit
<1> QED
    BY <1>1, <1>2, <1>3

(* ... and there is nothing of its calls. *)
LEMMA WayInit == Init => WayD
<1> SUFFICES ASSUME Init
             PROVE  WayD
    OBVIOUS
<1>1. /\ stageD = [k \in D!Call |-> "unborn"]
      /\ requestD = [k \in D!Call |-> None]
      /\ stageH = [k \in H!Call |-> "unborn"]
      /\ incH = [c \in Cid |-> None]
      /\ sendqD = <<>> /\ fbqD = <<>> /\ jobsD = <<>>
      /\ sendqH = <<>> /\ fbqH = <<>> /\ jobsH = <<>>
      /\ runningD = [w \in Worker |-> None]
      /\ runningH = [w \in Worker |-> None]
      /\ rpcD = "idle" /\ rpktD = None /\ rpcH = "idle" /\ rpktH = None
      /\ toD = <<>> /\ toH = <<>>
      /\ drawnD = [k \in 1 .. DCalls |-> None]
      /\ drawnH = [k \in 1 .. HCalls |-> None]
      /\ answered = {} /\ lapsed = {}
      /\ accepted = [c \in Cid |-> 0]
    BY DEF Init, D!Init, H!Init
<1>2. IdsD = {} /\ IdsH = {}
    BY <1>1, LinkAssumption DEF IdsD, IdsH, Ids
<1>3. SentD = {} /\ SentH = {} /\ OverD = {}
    BY <1>2, Stages
<1>4. CallsD = {} /\ ReturnsD = {} /\ SignalsD = {}
    BY <1>1, EmptyWay DEF CallsD, ReturnsD, SignalsD, Seen
<1>5. Range(runningD) \subseteq {None} /\ Range(runningH) \subseteq {None}
    BY <1>1 DEF Range
<1>6. Tables(stageD, requestD, drawnD)
    BY <1>1 DEF Tables, D!Call
<1>7. Kinded(sendqD, fbqD, toH, rpcH, rpktH)
    BY <1>1, EmptyWay DEF Kinded
<1>8. Same(CallsD, incH, stageD, requestD, drawnD)
  <2>1. [c \in Cid |-> None] \in [Cid -> Payload \cup {None}]
      OBVIOUS
  <2> QED
      BY <1>1, <1>4, <2>1 DEF Same, D!Call
<1>9. Served(incH, jobsH, runningH, SentD)
    BY <1>1, <1>5, EmptyWay DEF Served
<1>10. Closing(toH, rpktH, IdsD) /\ Once(sendqD, OverD, rpcD, rpktD)
    BY <1>1, EmptyWay DEF Closing, Once
<1>11. Taken(SentD, OverD, incH, toH, rpcH, rpktH, IdsH, accepted, lapsed)
    BY <1>1 DEF Taken
<1>12. Reported(jobsD, runningD, stageD, drawnD, answered)
    BY <1>1, <1>5, EmptyWay DEF Reported, Ended
<1> QED
    BY <1>4, <1>6, <1>7, <1>8, <1>9, <1>10, <1>11, <1>12
    DEF WayD, Asked, Returned, Signalled

=============================================================================
