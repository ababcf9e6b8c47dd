--------------------------- MODULE EarpcLinkProofs ---------------------------
(* Theorems about two earpc endpoints on a link that loses packets, for     *)
(* every set of ids, payloads and workers, every number of calls and        *)
(* expiries and every capacity.  The inductive invariant says what becomes  *)
(* of the calls of one endpoint (WayD, WayH); what is proved of the         *)
(* device's calls in EarpcWay is read here with the endpoints exchanged     *)
(* for the host's.                                                          *)
EXTENDS EarpcWay

(* What is proved of the device's calls, of the host's. *)
Swap == INSTANCE EarpcWay WITH
        DCalls <- HCalls, HCalls <- DCalls,
        stageD <- stageH, stageH <- stageD,
        requestD <- requestH, requestH <- requestD,
        incD <- incH, incH <- incD,
        sendqD <- sendqH, sendqH <- sendqD,
        fbqD <- fbqH, fbqH <- fbqD,
        jobsD <- jobsH, jobsH <- jobsD,
        runningD <- runningH, runningH <- runningD,
        rpcD <- rpcH, rpcH <- rpcD,
        rpktD <- rpktH, rpktH <- rpktD,
        toldD <- toldH, toldH <- toldD,
        namedD <- namedH, namedH <- namedD,
        drawnD <- drawnH, drawnH <- drawnD,
        toD <- toH, toH <- toD

-----------------------------------------------------------------------------
(* The two ends exchanged. *)

(* The assumption on the constants does not tell the ends apart, ... *)
LEMMA SwapAssumption ==
    /\ HCalls \in Nat /\ DCalls \in Nat /\ MaxQueue \in Nat
    /\ Capacity \in Nat \ {0}
    /\ Sized \subseteq Payload
    /\ None \notin Cid \cup Payload \cup Swap!D!Packet \cup Swap!D!Job
                 \cup Swap!H!Job
BY LinkAssumption
DEF D!Packet, D!Request, D!Return, D!Signal, D!Job, D!Completion, D!Service,
    D!Call, D!Reason, H!Job, H!Completion, H!Service, H!Call, H!Reason,
    Swap!D!Packet, Swap!D!Request, Swap!D!Return, Swap!D!Signal, Swap!D!Job,
    Swap!D!Completion, Swap!D!Service, Swap!D!Call, Swap!D!Reason, Swap!H!Job,
    Swap!H!Completion, Swap!H!Service, Swap!H!Call, Swap!H!Reason

(* ... nor do the types, ... *)
LEMMA SwapTypes == Swap!D!TypeOK <=> H!TypeOK
BY DEF
    H!TypeOK, H!Stage, H!Reason, H!Job, H!Completion, H!Service, H!Call,
    H!Live, H!Active, H!Parked, H!Packet, H!Request, H!Return, H!Signal,
    Swap!D!TypeOK, Swap!D!Stage, Swap!D!Reason, Swap!D!Job,
    Swap!D!Completion, Swap!D!Service, Swap!D!Call, Swap!D!Live,
    Swap!D!Active, Swap!D!Parked, Swap!D!Packet, Swap!D!Request,
    Swap!D!Return, Swap!D!Signal

(* ... the packets, ... *)
LEMMA SwapPackets == Swap!D!Packet = D!Packet /\ Swap!H!Packet = H!Packet
BY DEF D!Packet, D!Request, D!Return, D!Signal, H!Packet, H!Request, H!Return,
       H!Signal, Swap!D!Packet, Swap!D!Request, Swap!D!Return, Swap!D!Signal,
       Swap!H!Packet, Swap!H!Request, Swap!H!Return, Swap!H!Signal

(* ... the types of the other end, ... *)
LEMMA SwapHostTypes == Swap!H!TypeOK <=> D!TypeOK
BY DEF
    D!TypeOK, D!Stage, D!Reason, D!Job, D!Completion, D!Service, D!Call,
    D!Live, D!Active, D!Parked, D!Packet, D!Request, D!Return, D!Signal,
    Swap!H!TypeOK, Swap!H!Stage, Swap!H!Reason, Swap!H!Job,
    Swap!H!Completion, Swap!H!Service, Swap!H!Call, Swap!H!Live,
    Swap!H!Active, Swap!H!Parked, Swap!H!Packet, Swap!H!Request,
    Swap!H!Return, Swap!H!Signal

(* ... the parts of the invariant, ... *)
LEMMA SwapOperators ==
    /\ \A a, b, c : Swap!Tables(a, b, c) <=> Tables(a, b, c)
    /\ \A a, b, c, d, e :
          Swap!Kinded(a, b, c, d, e) <=> Kinded(a, b, c, d, e)
    /\ \A a, b : Swap!Asked(a, b) <=> Asked(a, b)
    /\ \A a, b, c, d, e : Swap!Same(a, b, c, d, e) <=> Same(a, b, c, d, e)
    /\ \A a, b, c, d : Swap!Served(a, b, c, d) <=> Served(a, b, c, d)
    /\ \A a, b, c : Swap!Returned(a, b, c) <=> Returned(a, b, c)
    /\ \A a, b, c : Swap!Signalled(a, b, c) <=> Signalled(a, b, c)
    /\ \A a, b, c : Swap!Closing(a, b, c) <=> Closing(a, b, c)
    /\ \A a, b, c, d : Swap!Once(a, b, c, d) <=> Once(a, b, c, d)
    /\ \A a, b, c, d, e, f, g, h, i :
          Swap!Taken(a, b, c, d, e, f, g, h, i) <=> Taken(a, b, c, d, e, f, g, h, i)
    /\ \A a, b, c, d, e :
          Swap!Reported(a, b, c, d, e) <=> Reported(a, b, c, d, e)
    /\ \A a, b, c, d : Swap!Seen(a, b, c, d) = Seen(a, b, c, d)
    /\ \A a : Swap!Ids(a) = Ids(a)
    /\ \A a, b, c : Swap!Reached(a, b, c) = Reached(a, b, c)
<1>1. ASSUME NEW a, NEW b, NEW c
      PROVE  Swap!Tables(a, b, c) <=> Tables(a, b, c)
    BY Zenon DEF Tables, Swap!Tables
<1>2. ASSUME NEW a, NEW b, NEW c, NEW d, NEW e
      PROVE  Swap!Kinded(a, b, c, d, e) <=> Kinded(a, b, c, d, e)
    BY Zenon DEF Kinded, Range, Swap!Kinded, Swap!Range
<1>3. ASSUME NEW a, NEW b
      PROVE  Swap!Asked(a, b) <=> Asked(a, b)
    BY Zenon DEF Asked, Swap!Asked
<1>4. ASSUME NEW a, NEW b, NEW c, NEW d, NEW e
      PROVE  Swap!Same(a, b, c, d, e) <=> Same(a, b, c, d, e)
    BY Zenon DEF Same, Swap!Same
<1>5. ASSUME NEW a, NEW b, NEW c, NEW d
      PROVE  Swap!Served(a, b, c, d) <=> Served(a, b, c, d)
    BY Zenon DEF Served, Range, Swap!Served, Swap!Range
<1>6. ASSUME NEW a, NEW b, NEW c
      PROVE  Swap!Returned(a, b, c) <=> Returned(a, b, c)
    BY Zenon DEF Returned, Swap!Returned
<1>7. ASSUME NEW a, NEW b, NEW c
      PROVE  Swap!Signalled(a, b, c) <=> Signalled(a, b, c)
    BY Zenon DEF Signalled, Swap!Signalled
<1>8. ASSUME NEW a, NEW b, NEW c
      PROVE  Swap!Closing(a, b, c) <=> Closing(a, b, c)
    BY Zenon DEF Closing, Ordered, Silent, Range, Swap!Closing, Swap!Ordered, Swap!Silent, Swap!Range
<1>9. ASSUME NEW a, NEW b, NEW c, NEW d
      PROVE  Swap!Once(a, b, c, d) <=> Once(a, b, c, d)
    BY Zenon DEF Once, Single, Silent, Range, Swap!Once, Swap!Single, Swap!Silent, Swap!Range
<1>10. ASSUME NEW a, NEW b, NEW c, NEW d, NEW e, NEW f, NEW g, NEW h, NEW i
      PROVE  Swap!Taken(a, b, c, d, e, f, g, h, i) <=> Taken(a, b, c, d, e, f, g, h, i)
    BY Zenon DEF Taken, Closed, Silent, Range, Swap!Taken, Swap!Closed, Swap!Silent, Swap!Range
<1>11. ASSUME NEW a, NEW b, NEW c, NEW d, NEW e
      PROVE  Swap!Reported(a, b, c, d, e) <=> Reported(a, b, c, d, e)
    BY Zenon DEF Reported, Ended, Range, Swap!Reported, Swap!Ended, Swap!Range
<1>12. ASSUME NEW a, NEW b, NEW c, NEW d
      PROVE  Swap!Seen(a, b, c, d) = Seen(a, b, c, d)
    BY DEF Seen, Range, Swap!Seen, Swap!Range
<1>13. ASSUME NEW a
      PROVE  Swap!Ids(a) = Ids(a)
    BY DEF Ids, Swap!Ids
<1>14. ASSUME NEW a, NEW b, NEW c
      PROVE  Swap!Reached(a, b, c) = Reached(a, b, c)
    BY DEF Reached, Swap!Reached
<1> QED
    BY <1>1, <1>2, <1>3, <1>4, <1>5, <1>6, <1>7, <1>8, <1>9,
       <1>10, <1>11, <1>12, <1>13, <1>14

(* ... and what is on its way; ... *)
LEMMA SwapSets ==
    /\ Swap!CallsD = CallsH /\ Swap!CallsH = CallsD
    /\ Swap!ReturnsD = ReturnsH /\ Swap!ReturnsH = ReturnsD
    /\ Swap!SignalsD = SignalsH /\ Swap!SignalsH = SignalsD
    /\ Swap!IdsD = IdsH /\ Swap!IdsH = IdsD
    /\ Swap!SentD = SentH /\ Swap!SentH = SentD
    /\ Swap!OverD = OverH /\ Swap!OverH = OverD
BY SwapOperators
DEF
    CallsD, CallsH, ReturnsD, ReturnsH, SignalsD, SignalsH, IdsD, IdsH,
    SentD, SentH, OverD, OverH, Swap!CallsD, Swap!CallsH, Swap!ReturnsD,
    Swap!ReturnsH, Swap!SignalsD, Swap!SignalsH, Swap!IdsD, Swap!IdsH,
    Swap!SentD, Swap!SentH, Swap!OverD, Swap!OverH

(* ... so what is known of the calls of one is what is known of those of   *)
(* the other, ...                                                          *)
LEMMA SwapWays == (Swap!WayD <=> WayH) /\ (Swap!WayH <=> WayD)
BY SwapOperators, SwapSets DEF WayD, WayH, Swap!WayD, Swap!WayH

(* ... and the invariant says the same from either end. *)
LEMMA SwapInvariant == IInv => Swap!IInv
<1>1. Swap!IdsD = IdsH /\ Swap!IdsH = IdsD
    BY DEF IdsD, IdsH, Ids, Swap!IdsD, Swap!IdsH, Swap!Ids
<1>2. LinkType => Swap!LinkType
    BY SwapTypes, SwapHostTypes, SwapPackets DEF LinkType, Swap!LinkType
<1> QED
    BY <1>1, <1>2, SwapWays DEF IInv, Swap!IInv

(* Taking a packet off a queue is the same at either end. *)
LEMMA SwapUnqueue ==
    \A q, c : /\ Swap!D!Unqueue(q, c) = H!Unqueue(q, c)
              /\ Swap!H!Unqueue(q, c) = D!Unqueue(q, c)
BY DEF D!Unqueue, H!Unqueue, D!RemoveAt, H!RemoveAt, D!Min, H!Min,
       Swap!D!Unqueue, Swap!H!Unqueue, Swap!D!RemoveAt, Swap!H!RemoveAt,
       Swap!D!Min, Swap!H!Min

(* The host's actions are the device's with the ends exchanged, ... *)
LEMMA SwapHost ==
    /\ \A p : H!DoCall(p) => Swap!D!DoCall(p)
    /\ \A p : H!Send(p) => Swap!D!Send(p)
    /\ \A p : H!SendFeedback(p) => Swap!D!SendFeedback(p)
    /\ \A p : H!Receive(p) => Swap!D!Receive(p)
    /\ H!ProcessReturn => Swap!D!ProcessReturn
    /\ H!ProcessAck => Swap!D!ProcessAck
    /\ H!ProcessNak => Swap!D!ProcessNak
    /\ H!ProcessNakOutgoing => Swap!D!ProcessNakOutgoing
    /\ H!ProcessCallCheck => Swap!D!ProcessCallCheck
    /\ H!ProcessCallPush => Swap!D!ProcessCallPush
    /\ \A w : H!Take(w) => Swap!D!Take(w)
    /\ \A w : H!Report(w) => Swap!D!Report(w)
    /\ \A w, d : H!Respond(w, d) => Swap!D!Respond(w, d)
    /\ \A c : H!ExpireIncoming(c) => Swap!D!ExpireIncoming(c)
    /\ \A k : H!ExpireOutgoing(k) => Swap!D!ExpireOutgoing(k)
<1>1. \A p : H!DoCall(p) => Swap!D!DoCall(p)
    BY SwapUnqueue
    DEF
    H!DoCall, H!tables, H!recvVars, H!pool, H!Outgoing, H!Live, H!Active,
    H!Parked, H!Call, Swap!D!DoCall, Swap!D!tables, Swap!D!recvVars,
    Swap!D!pool, Swap!D!Outgoing, Swap!D!Live, Swap!D!Active, Swap!D!Parked,
    Swap!D!Call
<1>2. \A p : H!Send(p) => Swap!D!Send(p)
    BY SwapUnqueue
    DEF
    H!Send, H!Queued, H!vars, H!tables, H!recvVars, H!pool, Swap!D!Send,
    Swap!D!Queued, Swap!D!vars, Swap!D!tables, Swap!D!recvVars, Swap!D!pool
<1>3. \A p : H!SendFeedback(p) => Swap!D!SendFeedback(p)
    BY SwapUnqueue
    DEF
    H!SendFeedback, H!tables, H!recvVars, H!pool, Swap!D!SendFeedback,
    Swap!D!tables, Swap!D!recvVars, Swap!D!pool
<1>4. \A p : H!Receive(p) => Swap!D!Receive(p)
    BY SwapUnqueue
    DEF
    H!Receive, H!RecvAnswer, H!RecvException, H!RecvCall, H!Feedback,
    H!tables, H!recvVars, H!pool, H!Outgoing, H!Live, H!Active, H!Parked,
    H!Call, Swap!D!Receive, Swap!D!RecvAnswer, Swap!D!RecvException,
    Swap!D!RecvCall, Swap!D!Feedback, Swap!D!tables, Swap!D!recvVars,
    Swap!D!pool, Swap!D!Outgoing, Swap!D!Live, Swap!D!Active, Swap!D!Parked,
    Swap!D!Call
<1>5. H!ProcessReturn => Swap!D!ProcessReturn
    BY SwapUnqueue
    DEF
    H!ProcessReturn, H!RecvDone, H!Feedback, H!tables, H!recvVars, H!pool,
    H!Active, H!Parked, H!Live, H!Call, H!Finish, H!OutgoingCallFinished,
    H!Newest, H!Outgoing, Swap!D!ProcessReturn, Swap!D!RecvDone,
    Swap!D!Feedback, Swap!D!tables, Swap!D!recvVars, Swap!D!pool,
    Swap!D!Active, Swap!D!Parked, Swap!D!Live, Swap!D!Call, Swap!D!Finish,
    Swap!D!OutgoingCallFinished, Swap!D!Newest, Swap!D!Outgoing
<1>6. H!ProcessAck => Swap!D!ProcessAck
    BY SwapUnqueue
    DEF
    H!ProcessAck, H!RecvDone, H!tables, H!recvVars, H!pool,
    Swap!D!ProcessAck, Swap!D!RecvDone, Swap!D!tables, Swap!D!recvVars,
    Swap!D!pool
<1>7. H!ProcessNak => Swap!D!ProcessNak
    BY SwapUnqueue
    DEF
    H!ProcessNak, H!RecvDone, H!tables, H!recvVars, H!pool,
    Swap!D!ProcessNak, Swap!D!RecvDone, Swap!D!tables, Swap!D!recvVars,
    Swap!D!pool
<1>8. H!ProcessNakOutgoing => Swap!D!ProcessNakOutgoing
    BY SwapUnqueue
    DEF
    H!ProcessNakOutgoing, H!RecvDone, H!tables, H!recvVars, H!pool,
    H!Active, H!Parked, H!Live, H!Call, H!Finish, H!OutgoingCallFinished,
    H!Newest, H!Outgoing, Swap!D!ProcessNakOutgoing, Swap!D!RecvDone,
    Swap!D!tables, Swap!D!recvVars, Swap!D!pool, Swap!D!Active,
    Swap!D!Parked, Swap!D!Live, Swap!D!Call, Swap!D!Finish,
    Swap!D!OutgoingCallFinished, Swap!D!Newest, Swap!D!Outgoing
<1>9. H!ProcessCallCheck => Swap!D!ProcessCallCheck
    BY SwapUnqueue
    DEF
    H!ProcessCallCheck, H!RecvDone, H!Feedback, H!tables, H!recvVars,
    H!pool, H!Outgoing, H!Live, H!Active, H!Parked, H!Call,
    Swap!D!ProcessCallCheck, Swap!D!RecvDone, Swap!D!Feedback,
    Swap!D!tables, Swap!D!recvVars, Swap!D!pool, Swap!D!Outgoing,
    Swap!D!Live, Swap!D!Active, Swap!D!Parked, Swap!D!Call
<1>10. H!ProcessCallPush => Swap!D!ProcessCallPush
    BY SwapUnqueue
    DEF
    H!ProcessCallPush, H!RecvDone, H!tables, H!recvVars, H!pool, H!Outgoing,
    H!Live, H!Active, H!Parked, H!Call, Swap!D!ProcessCallPush,
    Swap!D!RecvDone, Swap!D!tables, Swap!D!recvVars, Swap!D!pool,
    Swap!D!Outgoing, Swap!D!Live, Swap!D!Active, Swap!D!Parked, Swap!D!Call
<1>11. \A w : H!Take(w) => Swap!D!Take(w)
    BY SwapUnqueue
    DEF
    H!Take, H!tables, H!recvVars, H!pool, Swap!D!Take, Swap!D!tables,
    Swap!D!recvVars, Swap!D!pool
<1>12. \A w : H!Report(w) => Swap!D!Report(w)
    BY SwapUnqueue
    DEF
    H!Report, H!tables, H!recvVars, H!pool, Swap!D!Report, Swap!D!tables,
    Swap!D!recvVars, Swap!D!pool
<1>13. \A w, d : H!Respond(w, d) => Swap!D!Respond(w, d)
    BY SwapUnqueue
    DEF
    H!Respond, H!tables, H!recvVars, H!pool, Swap!D!Respond, Swap!D!tables,
    Swap!D!recvVars, Swap!D!pool
<1>14. \A c : H!ExpireIncoming(c) => Swap!D!ExpireIncoming(c)
    BY SwapUnqueue
    DEF
    H!ExpireIncoming, H!tables, H!recvVars, H!pool, Swap!D!ExpireIncoming,
    Swap!D!tables, Swap!D!recvVars, Swap!D!pool
<1>15. \A k : H!ExpireOutgoing(k) => Swap!D!ExpireOutgoing(k)
    BY SwapUnqueue
    DEF
    H!ExpireOutgoing, H!tables, H!recvVars, H!pool, H!Active, H!Parked,
    H!Live, H!Call, H!Finish, H!OutgoingCallFinished, H!Newest, H!Outgoing,
    Swap!D!ExpireOutgoing, Swap!D!tables, Swap!D!recvVars, Swap!D!pool,
    Swap!D!Active, Swap!D!Parked, Swap!D!Live, Swap!D!Call, Swap!D!Finish,
    Swap!D!OutgoingCallFinished, Swap!D!Newest, Swap!D!Outgoing
<1> QED
    BY <1>1, <1>2, <1>3, <1>4, <1>5, <1>6, <1>7,
       <1>8, <1>9, <1>10, <1>11, <1>12, <1>13, <1>14, <1>15

(* ... the device's are the host's, ... *)
LEMMA SwapDevice ==
    /\ \A p : D!DoCall(p) => Swap!H!DoCall(p)
    /\ \A p : D!Send(p) => Swap!H!Send(p)
    /\ \A p : D!SendFeedback(p) => Swap!H!SendFeedback(p)
    /\ \A p : D!Receive(p) => Swap!H!Receive(p)
    /\ D!ProcessReturn => Swap!H!ProcessReturn
    /\ D!ProcessAck => Swap!H!ProcessAck
    /\ D!ProcessNak => Swap!H!ProcessNak
    /\ D!ProcessNakOutgoing => Swap!H!ProcessNakOutgoing
    /\ D!ProcessCallCheck => Swap!H!ProcessCallCheck
    /\ D!ProcessCallPush => Swap!H!ProcessCallPush
    /\ \A w : D!Take(w) => Swap!H!Take(w)
    /\ \A w : D!Report(w) => Swap!H!Report(w)
    /\ \A w, d : D!Respond(w, d) => Swap!H!Respond(w, d)
    /\ \A c : D!ExpireIncoming(c) => Swap!H!ExpireIncoming(c)
    /\ \A k : D!ExpireOutgoing(k) => Swap!H!ExpireOutgoing(k)
<1>1. \A p : D!DoCall(p) => Swap!H!DoCall(p)
    BY SwapUnqueue
    DEF
    D!DoCall, D!tables, D!recvVars, D!pool, D!Outgoing, D!Live, D!Active,
    D!Parked, D!Call, Swap!H!DoCall, Swap!H!tables, Swap!H!recvVars,
    Swap!H!pool, Swap!H!Outgoing, Swap!H!Live, Swap!H!Active, Swap!H!Parked,
    Swap!H!Call
<1>2. \A p : D!Send(p) => Swap!H!Send(p)
    BY SwapUnqueue
    DEF
    D!Send, D!Queued, D!vars, D!tables, D!recvVars, D!pool, Swap!H!Send,
    Swap!H!Queued, Swap!H!vars, Swap!H!tables, Swap!H!recvVars, Swap!H!pool
<1>3. \A p : D!SendFeedback(p) => Swap!H!SendFeedback(p)
    BY SwapUnqueue
    DEF
    D!SendFeedback, D!tables, D!recvVars, D!pool, Swap!H!SendFeedback,
    Swap!H!tables, Swap!H!recvVars, Swap!H!pool
<1>4. \A p : D!Receive(p) => Swap!H!Receive(p)
    BY SwapUnqueue
    DEF
    D!Receive, D!RecvAnswer, D!RecvException, D!RecvCall, D!Feedback,
    D!tables, D!recvVars, D!pool, D!Outgoing, D!Live, D!Active, D!Parked,
    D!Call, Swap!H!Receive, Swap!H!RecvAnswer, Swap!H!RecvException,
    Swap!H!RecvCall, Swap!H!Feedback, Swap!H!tables, Swap!H!recvVars,
    Swap!H!pool, Swap!H!Outgoing, Swap!H!Live, Swap!H!Active, Swap!H!Parked,
    Swap!H!Call
<1>5. D!ProcessReturn => Swap!H!ProcessReturn
    BY SwapUnqueue
    DEF
    D!ProcessReturn, D!RecvDone, D!Feedback, D!tables, D!recvVars, D!pool,
    D!Active, D!Parked, D!Live, D!Call, D!Finish, D!OutgoingCallFinished,
    D!Newest, D!Outgoing, Swap!H!ProcessReturn, Swap!H!RecvDone,
    Swap!H!Feedback, Swap!H!tables, Swap!H!recvVars, Swap!H!pool,
    Swap!H!Active, Swap!H!Parked, Swap!H!Live, Swap!H!Call, Swap!H!Finish,
    Swap!H!OutgoingCallFinished, Swap!H!Newest, Swap!H!Outgoing
<1>6. D!ProcessAck => Swap!H!ProcessAck
    BY SwapUnqueue
    DEF
    D!ProcessAck, D!RecvDone, D!tables, D!recvVars, D!pool,
    Swap!H!ProcessAck, Swap!H!RecvDone, Swap!H!tables, Swap!H!recvVars,
    Swap!H!pool
<1>7. D!ProcessNak => Swap!H!ProcessNak
    BY SwapUnqueue
    DEF
    D!ProcessNak, D!RecvDone, D!tables, D!recvVars, D!pool,
    Swap!H!ProcessNak, Swap!H!RecvDone, Swap!H!tables, Swap!H!recvVars,
    Swap!H!pool
<1>8. D!ProcessNakOutgoing => Swap!H!ProcessNakOutgoing
    BY SwapUnqueue
    DEF
    D!ProcessNakOutgoing, D!RecvDone, D!tables, D!recvVars, D!pool,
    D!Active, D!Parked, D!Live, D!Call, D!Finish, D!OutgoingCallFinished,
    D!Newest, D!Outgoing, Swap!H!ProcessNakOutgoing, Swap!H!RecvDone,
    Swap!H!tables, Swap!H!recvVars, Swap!H!pool, Swap!H!Active,
    Swap!H!Parked, Swap!H!Live, Swap!H!Call, Swap!H!Finish,
    Swap!H!OutgoingCallFinished, Swap!H!Newest, Swap!H!Outgoing
<1>9. D!ProcessCallCheck => Swap!H!ProcessCallCheck
    BY SwapUnqueue
    DEF
    D!ProcessCallCheck, D!RecvDone, D!Feedback, D!tables, D!recvVars,
    D!pool, D!Outgoing, D!Live, D!Active, D!Parked, D!Call,
    Swap!H!ProcessCallCheck, Swap!H!RecvDone, Swap!H!Feedback,
    Swap!H!tables, Swap!H!recvVars, Swap!H!pool, Swap!H!Outgoing,
    Swap!H!Live, Swap!H!Active, Swap!H!Parked, Swap!H!Call
<1>10. D!ProcessCallPush => Swap!H!ProcessCallPush
    BY SwapUnqueue
    DEF
    D!ProcessCallPush, D!RecvDone, D!tables, D!recvVars, D!pool, D!Outgoing,
    D!Live, D!Active, D!Parked, D!Call, Swap!H!ProcessCallPush,
    Swap!H!RecvDone, Swap!H!tables, Swap!H!recvVars, Swap!H!pool,
    Swap!H!Outgoing, Swap!H!Live, Swap!H!Active, Swap!H!Parked, Swap!H!Call
<1>11. \A w : D!Take(w) => Swap!H!Take(w)
    BY SwapUnqueue
    DEF
    D!Take, D!tables, D!recvVars, D!pool, Swap!H!Take, Swap!H!tables,
    Swap!H!recvVars, Swap!H!pool
<1>12. \A w : D!Report(w) => Swap!H!Report(w)
    BY SwapUnqueue
    DEF
    D!Report, D!tables, D!recvVars, D!pool, Swap!H!Report, Swap!H!tables,
    Swap!H!recvVars, Swap!H!pool
<1>13. \A w, d : D!Respond(w, d) => Swap!H!Respond(w, d)
    BY SwapUnqueue
    DEF
    D!Respond, D!tables, D!recvVars, D!pool, Swap!H!Respond, Swap!H!tables,
    Swap!H!recvVars, Swap!H!pool
<1>14. \A c : D!ExpireIncoming(c) => Swap!H!ExpireIncoming(c)
    BY SwapUnqueue
    DEF
    D!ExpireIncoming, D!tables, D!recvVars, D!pool, Swap!H!ExpireIncoming,
    Swap!H!tables, Swap!H!recvVars, Swap!H!pool
<1>15. \A k : D!ExpireOutgoing(k) => Swap!H!ExpireOutgoing(k)
    BY SwapUnqueue
    DEF
    D!ExpireOutgoing, D!tables, D!recvVars, D!pool, D!Active, D!Parked,
    D!Live, D!Call, D!Finish, D!OutgoingCallFinished, D!Newest, D!Outgoing,
    Swap!H!ExpireOutgoing, Swap!H!tables, Swap!H!recvVars, Swap!H!pool,
    Swap!H!Active, Swap!H!Parked, Swap!H!Live, Swap!H!Call, Swap!H!Finish,
    Swap!H!OutgoingCallFinished, Swap!H!Newest, Swap!H!Outgoing
<1> QED
    BY <1>1, <1>2, <1>3, <1>4, <1>5, <1>6, <1>7,
       <1>8, <1>9, <1>10, <1>11, <1>12, <1>13, <1>14, <1>15

-----------------------------------------------------------------------------
(* The steps with the ends exchanged. *)

(* A step of the link is one of those that either endpoint may take.       *)
LEMMA NextSteps == IInv /\ [Next]_vars => [Steps]_vars
<1> SUFFICES ASSUME IInv, Next
             PROVE  Steps
    OBVIOUS
<1>1. ASSUME NEW p \in D!Packet, DeviceSends(p)
      PROVE  DeviceSent(p)
    BY <1>1 DEF DeviceSends, DeviceSent, Room
<1>2. ASSUME NEW p \in D!Packet, HostSends(p)
      PROVE  HostSent(p)
  <2>1. toD # <<>> \/ Len(toD) < Capacity
      BY LinkAssumption
  <2>2. (IF Len(toD) < Capacity THEN toD ELSE Tail(toD)) \in Room(toD)
      BY <2>1 DEF Room
  <2> QED
      BY <1>2, <2>2 DEF HostSends, HostSent
<1> QED
    BY <1>1, <1>2 DEF Next, Steps, Deliver, Travels

(* What an action leaves alone, it leaves alone with the ends exchanged. *)
LEMMA SwapVars ==
    /\ Swap!device = host /\ Swap!host = device
    /\ \A q : Swap!Room(q) = Room(q)
BY DEF device, host, Swap!device, Swap!host, Room, Swap!Room

(* ... and what stands still does so for both. *)
LEMMA SwapUnchanged ==
    /\ UNCHANGED link => UNCHANGED Swap!link
    /\ UNCHANGED history => UNCHANGED Swap!history
    /\ UNCHANGED drawn => UNCHANGED Swap!drawn
    /\ UNCHANGED host => UNCHANGED Swap!device
    /\ UNCHANGED device => UNCHANGED Swap!host
    /\ UNCHANGED vars => UNCHANGED Swap!vars
BY DEF link, history, drawn, device, host, vars, Swap!link, Swap!history,
       Swap!drawn, Swap!device, Swap!host, Swap!vars

(* ... and what is a step of the link stays one when the ends are exchanged. *)
LEMMA SwapSteps == [Steps]_vars => [Swap!Steps]_Swap!vars
<1> SUFFICES ASSUME Steps
             PROVE  Swap!Steps
    BY SwapUnchanged
<1>1. ASSUME NEW c \in Cid, NEW d \in Sized,
             \/ \E k \in 1 .. DCalls : DeviceCalls(k, c, d)
             \/ \E k \in 1 .. HCalls : HostCalls(k, c, d)
      PROVE  Swap!Calls
  <2>1. Fresh(c) => Swap!Fresh(c)
      BY DEF Fresh, Swap!Fresh, Range, Swap!Range
  <2>2. ASSUME NEW k \in 1 .. DCalls, DeviceCalls(k, c, d)
        PROVE  Swap!HostCalls(k, c, d)
      BY <2>1, <2>2, SwapDevice
      DEF DeviceCalls, host, link, Swap!HostCalls, Swap!device, Swap!link
  <2>3. ASSUME NEW k \in 1 .. HCalls, HostCalls(k, c, d)
        PROVE  Swap!DeviceCalls(k, c, d)
      BY <2>1, <2>3, SwapHost
      DEF HostCalls, device, link, Swap!DeviceCalls, Swap!host, Swap!link
  <2> QED
      BY <1>1, <2>2, <2>3 DEF Swap!Calls
<1>2. ASSUME NEW p \in D!Packet, Travels(p)
      PROVE  \E q \in Swap!D!Packet : Swap!Travels(q)
  <2>1. DeviceSent(p) => Swap!HostSent(p)
      BY SwapVars, SwapUnchanged, SwapDevice DEF DeviceSent, Swap!HostSent
  <2>2. HostSent(p) => Swap!DeviceSent(p)
      BY SwapVars, SwapUnchanged, SwapHost DEF HostSent, Swap!DeviceSent
  <2>3. DeviceHears(p) => Swap!HostHears(p)
      BY SwapUnchanged, SwapDevice DEF DeviceHears, Swap!HostHears
  <2>4. HostHears(p) => Swap!DeviceHears(p)
      BY SwapUnchanged, SwapHost DEF HostHears, Swap!DeviceHears
  <2> QED
      BY <1>2, <2>1, <2>2, <2>3, <2>4, SwapPackets DEF Travels, Swap!Travels
<1>3. Lose => Swap!Lose
    BY SwapUnchanged DEF Lose, Swap!Lose
<1>4. \A c : Accepts(c) => Swap!Accepts(c)
    BY DEF Accepts, Swap!Accepts, link, drawn, Swap!link, Swap!drawn
<1>5. \A c, d : Answers(c, d) => Swap!Answers(c, d)
    BY DEF Answers, Swap!Answers, link, drawn, Swap!link, Swap!drawn
<1>6. \A c : Forgets(c) => Swap!Forgets(c)
  <2>1. \A S : Cardinality(S) = Swap!Cardinality(S)
      BY Zenon DEF Cardinality, Swap!Cardinality
  <2> QED
      BY <2>1 DEF Forgets, Swap!Forgets, MayLapse, Swap!MayLapse, link, drawn,
                  Swap!link, Swap!drawn
<1>7. DeviceProcesses \/ DeviceAccepts => Swap!HostProcesses \/ Swap!HostAccepts
    BY <1>4, SwapUnchanged, SwapDevice
    DEF DeviceProcesses, DeviceAccepts, Swap!HostProcesses, Swap!HostAccepts
<1>8. HostProcesses \/ HostAccepts => Swap!DeviceProcesses \/ Swap!DeviceAccepts
    BY <1>4, SwapUnchanged, SwapHost
    DEF HostProcesses, HostAccepts, Swap!DeviceProcesses, Swap!DeviceAccepts
<1>9. \A w : DeviceRuns(w) => Swap!HostRuns(w)
    BY <1>5, SwapUnchanged, SwapDevice
    DEF DeviceRuns, DeviceWorks, DeviceAnswers, Swap!HostRuns, Swap!HostWorks,
        Swap!HostAnswers
<1>10. \A w : HostRuns(w) => Swap!DeviceRuns(w)
    BY <1>5, SwapUnchanged, SwapHost
    DEF HostRuns, HostWorks, HostAnswers, Swap!DeviceRuns, Swap!DeviceWorks,
        Swap!DeviceAnswers
<1>11. \A c : DeviceForgets(c) => Swap!HostForgets(c)
    BY <1>6, SwapUnchanged, SwapDevice DEF DeviceForgets, Swap!HostForgets
<1>12. \A c : HostForgets(c) => Swap!DeviceForgets(c)
    BY <1>6, SwapUnchanged, SwapHost DEF HostForgets, Swap!DeviceForgets
<1>13. \A k : DeviceExpires(k) => Swap!HostExpires(k)
    BY SwapUnchanged, SwapDevice DEF DeviceExpires, Swap!HostExpires
<1>14. \A k : HostExpires(k) => Swap!DeviceExpires(k)
    BY SwapUnchanged, SwapHost DEF HostExpires, Swap!DeviceExpires
<1> QED
    BY <1>1, <1>2, <1>3, <1>7, <1>8, <1>9, <1>10, <1>11, <1>12, <1>13, <1>14
    DEF Steps, Calls, Swap!Steps

-----------------------------------------------------------------------------
(* The inductive invariant. *)

(* The types of the link and of what the properties look back on. *)
Records ==
    /\ toD \in Seq(D!Packet) /\ toH \in Seq(D!Packet)
    /\ drawnD \in [1 .. DCalls -> Cid \cup {None}]
    /\ drawnH \in [1 .. HCalls -> Cid \cup {None}]
    /\ accepted \in [Cid -> Nat]
    /\ answered \subseteq Cid \X Sized /\ lapsed \subseteq Cid
    /\ IdsD \cap IdsH = {}

(* A call that is made has an id that no call had.                         *)
LEMMA CallsRecords ==
    ASSUME IInv, Calls
    PROVE  Records'
<1>1. /\ drawnD \in [1 .. DCalls -> Cid \cup {None}]
      /\ drawnH \in [1 .. HCalls -> Cid \cup {None}]
    BY DEF IInv, LinkType
<1>2. \A c : c \in IdsD <=> c \in Cid /\ \E k \in 1 .. DCalls : drawnD[k] = c
    BY <1>1 DEF IdsD, Ids
<1>3. \A c : c \in IdsH <=> c \in Cid /\ \E k \in 1 .. HCalls : drawnH[k] = c
    BY <1>1 DEF IdsH, Ids
<1>4. PICK c \in Cid, d \in Sized :
         \/ \E k \in 1 .. DCalls : DeviceCalls(k, c, d)
         \/ \E k \in 1 .. HCalls : HostCalls(k, c, d)
    BY DEF Calls
<1>5. CASE \E k \in 1 .. DCalls : DeviceCalls(k, c, d)
  <2>1. PICK k \in 1 .. DCalls :
           /\ Fresh(c) /\ drawnD' = [drawnD EXCEPT ![k] = c]
           /\ UNCHANGED <<host, link, drawnH, accepted, answered, lapsed>>
      BY <1>5 DEF DeviceCalls
  <2>2. \A j \in 1 .. HCalls : drawnH[j] # c
      BY <1>1, <2>1 DEF Fresh, Range
  <2>3. drawnD' \in [1 .. DCalls -> Cid \cup {None}]
      BY <1>1, <2>1
  <2>4. \A b : b \in IdsD' => b \in IdsD \/ b = c
      BY <1>1, <1>2, <2>1, <2>3 DEF IdsD, Ids
  <2>5. IdsH' = IdsH
      BY <2>1 DEF IdsH
  <2>6. c \notin IdsH
      BY <1>3, <2>2
  <2> QED
      BY <2>1, <2>3, <2>4, <2>5, <2>6 DEF IInv, LinkType, Records, link
<1>6. CASE \E k \in 1 .. HCalls : HostCalls(k, c, d)
  <2>1. PICK k \in 1 .. HCalls :
           /\ Fresh(c) /\ drawnH' = [drawnH EXCEPT ![k] = c]
           /\ UNCHANGED <<device, link, drawnD, accepted, answered, lapsed>>
      BY <1>6 DEF HostCalls
  <2>2. \A j \in 1 .. DCalls : drawnD[j] # c
      BY <1>1, <2>1 DEF Fresh, Range
  <2>3. drawnH' \in [1 .. HCalls -> Cid \cup {None}]
      BY <1>1, <2>1
  <2>4. \A b : b \in IdsH' => b \in IdsH \/ b = c
      BY <1>1, <1>3, <2>1, <2>3 DEF IdsH, Ids
  <2>5. IdsD' = IdsD
      BY <2>1 DEF IdsD
  <2>6. c \notin IdsD
      BY <1>2, <2>2
  <2> QED
      BY <2>1, <2>3, <2>4, <2>5, <2>6 DEF IInv, LinkType, Records, link
<1> QED
    BY <1>4, <1>5, <1>6

(* They are kept by packets that travel ... *)
LEMMA TravelsRecords ==
    ASSUME IInv, NEW p \in D!Packet, Travels(p)
    PROVE  Records'
<1>1. toD \in Seq(D!Packet) /\ toH \in Seq(D!Packet)
    BY DEF IInv, LinkType
<1>2. UNCHANGED history
    BY DEF Travels, DeviceSent, HostSent, DeviceHears, HostHears
<1>3. \A to \in Seq(D!Packet) : \A q \in Room(to) :
         q \in Seq(D!Packet) /\ Append(q, p) \in Seq(D!Packet)
  <2> SUFFICES ASSUME NEW to \in Seq(D!Packet), NEW q \in Room(to)
               PROVE  q \in Seq(D!Packet) /\ Append(q, p) \in Seq(D!Packet)
      OBVIOUS
  <2>1. q \in Seq(D!Packet)
      BY TailRange DEF Room
  <2> QED
      BY <2>1, AppendProperties
<1>4. toD' \in Seq(D!Packet) /\ toH' \in Seq(D!Packet)
    BY <1>1, <1>3, TailRange
    DEF Travels, DeviceSent, HostSent, DeviceHears, HostHears
<1> QED
    BY <1>2, <1>4 DEF IInv, LinkType, Records, history, drawn, IdsD, IdsH

(* ... and by what the threads do, ... *)
LEMMA ThreadsRecords ==
    ASSUME IInv,
           \/ DeviceAccepts \/ HostAccepts
           \/ \E w \in Worker, d \in Sized :
                 DeviceAnswers(w, d) \/ HostAnswers(w, d)
           \/ \E c \in Cid : Forgets(c)
    PROVE  Records'
<1>1. UNCHANGED <<link, drawn>>
    BY DEF DeviceAccepts, HostAccepts, Accepts, DeviceAnswers, HostAnswers,
           Answers, Forgets
<1>2. accepted' \in [Cid -> Nat]
  <2>1. ASSUME NEW c, Accepts(c)
        PROVE  accepted' \in [Cid -> Nat]
    <3>1. /\ accepted \in [Cid -> Nat]
          /\ accepted' = [accepted EXCEPT ![c] = @ + 1]
        BY <2>1 DEF IInv, LinkType, Accepts
    <3>2. CASE c \in Cid
      <4>1. accepted[c] + 1 \in Nat
          BY <3>1, <3>2
      <4> QED
          BY <3>1, <4>1
    <3>3. CASE c \notin Cid
        BY <3>1, <3>3
    <3> QED
        BY <3>2, <3>3
  <2> QED
      BY <2>1 DEF IInv, LinkType, DeviceAccepts, HostAccepts, DeviceAnswers,
                  HostAnswers, Answers, Forgets
<1>3. \A w \in Worker :
         /\ runningD[w] # None /\ runningD[w].job = "serve"
               => runningD[w].cid \in Cid
         /\ runningH[w] # None /\ runningH[w].job = "serve"
               => runningH[w].cid \in Cid
    BY DEF IInv, LinkType, D!TypeOK, D!Job, D!Completion, D!Service, H!TypeOK,
           H!Job, H!Completion, H!Service
<1>4. answered' \subseteq Cid \X Sized
  <2>1. ASSUME NEW w \in Worker, NEW d \in Sized,
               DeviceAnswers(w, d) \/ HostAnswers(w, d)
        PROVE  answered' \subseteq Cid \X Sized
      BY <1>3, <2>1
      DEF IInv, LinkType, DeviceAnswers, HostAnswers, Answers, D!Respond,
          H!Respond
  <2> QED
      BY <2>1 DEF IInv, LinkType, DeviceAccepts, HostAccepts, Accepts, Forgets
<1>5. lapsed' \subseteq Cid
    BY DEF IInv, LinkType, DeviceAccepts, HostAccepts, Accepts, DeviceAnswers,
           HostAnswers, Answers, Forgets
<1> QED
    BY <1>1, <1>2, <1>4, <1>5
    DEF IInv, LinkType, Records, link, drawn, IdsD, IdsH

(* ... so by every step. *)
LEMMA RecordsStep == IInv /\ [Steps]_vars => Records'
<1> SUFFICES ASSUME IInv, [Steps]_vars
             PROVE  Records'
    OBVIOUS
<1>1. ASSUME UNCHANGED history,
             toD' = toD \/ (toD # <<>> /\ toD' = Tail(toD)),
             toH' = toH \/ (toH # <<>> /\ toH' = Tail(toH))
      PROVE  Records'
  <2>1. toD \in Seq(D!Packet) /\ toH \in Seq(D!Packet)
      BY DEF IInv, LinkType
  <2>2. \A q \in Seq(D!Packet) : q # <<>> => Tail(q) \in Seq(D!Packet)
      BY TailRange
  <2>3. toD' \in Seq(D!Packet) /\ toH' \in Seq(D!Packet)
      BY <1>1, <2>1, <2>2
  <2> QED
      BY <1>1, <2>3 DEF IInv, LinkType, Records, history, drawn, IdsD, IdsH
<1>2. CASE Lose \/ UNCHANGED vars
    BY <1>1, <1>2 DEF Lose, vars, link
<1>3. CASE DeviceProcesses \/ HostProcesses
    BY <1>1, <1>3 DEF DeviceProcesses, HostProcesses, link
<1>4. CASE \E w \in Worker : DeviceRuns(w) \/ HostRuns(w)
    BY <1>1, <1>4, ThreadsRecords
    DEF DeviceRuns, HostRuns, DeviceWorks, HostWorks, link
<1>5. CASE \E c \in Cid : DeviceForgets(c) \/ HostForgets(c)
    BY <1>5, ThreadsRecords DEF DeviceForgets, HostForgets
<1>6. CASE \/ \E k \in 1 .. DCalls : DeviceExpires(k)
           \/ \E k \in 1 .. HCalls : HostExpires(k)
    BY <1>1, <1>6 DEF DeviceExpires, HostExpires, link
<1> QED
    BY <1>2, <1>3, <1>4, <1>5, <1>6, CallsRecords, TravelsRecords,
       ThreadsRecords
    DEF Steps

(* The invariant holds at first, ... *)
LEMMA IInvInit == Init => IInv
<1> SUFFICES ASSUME Init
             PROVE  IInv
    OBVIOUS
<1>1. Swap!Init
  <2>1. H!Init => Swap!D!Init
      BY DEF H!Init, Swap!D!Init, H!Call, Swap!D!Call
  <2>2. D!Init => Swap!H!Init
      BY DEF D!Init, Swap!H!Init, D!Call, Swap!H!Call
  <2> QED
      BY <2>1, <2>2 DEF Init, Swap!Init
<1>2. WayD /\ WayH
  <2>1. Swap!WayD
      BY <1>1, SwapAssumption, Swap!WayInit
  <2> QED
      BY <2>1, WayInit, SwapWays
<1>3. D!TypeOK /\ H!TypeOK
  <2>1. Swap!D!TypeOK
      BY <1>1, SwapAssumption, Swap!DeviceInit DEF Swap!Init
  <2> QED
      BY <2>1, DeviceInit, SwapTypes DEF Init
<1>4. Records
  <2>1. <<>> \in Seq(D!Packet)
      BY EmptySeq
  <2>2. IdsD \cap IdsH = {}
      BY LinkAssumption DEF Init, IdsD, IdsH, Ids
  <2> QED
      BY <2>1, <2>2 DEF Init, Records
<1> QED
    BY <1>2, <1>3, <1>4 DEF IInv, LinkType, Records

(* ... and every step keeps it. *)
LEMMA IInvStep == IInv /\ [Next]_vars => IInv'
<1> SUFFICES ASSUME IInv, [Next]_vars
             PROVE  IInv'
    OBVIOUS
<1>1. [Steps]_vars /\ [Swap!Steps]_Swap!vars /\ Swap!IInv
    BY NextSteps, SwapSteps, SwapInvariant
<1>2. WayD'
    BY <1>1, WayStep
<1>3. WayH'
  <2>1. Swap!WayD'
      BY <1>1, SwapAssumption, Swap!WayStep
  <2> QED
      BY <2>1, SwapWays, PTL
<1>4. D!TypeOK'
    BY <1>1, DeviceStep, DeviceTypes DEF IInv, LinkType
<1>5. H!TypeOK'
  <2>1. [Swap!DeviceMoves]_Swap!device
      BY <1>1, SwapAssumption, Swap!DeviceStep
  <2>2. Swap!D!TypeOK
      BY <1>1 DEF Swap!IInv, Swap!LinkType
  <2>3. Swap!D!TypeOK'
      BY <2>1, <2>2, SwapAssumption, Swap!DeviceTypes
  <2> QED
      BY <2>3, SwapTypes, PTL
<1> QED
    BY <1>1, <1>2, <1>3, <1>4, <1>5, RecordsStep DEF IInv, LinkType, Records

(* What is known of the calls of both endpoints holds in every state.      *)
THEOREM Ways == Spec => []IInv
<1>1. Init => IInv
    BY IInvInit
<1>2. IInv /\ [Next]_vars => IInv'
    BY IInvStep
<1> QED
    BY <1>1, <1>2, PTL DEF Spec

-----------------------------------------------------------------------------
(* Whatever is lost, sent again or late, an endpoint takes a call for      *)
(* service once, unless its record expired (process_call's look at the     *)
(* incoming table, process_ack's removal).                                 *)
THEOREM ServedOnce == Spec => []AtMostOnce
<1>1. IInv => AtMostOnce
  <2> SUFFICES ASSUME IInv, NEW c \in Cid
               PROVE  accepted[c] <= 1 \/ c \in lapsed
      BY DEF AtMostOnce
  <2>1. c \notin IdsH \/ c \notin IdsD
      BY DEF IInv
  <2>2. c \in lapsed \/ accepted[c] = 0 \/ accepted[c] = 1
      BY <2>1 DEF IInv, WayD, WayH, Taken
  <2> QED
      BY <2>2
<1> QED
    BY <1>1, Ways, PTL

(* A call that succeeds was served by the other endpoint, and its callback *)
(* is given what the handler responded to that very call, not a late       *)
(* return to another (process_return finds the call by its id).            *)
THEOREM AnswersGenuine == Spec => []Genuine
<1>1. IInv => Genuine
    BY DEF IInv, WayD, WayH, Reported, Genuine, EndedD, EndedH
<1> QED
    BY <1>1, Ways, PTL

(* Endpoints that know each other's commands reject nothing: a nak never   *)
(* ends a call that is waited for (process_nak), so a call ends by its     *)
(* return or by its expiry.                                                *)
THEOREM NoneRejected == Spec => []NothingRejected
<1>1. IInv => NothingRejected
    BY DEF IInv, WayD, WayH, Reported, NothingRejected, EndedD, EndedH
<1> QED
    BY <1>1, Ways, PTL

=============================================================================
