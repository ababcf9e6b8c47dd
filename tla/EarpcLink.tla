----------------------------- MODULE EarpcLink -----------------------------
(***************************************************************************)
(* Two earpc endpoints on a link that keeps the order of the packets and   *)
(* may lose them: the device (D) and the host (H), which runs the same     *)
(* library.  A queued packet is sent again and again until it is removed,  *)
(* so either endpoint may see any number of copies of it.                  *)
(*                                                                         *)
(* Call ids are drawn at random from 2^16; here no id is drawn twice       *)
(* (Fresh), which is what the protocol relies on: an endpoint excludes     *)
(* only the ids on its own tables.                                         *)
(***************************************************************************)
EXTENDS Naturals, Sequences, FiniteSets, Functions

CONSTANTS
    Cid, Payload, Sized, Worker, None,  \* as in Earpc
    DCalls,    \* bound: calls the device makes
    HCalls,    \* bound: calls the host makes
    MaxQueue,  \* bound: length of a feedback queue at which nothing is taken
    Lapses,    \* bound: incoming calls that expire
    Capacity   \* bound: packets on their way in one direction

VARIABLES
    stageD, requestD, incD, sendqD, fbqD, jobsD, runningD, rpcD, rpktD,
    toldD, namedD,
    stageH, requestH, incH, sendqH, fbqH, jobsH, runningH, rpcH, rpktH,
    toldH, namedH,
    toD, toH,        \* the packets on their way
    drawnD, drawnH,  \* history: drawnD[k] is the id of the device's k-th
                     \* call, or None; so drawnH for the host's
    accepted,  \* history: how often call c was taken for service
    answered,  \* history: <<c, d>> where d was the response to call c
    lapsed     \* history: the ids whose incoming record expired

D == INSTANCE Earpc WITH
        NCalls <- DCalls,
        stage <- stageD, request <- requestD, inc <- incD, sendq <- sendqD,
        fbq <- fbqD, jobs <- jobsD, running <- runningD, rpc <- rpcD,
        rpkt <- rpktD, told <- toldD, named <- namedD

H == INSTANCE Earpc WITH
        NCalls <- HCalls,
        stage <- stageH, request <- requestH, inc <- incH, sendq <- sendqH,
        fbq <- fbqH, jobs <- jobsH, running <- runningH, rpc <- rpcH,
        rpkt <- rpktH, told <- toldH, named <- namedH

device  == <<stageD, requestD, incD, sendqD, fbqD, jobsD, runningD, rpcD,
             rpktD, toldD, namedD>>
host    == <<stageH, requestH, incH, sendqH, fbqH, jobsH, runningH, rpcH,
             rpktH, toldH, namedH>>
link    == <<toD, toH>>
drawn   == <<drawnD, drawnH>>
history == <<drawn, accepted, answered, lapsed>>
vars    == <<device, host, link, history>>

Fresh(c) == c \notin Range(drawnD) \cup Range(drawnH)

(* An incoming record that expires while copies of its call are under way  *)
(* may be made again, so the expiries are counted against a bound.         *)
MayLapse(c) == c \notin lapsed /\ Cardinality(lapsed) < Lapses

(* The buffer of the link holds a packet at least. *)
ASSUME LinkAssumption ==
    /\ DCalls \in Nat /\ HCalls \in Nat /\ MaxQueue \in Nat
    /\ Capacity \in Nat \ {0}
    /\ Sized \subseteq Payload
    /\ None \notin Cid \cup Payload \cup D!Packet \cup D!Job \cup H!Job

-----------------------------------------------------------------------------
(* The calls that are made: the k-th one gets id c. *)

DeviceCalls(k, c, d) ==
    /\ Fresh(c)
    /\ D!DoCall([kind |-> "call", cid |-> c, data |-> d])
    /\ stageD[k] = "unborn" /\ stageD'[k] # "unborn"
    /\ drawnD' = [drawnD EXCEPT ![k] = c]
    /\ UNCHANGED <<host, link, drawnH, accepted, answered, lapsed>>

HostCalls(k, c, d) ==
    /\ Fresh(c)
    /\ H!DoCall([kind |-> "call", cid |-> c, data |-> d])
    /\ stageH[k] = "unborn" /\ stageH'[k] # "unborn"
    /\ drawnH' = [drawnH EXCEPT ![k] = c]
    /\ UNCHANGED <<device, link, drawnD, accepted, answered, lapsed>>

-----------------------------------------------------------------------------
(* The link. *)

(* The device waits for room; on its side the oldest packet gives way     *)
(* (spi_pkt_slave).                                                        *)

DeviceSends(p) ==
    /\ Len(toH) < Capacity
    /\ \/ D!Send(p)
       \/ D!SendFeedback(p)
    /\ toH' = Append(toH, p)
    /\ UNCHANGED <<host, toD, history>>

HostSends(p) ==
    /\ \/ H!Send(p)
       \/ H!SendFeedback(p)
    /\ toD' = Append(IF Len(toD) < Capacity THEN toD ELSE Tail(toD), p)
    /\ UNCHANGED <<device, toH, history>>

DeviceHears(p) ==
    /\ toD # <<>> /\ p = Head(toD)
    /\ Len(fbqD) < MaxQueue
    /\ D!Receive(p)
    /\ toD' = Tail(toD)
    /\ UNCHANGED <<host, toH, history>>

HostHears(p) ==
    /\ toH # <<>> /\ p = Head(toH)
    /\ Len(fbqH) < MaxQueue
    /\ H!Receive(p)
    /\ toH' = Tail(toH)
    /\ UNCHANGED <<device, toD, history>>

Lose ==
    /\ \/ toD # <<>> /\ toD' = Tail(toD) /\ UNCHANGED toH
       \/ toH # <<>> /\ toH' = Tail(toH) /\ UNCHANGED toD
    /\ UNCHANGED <<device, host, history>>

-----------------------------------------------------------------------------
(* What the threads of the endpoints do by themselves. *)

Accepts(c) ==
    /\ accepted' = [accepted EXCEPT ![c] = @ + 1]
    /\ UNCHANGED <<link, drawn, answered, lapsed>>

Answers(c, d) ==
    /\ answered' = answered \cup {<<c, d>>}
    /\ UNCHANGED <<link, drawn, accepted, lapsed>>

Forgets(c) ==
    /\ MayLapse(c)
    /\ lapsed' = lapsed \cup {c}
    /\ UNCHANGED <<link, drawn, accepted, answered>>

DeviceAccepts == D!ProcessCallPush /\ Accepts(rpktD.cid) /\ UNCHANGED host
HostAccepts   == H!ProcessCallPush /\ Accepts(rpktH.cid) /\ UNCHANGED device

DeviceAnswers(w, d) ==
    D!Respond(w, d) /\ Answers(runningD[w].cid, d) /\ UNCHANGED host
HostAnswers(w, d) ==
    H!Respond(w, d) /\ Answers(runningH[w].cid, d) /\ UNCHANGED device

DeviceForgets(c) == D!ExpireIncoming(c) /\ Forgets(c) /\ UNCHANGED host
HostForgets(c)   == H!ExpireIncoming(c) /\ Forgets(c) /\ UNCHANGED device

DeviceProcesses ==
    /\ \/ D!ProcessReturn \/ D!ProcessAck \/ D!ProcessNak
       \/ D!ProcessNakOutgoing \/ D!ProcessCallCheck
    /\ UNCHANGED <<host, link, history>>

HostProcesses ==
    /\ \/ H!ProcessReturn \/ H!ProcessAck \/ H!ProcessNak
       \/ H!ProcessNakOutgoing \/ H!ProcessCallCheck
    /\ UNCHANGED <<device, link, history>>

DeviceWorks(w) ==
    (D!Take(w) \/ D!Report(w)) /\ UNCHANGED <<host, link, history>>
HostWorks(w) ==
    (H!Take(w) \/ H!Report(w)) /\ UNCHANGED <<device, link, history>>

DeviceExpires(k) == D!ExpireOutgoing(k) /\ UNCHANGED <<host, link, history>>
HostExpires(k)   == H!ExpireOutgoing(k) /\ UNCHANGED <<device, link, history>>

-----------------------------------------------------------------------------
Init ==
    /\ D!Init /\ H!Init
    /\ toD = <<>> /\ toH = <<>>
    /\ drawnD = [k \in 1 .. DCalls |-> None]
    /\ drawnH = [k \in 1 .. HCalls |-> None]
    /\ answered = {} /\ lapsed = {}
    /\ accepted = [c \in Cid |-> 0]

Calls ==
    \E c \in Cid, d \in Sized :
        \/ \E k \in 1 .. DCalls : DeviceCalls(k, c, d)
        \/ \E k \in 1 .. HCalls : HostCalls(k, c, d)

Deliver(p) == DeviceSends(p) \/ HostSends(p) \/ DeviceHears(p) \/ HostHears(p)

DeviceRuns(w) == DeviceWorks(w) \/ \E d \in Sized : DeviceAnswers(w, d)
HostRuns(w)   == HostWorks(w) \/ \E d \in Sized : HostAnswers(w, d)

Next ==
    \/ Calls
    \/ \E p \in D!Packet : Deliver(p)
    \/ Lose
    \/ DeviceProcesses \/ DeviceAccepts
    \/ HostProcesses \/ HostAccepts
    \/ \E w \in Worker : DeviceRuns(w) \/ HostRuns(w)
    \/ \E c \in Cid : DeviceForgets(c) \/ HostForgets(c)
    \/ \E k \in 1 .. DCalls : DeviceExpires(k)
    \/ \E k \in 1 .. HCalls : HostExpires(k)

Spec == Init /\ [][Next]_vars

(* A packet is lost: by the link, or because another one pushes it out. *)
Loses == Lose \/ (Len(toD) = Capacity /\ \E p \in Range(sendqH \o fbqH) : HostSends(p))

(***************************************************************************)
(* The threads run, and no kind of packet is passed over for ever by those *)
(* that send them.  The link loses packets as it likes, but not for ever.  *)
(* No call is made by fairness, and none, outgoing or incoming, has to     *)
(* expire: the expiry thread may have missed the notify of a call          *)
(* (EarpcExpiry).                                                          *)
(***************************************************************************)
Kinds == {{"call"}, {"return"}, {"ack", "nak"}}

Of(K, queue) == {p \in Range(queue) : p.kind \in K}

Fairness ==
    /\ WF_vars(DeviceProcesses \/ DeviceAccepts)
    /\ WF_vars(HostProcesses \/ HostAccepts)
    /\ \A w \in Worker : WF_vars(DeviceRuns(w)) /\ WF_vars(HostRuns(w))
    /\ WF_vars(\E p \in Range(toD) : DeviceHears(p))
    /\ WF_vars(\E p \in Range(toH) : HostHears(p))
    /\ \A K \in Kinds :
          /\ SF_vars(\E p \in Of(K, sendqD \o fbqD) : DeviceSends(p))
          /\ WF_vars(\E p \in Of(K, sendqH \o fbqH) : HostSends(p))
    /\ <>[][~Loses]_vars

FairSpec == Init /\ [][Next]_vars /\ Fairness

-----------------------------------------------------------------------------
(* A call is taken for service once, however many copies of it are sent    *)
(* and whatever acknowledgement is lost; only a call whose record expired  *)
(* can be served again (process_call's look at the incoming table, the     *)
(* removal by process_ack).                                                *)
AtMostOnce == \A c \in Cid : accepted[c] <= 1 \/ c \in lapsed

Ended(jobs, running) ==
    {j \in Range(jobs) \cup Range(running) : j # None /\ j.job = "finished"}

EndedD == Ended(jobsD, runningD)
EndedH == Ended(jobsH, runningH)

(* A call that succeeds was served by the other endpoint, and what its     *)
(* callback is given is what the handler responded to that very call, not  *)
(* a late return to one that expired.                                      *)
Genuine ==
    /\ \A j \in EndedD :
          j.reason = "success" => <<drawnD[j.call], j.data>> \in answered
    /\ \A j \in EndedH :
          j.reason = "success" => <<drawnH[j.call], j.data>> \in answered

(* Endpoints that know each other's commands reject nothing: a nak goes    *)
(* only to a packet that is no longer waited for, so a call ends by its    *)
(* return or by its expiry.                                                *)
NothingRejected ==
    \A j \in EndedD \cup EndedH : j.reason \in {"success", "expired"}

(* A call that is active although its service is forgotten: the record of  *)
(* it expired at the other endpoint and took its return off the queue.     *)
Forgotten(stage, drawn1, k) == stage[k] = "active" /\ drawn1[k] \in lapsed

(* Both endpoints come to rest: every call and every return is taken off   *)
(* the send queues in the end, those whose record has expired too, and no  *)
(* call stays on a table, the parked ones neither.  What may keep them     *)
(* from it is a forgotten call, which only its own expiry ends.            *)
Settles ==
    \/ <>[](/\ sendqD = <<>> /\ sendqH = <<>>
            /\ fbqD = <<>> /\ fbqH = <<>>
            /\ \A c \in Cid : incD[c] = None /\ incH[c] = None
            /\ D!Live = {} /\ H!Live = {})
    \/ \E k \in 1 .. DCalls : <>[]Forgotten(stageD, drawnD, k)
    \/ \E k \in 1 .. HCalls : <>[]Forgotten(stageH, drawnH, k)
=============================================================================
