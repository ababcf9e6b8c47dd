------------------------------- MODULE Earpc -------------------------------
(***************************************************************************)
(* One endpoint of the earpc protocol (WaterMinilabIO.X/earpc): the tables *)
(* of outgoing and incoming calls, the send, feedback and callback queues, *)
(* and the threads that work on them.  The peer is left open: it may send  *)
(* any packet at any time (Next), or be another endpoint (EarpcLink).      *)
(*                                                                         *)
(* Grain of atomicity.  An action is what a thread does from taking the    *)
(* outer lock of a table to releasing it, with the queue operations nested *)
(* in it and the callback::notify that follows; a handler that takes one   *)
(* lock after another is split between them.  do_call is one action: its   *)
(* two locks are separate, but between them the thread does not block, and *)
(* whoever could end the new call first has to pass proc_send::queue_lock  *)
(* behind it.                                                              *)
(*                                                                         *)
(* Abstracted: addresses (the link has one peer, the transport reports     *)
(* address 0 and every call goes to 0, so the branches taken when ip       *)
(* differs are dead), clocks (a record may expire and a queued packet may  *)
(* be resent at any moment), payload bytes (members of Payload; Sized are  *)
(* those of the length the receiver expects).                              *)
(***************************************************************************)
EXTENDS Naturals, Sequences, FiniteSets, SequencesExt

CONSTANTS
    Cid,       \* call ids (uint16_t, drawn at random)
    Payload,   \* argument and return values
    Sized,     \* the payloads whose size is the one the receiver expects
    Worker,    \* threads of the callback pool
    NCalls,    \* bound: calls made by do_call
    MaxQueue,  \* bound: length of a queue at which the peer is not heard
    None

Call == 1 .. NCalls

Reason == {"success", "expired", "rejected", "cancelled", "size_mismatch"}
Stage  == {"unborn", "parked", "active", "done"}

(* "unknown" is a call whose command id is not in buf_command. *)
Request == [kind : {"call", "unknown"}, cid : Cid, data : Payload]
Return  == [kind : {"return"}, cid : Cid, data : Payload]
Signal  == [kind : {"ack", "nak", "exception"}, cid : Cid, data : {None}]
Packet  == Request \cup Return \cup Signal

Feedback(kind, c) == [kind |-> kind, cid |-> c, data |-> None]

(* What callback::notify binds: a user callback with an outgoing call's    *)
(* handle, or a command handler with an incoming call's.                   *)
Completion == [job : {"finished"}, call : Call, reason : Reason,
               data : Payload \cup {None}]
Service    == [job : {"serve"}, cid : Cid, data : Payload]
Job        == Completion \cup Service

ASSUME EarpcAssumption ==
    /\ NCalls \in Nat
    /\ MaxQueue \in Nat
    /\ Sized \subseteq Payload
    /\ None \notin Cid \cup Payload \cup Packet \cup Job

VARIABLES
    stage,    \* stage[k]: the k-th outgoing call; a parked or active call is
              \* in buf_outgoing_call, whose order is newest (highest k) first
    request,  \* request[k]: its packet (call id, command, argument), or None
    inc,      \* inc[c]: the argument of the incoming call c, or None
    sendq,    \* proc_send's queue: packets resent until removed
    fbq,      \* proc_feedback's queue: packets sent once
    jobs,     \* proc_callback's buffer
    running,  \* running[w]: what worker w is executing, or None
    rpc,      \* where the receive thread stands
    rpkt,     \* the packet it is processing, or None
    told,     \* history: how often the callback of call k has run
    named     \* history: calls whose id was named by a packet that was taken,
              \* or still being processed, after they began

tables  == <<stage, request>>
recvVars == <<rpc, rpkt>>
pool    == <<running, told>>
vars == <<stage, request, inc, sendq, fbq, jobs, running, rpc, rpkt,
          told, named>>

-----------------------------------------------------------------------------
Active == {k \in Call : stage[k] = "active"}
Parked == {k \in Call : stage[k] = "parked"}
Live   == Active \cup Parked

(* Mutant of Outgoing: find overlooks the parked calls. *)
OutgoingActive(c) == {k \in Active : request[k].cid = c}

(* buf_outgoing_call::find(c) *)
Outgoing(c) == {k \in Live : request[k].cid = c}

(* Mutant of Unqueue: the head of the queue goes, whatever its id. *)
UnqueueHead(q, c) == IF q = <<>> THEN q ELSE Tail(q)

(* proc_send::remove(c): the first entry with that id, if there is one. *)
Unqueue(q, c) ==
    LET hits == {i \in DOMAIN q : q[i].cid = c}
    IN IF hits = {} THEN q ELSE RemoveAt(q, Min(hits))

Queued(q, p) == \E i \in DOMAIN q : q[i] = p

Newest(S) == {n \in S : \A m \in S : m <= n}

(* Mutant of OutgoingCallFinished: no parked call is resumed. *)
NoneResumed(k, q) == stage' = [stage EXCEPT ![k] = "done"] /\ sendq' = q

(* Mutant of OutgoingCallFinished: the packet queued is read from the      *)
(* record that was erased.                                                 *)
ErasedResent(k, q) ==
    \/ /\ Active \ {k} # {} \/ Parked \ {k} = {}
       /\ stage' = [stage EXCEPT ![k] = "done"]
       /\ sendq' = q
    \/ /\ Active \ {k} = {}
       /\ \E n \in Newest(Parked \ {k}) :
             stage' = [stage EXCEPT ![k] = "done", ![n] = "active"]
       /\ sendq' = Append(q, None)

(* outgoing_call_finished, k erased: if no call is active any more, the    *)
(* newest parked one becomes active and its packet is queued.  q is the    *)
(* send queue up to there.                                                 *)
OutgoingCallFinished(k, q) ==
    \/ /\ Active \ {k} # {} \/ Parked \ {k} = {}
       /\ stage' = [stage EXCEPT ![k] = "done"]
       /\ sendq' = q
    \/ /\ Active \ {k} = {}
       /\ \E n \in Newest(Parked \ {k}) :
             /\ stage' = [stage EXCEPT ![k] = "done", ![n] = "active"]
             /\ sendq' = Append(q, request[n])

(* Call k leaves the table with reason r and its callback is queued. *)
Finish(k, r, data, q) ==
    /\ OutgoingCallFinished(k, q)
    /\ request' = [request EXCEPT ![k] = None]
    /\ named' = named \ {k}
    /\ jobs' = Append(jobs, [job |-> "finished", call |-> k, reason |-> r,
                             data |-> data])

-----------------------------------------------------------------------------
(* Callers. *)

(* do_call: the id is used by no call in either table; the call is parked  *)
(* if another one is active, else its packet is queued.                    *)
DoCall(p) ==
    /\ Outgoing(p.cid) = {} /\ inc[p.cid] = None
    /\ \E k \in Call :
          /\ stage[k] = "unborn"
          /\ \A j \in Call : j < k => stage[j] # "unborn"
          /\ request' = [request EXCEPT ![k] = p]
          /\ \/ /\ Active # {}
                /\ stage' = [stage EXCEPT ![k] = "parked"]
                /\ UNCHANGED sendq
             \/ /\ Active = {}
                /\ stage' = [stage EXCEPT ![k] = "active"]
                /\ sendq' = Append(sendq, p)
          /\ named' = IF rpkt # None /\ rpkt.cid = p.cid
                      THEN named \cup {k} ELSE named
    /\ UNCHANGED <<inc, fbq, jobs, pool, recvVars>>

Cancel(k) ==
    /\ k \in Live
    /\ Finish(k, "cancelled", None, Unqueue(sendq, request[k].cid))
    /\ UNCHANGED <<inc, fbq, pool, recvVars>>

-----------------------------------------------------------------------------
(* The expiry thread: parked calls do not expire. *)

(* Mutant of ExpireOutgoing: parked calls expire too. *)
ExpireParked(k) ==
    /\ k \in Live
    /\ Finish(k, "expired", None, Unqueue(sendq, request[k].cid))
    /\ UNCHANGED <<inc, fbq, pool, recvVars>>

ExpireOutgoing(k) ==
    /\ k \in Active
    /\ Finish(k, "expired", None, Unqueue(sendq, request[k].cid))
    /\ UNCHANGED <<inc, fbq, pool, recvVars>>

ExpireIncoming(c) ==
    /\ inc[c] # None
    /\ sendq' = Unqueue(sendq, c)
    /\ inc' = [inc EXCEPT ![c] = None]
    /\ UNCHANGED <<tables, fbq, jobs, pool, recvVars, named>>

-----------------------------------------------------------------------------
(* The receive thread. *)

(* Mutant of RecvAnswer: a nak leaves its packet on the send queue. *)
RecvAnswerNakKept(p) ==
    /\ rpc = "idle"
    /\ p.kind \in {"ack", "nak", "return"}
    /\ sendq' = IF p.kind = "nak" THEN sendq ELSE Unqueue(sendq, p.cid)
    /\ named' = named \cup Outgoing(p.cid)
    /\ rpc' = p.kind
    /\ rpkt' = p
    /\ UNCHANGED <<tables, inc, fbq, jobs, pool>>

(* process(): an ack, a nak or a return first takes its call's packet off  *)
(* the send queue; the tables are looked at under locks taken afterwards.  *)
RecvAnswer(p) ==
    /\ rpc = "idle"
    /\ p.kind \in {"ack", "nak", "return"}
    /\ sendq' = Unqueue(sendq, p.cid)
    /\ named' = named \cup Outgoing(p.cid)
    /\ rpc' = p.kind
    /\ rpkt' = p
    /\ UNCHANGED <<tables, inc, fbq, jobs, pool>>

RecvException(p) ==
    /\ rpc = "idle"
    /\ p.kind = "exception"
    /\ fbq' = Append(fbq, Feedback("ack", p.cid))
    /\ UNCHANGED <<tables, inc, sendq, jobs, pool, recvVars, named>>

(* Mutant of RecvCall: the incoming table is not looked at. *)
RecvCallBlind(p) ==
    /\ rpc = "idle"
    /\ p.kind \in {"call", "unknown"}
    /\ rpc' = "check"
    /\ rpkt' = p
    /\ UNCHANGED <<tables, inc, sendq, fbq, jobs, pool, named>>

(* Mutant of RecvCall: a call that is on the table is a duplicate id. *)
RecvCallNak(p) ==
    /\ rpc = "idle"
    /\ p.kind \in {"call", "unknown"}
    /\ \/ /\ inc[p.cid] # None
          /\ fbq' = Append(fbq, Feedback("nak", p.cid))
          /\ UNCHANGED recvVars
       \/ /\ inc[p.cid] = None
          /\ rpc' = "check"
          /\ rpkt' = p
          /\ UNCHANGED fbq
    /\ UNCHANGED <<tables, inc, sendq, jobs, pool, named>>

(* process_call, first part: a call that is on the incoming table already  *)
(* is acknowledged again if it carries the same argument.                  *)
RecvCall(p) ==
    /\ rpc = "idle"
    /\ p.kind \in {"call", "unknown"}
    /\ \/ /\ inc[p.cid] # None
          /\ fbq' = Append(fbq, Feedback(IF inc[p.cid] = p.data THEN "ack"
                                         ELSE "nak", p.cid))
          /\ UNCHANGED recvVars
       \/ /\ inc[p.cid] = None
          /\ rpc' = "check"
          /\ rpkt' = p
          /\ UNCHANGED fbq
    /\ UNCHANGED <<tables, inc, sendq, jobs, pool, named>>

(* process(): what the receive thread does with the next packet. *)
Receive(p) == RecvAnswer(p) \/ RecvException(p) \/ RecvCall(p)

RecvDone == rpc' = "idle" /\ rpkt' = None

(* Mutant of ProcessReturn: the call that is active is taken for the one   *)
(* the return names.                                                       *)
ReturnToActive ==
    /\ rpc = "return"
    /\ \/ \E k \in Active :
             /\ fbq' = Append(fbq, Feedback("ack", rpkt.cid))
             /\ Finish(k, "success", rpkt.data, sendq)
       \/ /\ Active = {}
          /\ fbq' = Append(fbq, Feedback("nak", rpkt.cid))
          /\ UNCHANGED <<tables, sendq, jobs, named>>
    /\ RecvDone
    /\ UNCHANGED <<inc, pool>>

ProcessReturn ==
    /\ rpc = "return"
    /\ \/ \E k \in Outgoing(rpkt.cid) :
             IF rpkt.data \in Sized
             THEN /\ fbq' = Append(fbq, Feedback("ack", rpkt.cid))
                  /\ Finish(k, "success", rpkt.data, sendq)
             ELSE /\ fbq' = Append(fbq, Feedback("nak", rpkt.cid))
                  /\ Finish(k, "size_mismatch", None, sendq)
       \/ /\ Outgoing(rpkt.cid) = {}
          /\ fbq' = Append(fbq, Feedback("nak", rpkt.cid))
          /\ UNCHANGED <<tables, sendq, jobs, named>>
    /\ RecvDone
    /\ UNCHANGED <<inc, pool>>

(* process_ack: an acknowledged return ends the incoming call; for an      *)
(* outgoing call it only stops the resending, which RecvAnswer has done.   *)
ProcessAck ==
    /\ rpc = "ack"
    /\ inc' = [inc EXCEPT ![rpkt.cid] = None]
    /\ RecvDone
    /\ UNCHANGED <<tables, sendq, fbq, jobs, pool, named>>

(* process_nak, under the incoming lock and then under the outgoing one. *)
ProcessNak ==
    /\ rpc = "nak"
    /\ \/ /\ inc[rpkt.cid] # None
          /\ inc' = [inc EXCEPT ![rpkt.cid] = None]
          /\ RecvDone
       \/ /\ inc[rpkt.cid] = None
          /\ rpc' = "rejected"
          /\ UNCHANGED <<inc, rpkt>>
    /\ UNCHANGED <<tables, sendq, fbq, jobs, pool, named>>

ProcessNakOutgoing ==
    /\ rpc = "rejected"
    /\ \/ \E k \in Outgoing(rpkt.cid) : Finish(k, "rejected", None, sendq)
       \/ Outgoing(rpkt.cid) = {} /\ UNCHANGED <<tables, sendq, jobs, named>>
    /\ RecvDone
    /\ UNCHANGED <<inc, fbq, pool>>

(* process_call, second part: the outgoing table and the command table. *)
ProcessCallCheck ==
    /\ rpc = "check"
    /\ \/ /\ Outgoing(rpkt.cid) # {}
          /\ fbq' = Append(fbq, Feedback("nak", rpkt.cid))
          /\ RecvDone
       \/ /\ Outgoing(rpkt.cid) = {} /\ rpkt.kind = "unknown"
          /\ RecvDone
          /\ UNCHANGED fbq
       \/ /\ Outgoing(rpkt.cid) = {} /\ rpkt.kind = "call"
          /\ rpkt.data \notin Sized
          /\ fbq' = Append(fbq, Feedback("nak", rpkt.cid))
          /\ RecvDone
       \/ /\ Outgoing(rpkt.cid) = {} /\ rpkt.kind = "call"
          /\ rpkt.data \in Sized
          /\ fbq' = Append(fbq, Feedback("ack", rpkt.cid))
          /\ rpc' = "push"
          /\ UNCHANGED rpkt
    /\ UNCHANGED <<tables, inc, sendq, jobs, pool, named>>

(* process_call, third part: the call enters the table and is served. *)
ProcessCallPush ==
    /\ rpc = "push"
    /\ inc' = [inc EXCEPT ![rpkt.cid] = rpkt.data]
    /\ jobs' = Append(jobs, [job |-> "serve", cid |-> rpkt.cid,
                             data |-> rpkt.data])
    /\ named' = named \cup Outgoing(rpkt.cid)
    /\ RecvDone
    /\ UNCHANGED <<tables, sendq, fbq, pool>>

-----------------------------------------------------------------------------
(* The callback pool. *)

(* Mutant of Take: the job is not popped. *)
TakeCopy(w) ==
    /\ running[w] = None
    /\ jobs # <<>>
    /\ running' = [running EXCEPT ![w] = Head(jobs)]
    /\ UNCHANGED <<tables, inc, sendq, fbq, jobs, recvVars, told, named>>

Take(w) ==
    /\ running[w] = None
    /\ jobs # <<>>
    /\ running' = [running EXCEPT ![w] = Head(jobs)]
    /\ jobs' = Tail(jobs)
    /\ UNCHANGED <<tables, inc, sendq, fbq, recvVars, told, named>>

(* The user's callback of a finished outgoing call runs. *)
Report(w) ==
    /\ running[w] # None
    /\ running[w].job = "finished"
    /\ told' = [told EXCEPT ![running[w].call] = @ + 1]
    /\ running' = [running EXCEPT ![w] = None]
    /\ UNCHANGED <<tables, inc, sendq, fbq, jobs, recvVars, named>>

(* The handler of an incoming call computes d and calls respond(d), which  *)
(* queues the return whether or not the call is still on the table.        *)
Respond(w, d) ==
    /\ running[w] # None
    /\ running[w].job = "serve"
    /\ sendq' = Append(sendq, [kind |-> "return", cid |-> running[w].cid,
                               data |-> d])
    /\ running' = [running EXCEPT ![w] = None]
    /\ UNCHANGED <<tables, inc, fbq, jobs, recvVars, told, named>>

-----------------------------------------------------------------------------
(* The send and feedback threads hand packets to the connection.  A sent   *)
(* packet stays in the send queue; a feedback packet does not.             *)

Send(p) ==
    /\ Queued(sendq, p)
    /\ UNCHANGED vars

SendFeedback(p) ==
    /\ fbq # <<>>
    /\ p = Head(fbq)
    /\ fbq' = Tail(fbq)
    /\ UNCHANGED <<tables, inc, sendq, jobs, pool, recvVars, named>>

-----------------------------------------------------------------------------
Init ==
    /\ stage = [k \in Call |-> "unborn"]
    /\ request = [k \in Call |-> None]
    /\ inc = [c \in Cid |-> None]
    /\ sendq = <<>> /\ fbq = <<>> /\ jobs = <<>>
    /\ running = [w \in Worker |-> None]
    /\ rpc = "idle" /\ rpkt = None
    /\ told = [k \in Call |-> 0]
    /\ named = {}

(* The peer's packets are taken while the queues are within the bound. *)
Heard(p) ==
    /\ Len(fbq) < MaxQueue /\ Len(jobs) < MaxQueue
    /\ p.kind \in {"call", "unknown"} => Len(sendq) <= MaxQueue

Expiry   == (\E k \in Call : ExpireOutgoing(k)) \/ (\E c \in Cid : ExpireIncoming(c))
Process  == \/ ProcessReturn \/ ProcessAck \/ ProcessNak \/ ProcessNakOutgoing
            \/ ProcessCallCheck \/ ProcessCallPush
Work(w)  == \/ Take(w) \/ Report(w)
            \/ \E d \in Sized : Respond(w, d)

Next ==
    \/ \E c \in Cid, d \in Sized :
          DoCall([kind |-> "call", cid |-> c, data |-> d])
    \/ \E k \in Call : Cancel(k)
    \/ Expiry
    \/ \E p \in Packet :
          Heard(p) /\ Receive(p)
    \/ Process
    \/ \E w \in Worker : Work(w)
    \/ \E p \in Packet : SendFeedback(p)

Spec == Init /\ [][Next]_vars

-----------------------------------------------------------------------------
(* The tables and queues hold what the code declares. *)
TypeOK ==
    /\ stage \in [Call -> Stage]
    /\ request \in [Call -> Request \cup {None}]
    /\ \A k \in Live : request[k] \in Request
    /\ inc \in [Cid -> Payload \cup {None}]
    /\ sendq \in Seq(Request \cup Return)
    /\ fbq \in Seq(Signal)
    /\ jobs \in Seq(Job)
    /\ running \in [Worker -> Job \cup {None}]
    /\ rpc \in {"idle", "ack", "nak", "return", "rejected", "check", "push"}
    /\ rpkt \in Packet \cup {None}
    /\ (rpc = "idle") <=> (rpkt = None)
    /\ rpc = "return" => rpkt \in Return
    /\ rpc \in {"check", "push"} => rpkt \in Request
    /\ told \in [Call -> Nat]
    /\ named \in SUBSET Call

(* One call at a time is on its way to the peer, and no call stays parked  *)
(* when none is: do_call's parking and outgoing_call_finished keep it so   *)
(* over every way a call can end (return, nak, expiry, cancel).            *)
OneAtATime ==
    /\ \A j, k \in Active : j = k
    /\ Parked # {} => Active # {}

(* An id names one outgoing call: find, remove and the peer's answers      *)
(* cannot hit another one (generate_call_id, under the outgoing lock).     *)
UniqueIds == \A j, k \in Live : request[j].cid = request[k].cid => j = k

JobOf(j, k) == j # None /\ j.job = "finished" /\ j.call = k

(* Where the callback of call k is: in the queue, or with a worker. *)
QueuedAt(k) == {i \in DOMAIN jobs : JobOf(jobs[i], k)}
TakenBy(k)  == {w \in Worker : JobOf(running[w], k)}

(* The callback of a call is due exactly while the call is off the table   *)
(* and has not run: never lost, never queued twice, never run twice,       *)
(* whichever of the four threads that may end the call comes first.        *)
ToldOnce ==
    \A k \in Call :
        /\ told[k] = 0 \/ (told[k] = 1 /\ stage[k] = "done")
        /\ (stage[k] = "done" /\ told[k] = 0)
              <=> (QueuedAt(k) # {} \/ TakenBy(k) # {})
        /\ QueuedAt(k) = {} \/ TakenBy(k) = {}
        /\ \A i, j \in QueuedAt(k) : i = j
        /\ \A v, w \in TakenBy(k) : v = w

(* A call that is active keeps being sent until the peer has named it: a   *)
(* parked call that is resumed is queued, and no removal of another call's *)
(* packet takes it off the queue.                                          *)
Resent ==
    \A k \in Active : k \in named \/ Queued(sendq, request[k])

(* A parked call has not been sent and does not expire: it can end only by *)
(* being cancelled or by an answer to an id the peer was never given.      *)
ParkedEnds ==
    [][\A k \in Call :
          stage[k] = "parked" /\ stage'[k] = "done"
            => Last(jobs').reason = "cancelled" \/ k \in named]_vars

(* What the callers see is a call service: the packets, the tables and the *)
(* threads behind it only decide when and why a call ends.                 *)
Status == [k \in Call |-> CASE stage[k] = "unborn" -> "unmade"
                            [] stage[k] = "parked" -> "waiting"
                            [] stage[k] = "active" -> "underway"
                            [] stage[k] = "done"   -> "ended"]

Callers == INSTANCE CallService WITH status <- Status, reports <- told

ServesCallers == Callers!Spec
=============================================================================
