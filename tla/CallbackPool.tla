---------------------------- MODULE CallbackPool ----------------------------
(***************************************************************************)
(* The callback pool (earpc/process/callback.h) over schedulable threads   *)
(* (sched/process.cc, sched/relay.hh): the receive thread queues jobs, a   *)
(* few workers run them.  With it, what one axis makes of it: its commands *)
(* run in workers and lock the axis, and the report of a move             *)
(* (WML::stepper_finish_callback), which may hold the axis' lock, ends     *)
(* when a worker has run the callback of its call.                         *)
(*                                                                         *)
(* Threads of one priority, no time slice: what a thread does between two  *)
(* calls that may block is one action.  A worker that finds the buffer     *)
(* empty suspends in the same action.  Its relay counts it as suspended    *)
(* (sc) until it runs again, notified (en) or not.                         *)
(*                                                                         *)
(* Abstracted: a job is "quick" (it runs without blocking), "command" (it  *)
(* locks the axis) or "finish" (the callback of the report).  The limit of *)
(* workers is what init starts, so notify never starts another.            *)
(***************************************************************************)
EXTENDS Integers, Sequences, SequencesExt, FiniteSetsExt

CONSTANTS
    Workers,      \* how many workers init starts (4)
    Outstanding,  \* commands of the axis the host has open at once
    MaxBuffer     \* bound: jobs in the buffer

ASSUME PoolAssumption == /\ Workers \in Nat \ {0} /\ MaxBuffer \in Nat \ {0}
                         /\ Outstanding \in Nat

Worker == 1 .. Workers

VARIABLES
    buffer,     \* the jobs nobody has taken
    state,      \* state[w]: "running", "suspended" or "blocked" on the axis' lock
    en,         \* en[w]: its relay was notified
    axis,       \* the control thread: "moving", "reporting", or "told"
    line,       \* workers that wait for the axis' lock, first come first
    open        \* commands of the axis that are queued or running

vars == <<buffer, state, en, axis, line, open>>

Suspended == {w \in Worker : state[w] = "suspended"}

(* The first of the list that is suspended is notified, one that was       *)
(* notified before and has not run since included.                         *)
Notified ==
    [w \in Worker |-> en[w] \/ (Suspended # {} /\ w = Min(Suspended))]

(* callback::notify. *)
Notify(job) ==
    /\ Len(buffer) < MaxBuffer
    /\ buffer' = Append(buffer, job)
    /\ en' = Notified

(* The host makes a call, or a call ends. *)
QuickJob ==
    /\ Notify("quick")
    /\ UNCHANGED <<state, axis, line, open>>

CommandJob ==
    /\ open < Outstanding
    /\ Notify("command")
    /\ open' = open + 1
    /\ UNCHANGED <<state, axis, line>>

(* The host answers the report, or its call expires. *)
FinishJob ==
    /\ axis = "reporting"
    /\ Notify("finish")
    /\ axis' = "told"
    /\ UNCHANGED <<state, line, open>>

(* The axis arrives with its lock held and reports. *)
Reports ==
    /\ axis = "moving"
    /\ axis' = "reporting"
    /\ UNCHANGED <<buffer, state, en, line, open>>

-----------------------------------------------------------------------------
(* callback_process::exec, with the job it runs up to where it blocks. *)

Suspend(w) ==
    /\ state[w] = "running" /\ buffer = <<>>
    /\ state' = [state EXCEPT ![w] = "suspended"]
    /\ UNCHANGED <<buffer, en, axis, line, open>>

Resume(w) ==
    /\ state[w] = "suspended" /\ en[w]
    /\ state' = [state EXCEPT ![w] = "running"]
    /\ en' = [en EXCEPT ![w] = FALSE]
    /\ UNCHANGED <<buffer, axis, line, open>>

(* Mutant of RunQuick: a worker suspends after each job. *)
RunQuickOnce(w) ==
    /\ state[w] = "running" /\ buffer # <<>> /\ Head(buffer) = "quick"
    /\ buffer' = Tail(buffer)
    /\ state' = [state EXCEPT ![w] = "suspended"]
    /\ UNCHANGED <<en, axis, line, open>>

RunQuick(w) ==
    /\ state[w] = "running" /\ buffer # <<>> /\ Head(buffer) = "quick"
    /\ buffer' = Tail(buffer)
    /\ UNCHANGED <<state, en, axis, line, open>>

(* A command gets the axis' lock and is done, or waits for it. *)
RunCommand(w) ==
    /\ state[w] = "running" /\ buffer # <<>> /\ Head(buffer) = "command"
    /\ buffer' = Tail(buffer)
    /\ \/ /\ axis = "moving"
          /\ open' = open - 1
          /\ UNCHANGED <<state, line>>
       \/ /\ axis # "moving"
          /\ state' = [state EXCEPT ![w] = "blocked"]
          /\ line' = Append(line, w)
          /\ UNCHANGED open
    /\ UNCHANGED <<en, axis>>

(* Mutant of RunFinish: the callback ends the call, but not the wait. *)
RunFinishQuiet(w) ==
    /\ state[w] = "running" /\ buffer # <<>> /\ Head(buffer) = "finish"
    /\ buffer' = Tail(buffer)
    /\ UNCHANGED <<state, en, axis, line, open>>

(* The callback ends the wait of the axis, which then waits on its own     *)
(* condition variable and gives the lock back: the commands in line run.   *)
RunFinish(w) ==
    /\ state[w] = "running" /\ buffer # <<>> /\ Head(buffer) = "finish"
    /\ buffer' = Tail(buffer)
    /\ axis' = "moving"
    /\ state' = [v \in Worker |-> IF Contains(line, v) THEN "running" ELSE state[v]]
    /\ open' = open - Len(line)
    /\ line' = <<>>
    /\ UNCHANGED en

Works(w) == Suspend(w) \/ Resume(w) \/ RunQuick(w) \/ RunCommand(w) \/ RunFinish(w)

Init ==
    /\ buffer = <<>>
    /\ state = [w \in Worker |-> "running"]
    /\ en = [w \in Worker |-> FALSE]
    /\ axis = "moving" /\ line = <<>> /\ open = 0

Next == \/ QuickJob \/ CommandJob \/ FinishJob \/ Reports
        \/ \E w \in Worker : Works(w)

Spec == Init /\ [][Next]_vars

(* The workers run.  Nothing is assumed of the host, nor that a report is  *)
(* answered or expires.                                                    *)
FairSpec == Spec /\ \A w \in Worker : WF_vars(Works(w))

-----------------------------------------------------------------------------
TypeOK ==
    /\ buffer \in Seq({"quick", "command", "finish"}) /\ Len(buffer) <= MaxBuffer
    /\ state \in [Worker -> {"running", "suspended", "blocked"}]
    /\ en \in [Worker -> BOOLEAN]
    /\ axis \in {"moving", "reporting", "told"}
    /\ line \in Seq(Worker) /\ open \in 0 .. Outstanding

(* No lost wakeup: while a job waits and no worker is blocked, a worker    *)
(* runs or was notified.  (A suspended worker that was notified counts as  *)
(* suspended until it runs, so two jobs queued in a row go to one worker;  *)
(* it must not suspend before it has seen the buffer empty.)               *)
Awake == (buffer # <<>> /\ line = <<>>)
            => \E w \in Worker : state[w] = "running" \/ en[w]

Blocked == {w \in Worker : state[w] = "blocked"}

(* No worker runs or is about to: some wait for the axis' lock, the others *)
(* sleep and were not notified.                                            *)
Stuck == line # <<>> /\ \A w \in Worker :
            w \in Blocked \/ (w \in Suspended /\ ~en[w])

(* Once the host has answered it, the report of an axis ends, its callback *)
(* run and the commands in line with it, unless the commands that wait for *)
(* the lock which the report holds have caught the callback: they have all *)
(* the workers, or that one which was notified of the callback, with what  *)
(* was queued before it, and the next notify would wake another.  If jobs  *)
(* keep coming only the first is left.                                     *)
Told ==
    /\ axis = "told" ~> axis = "moving" \/ Stuck
    /\ []<><<QuickJob>>_vars =>
            (axis = "told" ~> axis = "moving" \/ Blocked = Worker)
=============================================================================
