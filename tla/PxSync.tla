------------------------------- MODULE PxSync -------------------------------
(***************************************************************************)
(* Mutexes and condition variables of the POSIX layer of ThreadX, which is *)
(* what std::mutex and std::condition_variable are made of here.           *)
(*                                                                         *)
(* A mutex is [owner, waits]: a thread that locks it becomes the owner, or *)
(* waits in line; unlocking hands it to the first in line, and by a thread *)
(* that is not the owner is refused and changes nothing.  (Locking what    *)
(* one owns is refused as well; std::mutex::lock then throws.  Nobody does *)
(* in the modules that use this one.)                                      *)
(*                                                                         *)
(* A condition variable is the sequence of the threads that wait on it; a  *)
(* notify that finds no waiter leaves nothing behind.  A wait unlocks the  *)
(* mutex and joins the line in one step (the preemption threshold is       *)
(* raised).  A thread that was notified locks the mutex before its wait    *)
(* returns; a thread whose wait timed out does NOT: pthread_cond_timedwait *)
(* returns ETIMEDOUT before it reaches the call of pthread_mutex_lock.     *)
(***************************************************************************)
EXTENDS Naturals, Sequences, SequencesExt

NewMutex(none) == [owner |-> none, waits |-> <<>>]

Lock(m, t, none) ==
    IF m.owner = none THEN [m EXCEPT !.owner = t]
    ELSE IF m.owner = t THEN m
    ELSE [m EXCEPT !.waits = Append(@, t)]

Unlock(m, t, none) ==
    IF m.owner # t THEN m
    ELSE IF m.waits = <<>> THEN [m EXCEPT !.owner = none]
    ELSE [owner |-> Head(m.waits), waits |-> Tail(m.waits)]

InLine(m, t) == \E i \in DOMAIN m.waits : m.waits[i] = t

Waiting(c, t) == \E i \in DOMAIN c : c[i] = t

CondWait(c, t) == Append(c, t)

Signal(c) == IF c = <<>> THEN c ELSE Tail(c)

Broadcast(c) == <<>>

TimeOut(c, t) == SelectSeq(c, LAMBDA u : u # t)

Mutexes(Thread, none) == [owner : Thread \cup {none}, waits : Seq(Thread)]
=============================================================================
