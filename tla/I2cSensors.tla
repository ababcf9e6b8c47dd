----------------------------- MODULE I2cSensors -----------------------------
(***************************************************************************)
(* The sensors behind the multiplexer of an I2C bus (PCA9546, A31301,      *)
(* VNCL4040): the limit sensors have the same address on lines of their    *)
(* own, and the proximity sensor has to be set up before it is read.  The  *)
(* control threads of the axes and the pool's workers read them.           *)
(*                                                                         *)
(* An action is one transfer of the bus driver (I2cMaster shows that one   *)
(* which reports success has taken place).  A transfer may fail at any     *)
(* time; whoever it was for may have taken it or not.  The multiplexer     *)
(* keeps what it was told last, also while the processor restarts, and     *)
(* the flag of PCA9546 that it was cleared is not set by its constructor.  *)
(* The proximity sensor loses its setup only where a transfer to it fails. *)
(***************************************************************************)
EXTENDS Integers, PxSync

CONSTANTS
    Thread,
    None,
    Line,       \* of the multiplexer
    Proximity,  \* the line of the proximity sensor
    Setup       \* transfers that set it up (3)

VARIABLES
    selected,    \* the lines the multiplexer connects
    lk, initialized,             \* of the PCA9546
    proximity_lk, proximity_set, \* lk and initialized of the VNCL4040
    configured,  \* how much of its setup the sensor has taken
    pc,          \* pc[t]: the transfer thread t makes next, or what it waits for
    line,        \* line[t]: of the sensor it reads
    step,        \* step[t]: the part of the setup it writes, 0 for the reading
    result       \* result[t]: of its transfer to the sensor

mux == <<selected, lk, initialized>>
sensor == <<proximity_lk, proximity_set, configured>>
vars == <<mux, sensor, pc, line, step, result>>

Goto(t, at) == pc' = [pc EXCEPT ![t] = at]

-----------------------------------------------------------------------------
(* A31301::read, which goes to the multiplexer, and VNCL4040::read, which  *)
(* takes the lock of the sensor first.                                     *)

Read(t, l) ==
    /\ pc[t] = "idle"
    /\ line' = [line EXCEPT ![t] = l] /\ step' = [step EXCEPT ![t] = 0]
    /\ IF l = Proximity
       THEN proximity_lk' = Lock(proximity_lk, t, None) /\ Goto(t, "sensor")
                                                        /\ UNCHANGED lk
       ELSE lk' = Lock(lk, t, None) /\ Goto(t, "mux") /\ UNCHANGED proximity_lk
    /\ UNCHANGED <<selected, initialized, proximity_set, configured, result>>

ReadProximity(t) ==
    /\ pc[t] = "sensor" /\ proximity_lk.owner = t
    /\ step' = [step EXCEPT ![t] = IF proximity_set THEN 0 ELSE 1]
    /\ lk' = Lock(lk, t, None)
    /\ Goto(t, "mux")
    /\ UNCHANGED <<selected, initialized, sensor, line, result>>

-----------------------------------------------------------------------------
(* PCA9546::_operate: it clears the selection if it is not sure of it,     *)
(* selects the line, makes the transfer, clears the selection and returns  *)
(* the result of the transfer.                                             *)

Has(t, at) == pc[t] = at /\ lk.owner = t

(* Mutant of Return: a reading that failed leaves the sensor set up. *)
ReturnKept(t, rv) ==
    LET free == Unlock(lk, t, None) IN
    \/ /\ line[t] # Proximity
       /\ lk' = free /\ Goto(t, "idle")
       /\ UNCHANGED <<proximity_lk, proximity_set, step>>
    \/ /\ line[t] = Proximity /\ rv /\ step[t] > 0
       /\ lk' = Lock(free, t, None) /\ Goto(t, "mux")
       /\ step' = [step EXCEPT ![t] = (@ + 1) % (Setup + 1)]
       /\ proximity_set' = (step[t] = Setup)
       /\ UNCHANGED proximity_lk
    \/ /\ line[t] = Proximity /\ (~rv \/ step[t] = 0)
       /\ lk' = free /\ Goto(t, "idle")
       /\ proximity_lk' = Unlock(proximity_lk, t, None)
       /\ UNCHANGED <<proximity_set, step>>

(* What a return is followed by: the rest of the setup, the reading, or    *)
(* the end.  (LimitSensor::raw does not look at the result.)               *)
Return(t, rv) ==
    LET free == Unlock(lk, t, None) IN
    \/ /\ line[t] # Proximity
       /\ lk' = free /\ Goto(t, "idle")
       /\ UNCHANGED <<proximity_lk, proximity_set, step>>
    \/ /\ line[t] = Proximity /\ rv /\ step[t] > 0
       /\ lk' = Lock(free, t, None) /\ Goto(t, "mux")
       /\ step' = [step EXCEPT ![t] = (@ + 1) % (Setup + 1)]
       /\ proximity_set' = (step[t] = Setup)
       /\ UNCHANGED proximity_lk
    \/ /\ line[t] = Proximity /\ (~rv \/ step[t] = 0)
       /\ lk' = free /\ Goto(t, "idle")
       /\ proximity_lk' = Unlock(proximity_lk, t, None)
       /\ proximity_set' = rv
       /\ UNCHANGED step

InitDone(t) ==
    /\ Has(t, "mux") /\ initialized
    /\ Goto(t, "select")
    /\ UNCHANGED <<mux, sensor, line, step, result>>

Clear(t) ==
    /\ Has(t, "mux") /\ ~initialized
    /\ selected' = {} /\ initialized' = TRUE
    /\ Goto(t, "select")
    /\ UNCHANGED <<lk, sensor, line, step, result>>

ClearFails(t) ==
    /\ Has(t, "mux") /\ ~initialized
    /\ selected' \in {selected, {}}
    /\ Return(t, FALSE)
    /\ UNCHANGED <<initialized, configured, line, result>>

(* Mutant of Select: the line is added to those that are selected. *)
SelectMore(t) ==
    /\ Has(t, "select")
    /\ selected' = selected \cup {line[t]}
    /\ Goto(t, "transfer")
    /\ UNCHANGED <<lk, initialized, sensor, line, step, result>>

Select(t) ==
    /\ Has(t, "select")
    /\ selected' = {line[t]}
    /\ Goto(t, "transfer")
    /\ UNCHANGED <<lk, initialized, sensor, line, step, result>>

SelectFails(t) ==
    /\ Has(t, "select")
    /\ selected' \in {selected, {line[t]}}
    /\ initialized' = FALSE
    /\ Return(t, FALSE)
    /\ UNCHANGED <<configured, line, result>>

Transfer(t) ==
    /\ Has(t, "transfer")
    /\ configured' = IF step[t] > 0 THEN step[t] ELSE configured
    /\ result' = [result EXCEPT ![t] = TRUE]
    /\ Goto(t, "deselect")
    /\ UNCHANGED <<mux, proximity_lk, proximity_set, line, step>>

TransferFails(t) ==
    /\ Has(t, "transfer")
    /\ IF line[t] = Proximity THEN configured' \in {configured, step[t], 0}
                              ELSE UNCHANGED configured
    /\ result' = [result EXCEPT ![t] = FALSE]
    /\ Goto(t, "deselect")
    /\ UNCHANGED <<mux, proximity_lk, proximity_set, line, step>>

Deselect(t) ==
    /\ Has(t, "deselect")
    /\ selected' = {}
    /\ Return(t, result[t])
    /\ UNCHANGED <<initialized, configured, line, result>>

DeselectFails(t) ==
    /\ Has(t, "deselect")
    /\ selected' \in {selected, {}}
    /\ initialized' = FALSE
    /\ Return(t, result[t])
    /\ UNCHANGED <<configured, line, result>>

-----------------------------------------------------------------------------
(* After a restart of the processor and the constructors, which try to     *)
(* clear the multiplexer and to set up the sensor.                         *)
Init ==
    /\ selected \in SUBSET Line /\ initialized \in BOOLEAN
    /\ lk = NewMutex(None) /\ proximity_lk = NewMutex(None)
    /\ proximity_set \in BOOLEAN /\ configured \in 0 .. Setup
    /\ proximity_set => configured = Setup
    /\ pc = [t \in Thread |-> "idle"]
    /\ line = [t \in Thread |-> Proximity] /\ step = [t \in Thread |-> 0]
    /\ result = [t \in Thread |-> FALSE]

Continue(t) ==
    \/ ReadProximity(t) \/ InitDone(t) \/ Clear(t) \/ ClearFails(t)
    \/ Select(t) \/ SelectFails(t) \/ Transfer(t) \/ TransferFails(t)
    \/ Deselect(t) \/ DeselectFails(t)

Next == \E t \in Thread : Continue(t) \/ \E l \in Line : Read(t, l)

Spec == Init /\ [][Next]_vars

-----------------------------------------------------------------------------
TypeOK ==
    /\ selected \subseteq Line /\ initialized \in BOOLEAN
    /\ lk \in Mutexes(Thread, None) /\ proximity_lk \in Mutexes(Thread, None)
    /\ proximity_set \in BOOLEAN /\ configured \in 0 .. Setup
    /\ pc \in [Thread -> {"idle", "sensor", "mux", "select", "transfer",
                          "deselect"}]
    /\ line \in [Thread -> Line] /\ step \in [Thread -> 0 .. Setup]
    /\ result \in [Thread -> BOOLEAN]

(* A transfer reaches the sensor it is for and no other that has the same  *)
(* address, although a line may be left selected by a transfer that failed *)
(* or by the program that ran before; and the proximity sensor is read     *)
(* only when it has taken its whole setup, whichever transfer failed.      *)
Addressed ==
    \A t \in Thread :
        pc[t] = "transfer" =>
            /\ selected = {line[t]}
            /\ line[t] = Proximity /\ step[t] = 0 => configured = Setup
=============================================================================
