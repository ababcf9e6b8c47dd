------------------------------- MODULE Stepper -------------------------------
(***************************************************************************)
(* One axis (dev/stepper.cc): its control thread, which drives the motor   *)
(* to the target or to the zero of its limit sensor and reports the end of *)
(* a move, and the pool workers that execute commands on it.               *)
(*                                                                         *)
(* All these threads have one priority and no time slice, so an action is  *)
(* what one of them does up to the next call that blocks: a wait on the    *)
(* condition variable, a lock held by another, a transfer to the motor     *)
(* driver (it sleeps and waits for the UART, whose mutex keeps the order   *)
(* of the calls) or from the limit sensor, a sleep, and finish_callback,   *)
(* which waits for the host.                                               *)
(*                                                                         *)
(* std::condition_variable::wait_until and wait_for return without the     *)
(* mutex where they time out (PxSync).  The control thread is written as   *)
(* if it held lk; it does only after a wait that a command ended.          *)
(*                                                                         *)
(* Abstracted: times are left out (a wait with a deadline may end at any   *)
(* moment); speeds are -1, 0, 1, of which one clamp changes by one at      *)
(* most; positions are in a mechanical range.                              *)
(***************************************************************************)
EXTENDS Integers, PxSync

CONSTANTS
    Axis,       \* the control thread
    Commander,  \* the pool workers with a command for this axis
    Reach,      \* the mechanical range is -Reach .. Reach
    Targets,    \* targets the host sets
    Near,       \* abs(dist) up to which the speed is kept
    Fittings,   \* what axes have: [encoder, limit], whether there is an encoder
                \* (index pulses count otherwise) and a limit sensor
    Zero,       \* where the limit sensor reads zero
    Retries,    \* readings of zero that end the homing (400 in the code)
    MaxCmds,    \* bound: commands given
    Kinds,      \* the commands given, of "target", "home", "hold", "zero" and
                \* "free"; the last two of setFreewheel, with false and true
    Nobody

ASSUME StepperAssumption ==
    /\ Axis \notin Commander /\ Nobody \notin Commander \cup {Axis}
    /\ Reach \in Nat /\ Near \in Nat /\ Retries \in Nat \ {0}
    /\ Zero \in -Reach .. Reach
    /\ Fittings \subseteq [encoder : BOOLEAN, limit : BOOLEAN]
    /\ MaxCmds \in Nat
    /\ Kinds \subseteq {"target", "home", "hold", "zero", "free"}
    /\ Targets \subseteq -Reach .. Reach

Thread == Commander \cup {Axis}

VARIABLES
    fitted,     \* what this axis has; it does not change
    lk, cv,     \* the axis' mutex and condition variable
    pc,         \* pc[t]: where thread t blocks
    cmd,        \* cmd[c]: the command worker c executes, or Nobody
    motor,      \* where the motor is
    origin,     \* the position of the motor that counts as 0
    drive,      \* the speed the driver chip was given last
    enabled,    \* the last of enable() and disable() was enable()
    bus,        \* the threads with a datagram for the chip, in their order
    sending,    \* the speed in that of the control thread
    count,      \* index pulses the control thread has not read
    current_index, \* the position it read last
    target_index, current_speed, homing, pending, departed, homing_retries,
    given,      \* how many commands were given
    asked,      \* history: moves and homings accepted
    reports,    \* history: moves reported to the host
    found       \* history: the target the control thread last found reached

locks == <<lk, cv>>
sensed == <<count, current_index>>
port == <<bus, sending>>
motion == <<motor, origin, drive, enabled, sensed>>
aims == <<target_index, current_speed>>
flags == <<homing, pending, departed, homing_retries>>
work == <<cmd, given>>
history == <<asked, reports, found>>
axisVars == <<fitted, locks, pc, port, motion, aims, flags, work, history>>

HasEncoder == fitted.encoder
HasLimit == fitted.limit

(* getPosition: of the encoder, or what was counted of the index pulses. *)
Position == IF HasEncoder THEN motor - origin ELSE current_index

(* What do_target_approach reads: the index pulses have no sign but that   *)
(* of the speed.                                                           *)
Reading == IF HasEncoder THEN motor - origin
           ELSE current_index + IF current_speed > 0 THEN count ELSE -count

Abs(n) == IF n < 0 THEN -n ELSE n
Sign(n) == IF n < 0 THEN -1 ELSE IF n > 0 THEN 1 ELSE 0

(* One clamp of the speed towards the sign of the distance. *)
Clamp(speed, dist) == speed + Sign(Sign(dist) - speed)

Goes(t, from) == /\ pc[t] = from
                 /\ ~InLine(lk, t) /\ ~Waiting(cv, t)

GoTo(t, to) == pc' = [pc EXCEPT ![t] = to]

(* Thread t calls for a datagram, which for the control thread has the     *)
(* speed at the time of the call; t is AtHead when its transfer may end.   *)
Sends(t, to) == GoTo(t, to) /\ bus' = Append(bus, t)
Drives(to, speed) == Sends(Axis, to) /\ sending' = speed
AtHead(t, from) == Goes(t, from) /\ bus # <<>> /\ Head(bus) = t

(* Mutant of WaitAt: the thread only sleeps, and keeps lk. *)
SleepAt(to) == /\ cv' = CondWait(cv, Axis)
               /\ GoTo(Axis, to)
               /\ UNCHANGED lk

(* The control thread waits on cv and gives lk back, if it has it. *)
WaitAt(to) == /\ lk' = Unlock(lk, Axis, Nobody)
              /\ cv' = CondWait(cv, Axis)
              /\ GoTo(Axis, to)

-----------------------------------------------------------------------------
(* The control thread: process_start. *)

(* The speed do_target_approach goes by.  An encoder measures it, once     *)
(* 5 ms have passed (the waits near the target are of 1 ms): a motor that  *)
(* is slow, or stands at the end of its range, reads as 0.                 *)
Speeds == IF ~HasEncoder THEN {current_speed}
          ELSE IF motor + drive \in -Reach .. Reach THEN {drive, 0} ELSE {0}

(* do_target_approach off the target: far from it the speed is sent each   *)
(* time, near it only if it is 0, before a wait with a deadline.  Without  *)
(* an encoder a new speed is worked out in any case.                       *)
Chase(dist) == \E speed \in Speeds :
    \/ /\ Abs(dist) > Near
       /\ current_speed' = Clamp(speed, dist)
       /\ Drives("move", current_speed') /\ UNCHANGED locks
    \/ /\ Abs(dist) <= Near
       /\ current_speed' = IF HasEncoder /\ speed # 0 THEN speed
                           ELSE Clamp(speed, dist)
       /\ IF (IF HasEncoder THEN speed ELSE current_speed') = 0
          THEN Drives("move", current_speed') /\ UNCHANGED locks
          ELSE WaitAt("wait") /\ UNCHANGED port

(* One turn of the loop.  Homing without a limit sensor is over at once,   *)
(* and homing stays set.                                                   *)
Loop ==
    /\ Goes(Axis, "loop")
    /\ \/ /\ homing /\ HasLimit
          /\ GoTo(Axis, "sense")
          /\ UNCHANGED <<locks, port, sensed, current_speed, found>>
       \/ /\ homing /\ ~HasLimit
          /\ current_speed' = 0 /\ found' = target_index
          /\ Drives("stop", 0) /\ UNCHANGED <<locks, sensed>>
       \/ /\ ~homing
          /\ current_index' = Reading /\ count' = 0
          /\ \/ /\ Reading # target_index
                /\ Chase(target_index - Reading)
                /\ UNCHANGED found
             \/ /\ Reading = target_index
                /\ current_speed' = 0 /\ found' = target_index
                /\ Drives("stop", 0) /\ UNCHANGED locks
    /\ UNCHANGED <<fitted, work, motor, origin, drive, enabled, target_index,
                   flags, asked, reports>>

(* The sensor shows which way its zero is: the counters are cleared, the   *)
(* target is put a little or some way there and approached.                *)
SenseAway ==
    /\ Goes(Axis, "sense") /\ motor # Zero
    /\ origin' = motor
    /\ \E way \in {1, Near + 1} :
          /\ target_index' = way * Sign(Zero - motor)
          /\ Chase(target_index')
    /\ count' = 0 /\ current_index' = 0
    /\ UNCHANGED <<fitted, work, motor, drive, enabled, flags, history>>

ClearCounters == /\ origin' = motor /\ count' = 0 /\ current_index' = 0
                 /\ target_index' = 0 /\ current_speed' = 0

(* It reads zero: _resetPosition, whose moveAtVelocity(0) comes first. *)
SenseZero ==
    /\ Goes(Axis, "sense") /\ motor = Zero
    /\ Drives("reset", 0)
    /\ UNCHANGED <<fitted, locks, work, motion, aims, flags, history>>

(* The motor was stopped: the counters are cleared and readings counted.   *)
SenseReset ==
    /\ AtHead(Axis, "reset")
    /\ drive' = sending /\ ClearCounters
    /\ homing_retries' = homing_retries + 1
    /\ \/ /\ homing_retries + 1 >= Retries
          /\ homing' = FALSE /\ found' = 0
          /\ GoTo(Axis, "stop")
          /\ bus' = Append(Tail(bus), Axis)
       \/ /\ homing_retries + 1 < Retries
          /\ GoTo(Axis, "nap") /\ bus' = Tail(bus)
          /\ UNCHANGED <<homing, found>>
    /\ UNCHANGED <<fitted, locks, sending, work, motor, enabled, pending, departed, asked, reports>>

Nap ==
    /\ Goes(Axis, "nap")
    /\ GoTo(Axis, "loop")
    /\ UNCHANGED <<fitted, locks, port, work, motion, aims, flags, history>>

(* Mutant of Move: the driver gets the speed with the wrong sign. *)
MoveBackwards ==
    /\ AtHead(Axis, "move")
    /\ drive' = -sending /\ bus' = Tail(bus)
    /\ WaitAt("wait")
    /\ UNCHANGED <<fitted, sending, work, motor, origin, enabled, sensed, aims,
                   flags, history>>

(* The driver got the speed; wait_until follows. *)
Move ==
    /\ AtHead(Axis, "move")
    /\ drive' = sending /\ bus' = Tail(bus)
    /\ WaitAt("wait")
    /\ UNCHANGED <<fitted, sending, work, motor, origin, enabled, sensed, aims,
                   flags, history>>

(* Mutant of Arrive: the move stays pending after its report. *)
ArriveStillPending ==
    /\ AtHead(Axis, "stop")
    /\ drive' = sending /\ bus' = Tail(bus)
    /\ \/ /\ pending /\ departed
          /\ departed' = FALSE /\ reports' = reports + 1
          /\ GoTo(Axis, "report") /\ UNCHANGED <<locks, pending>>
       \/ /\ ~(pending /\ departed)
          /\ WaitAt("idle") /\ UNCHANGED <<pending, departed, reports>>
    /\ UNCHANGED <<fitted, sending, work, motor, origin, enabled, sensed, aims,
                   homing, homing_retries, asked, found>>

(* The motor was stopped; a move that is pending and departed is reported, *)
(* else the thread waits for 20 ms.                                        *)
Arrive ==
    /\ AtHead(Axis, "stop")
    /\ drive' = sending /\ bus' = Tail(bus)
    /\ \/ /\ pending /\ departed
          /\ departed' = FALSE /\ pending' = FALSE /\ reports' = reports + 1
          /\ GoTo(Axis, "report") /\ UNCHANGED locks
       \/ /\ ~(pending /\ departed)
          /\ WaitAt("idle") /\ UNCHANGED <<pending, departed, reports>>
    /\ UNCHANGED <<fitted, sending, work, motor, origin, enabled, sensed, aims,
                   homing, homing_retries, asked, found>>

(* finish_callback returned: the host was told, or the call expired. *)
Reported ==
    /\ Goes(Axis, "report")
    /\ WaitAt("idle")
    /\ UNCHANGED <<fitted, port, work, motion, aims, flags, history>>

(* Mutant of Depart: a move is not marked as departed. *)
NeverDepart == UNCHANGED departed

(* After the wait: a move that is pending departs. *)
Depart == departed' = (departed \/ pending)

(* The deadline of a wait passed; lk is not locked again. *)
TimedOut ==
    /\ Waiting(cv, Axis)
    /\ cv' = TimeOut(cv, Axis)
    /\ GoTo(Axis, "loop")
    /\ \/ pc[Axis] = "wait" /\ UNCHANGED departed
       \/ pc[Axis] = "idle" /\ Depart
    /\ UNCHANGED <<fitted, lk, port, work, motion, aims, homing, pending,
                   homing_retries, history>>

(* A command ended the wait; lk is locked before it returns. *)
Woken ==
    /\ \/ Goes(Axis, "wait") /\ GoTo(Axis, "woken")
       \/ Goes(Axis, "idle") /\ GoTo(Axis, "depart")
    /\ lk' = Lock(lk, Axis, Nobody)
    /\ UNCHANGED <<fitted, cv, port, work, motion, aims, flags, history>>

Relocked ==
    /\ \/ Goes(Axis, "woken") /\ UNCHANGED departed
       \/ Goes(Axis, "depart") /\ Depart
    /\ GoTo(Axis, "loop")
    /\ UNCHANGED <<fitted, locks, port, work, motion, aims, homing, pending,
                   homing_retries, history>>

-----------------------------------------------------------------------------
(* The commands. *)

Command(c) ==
    /\ pc[c] = "free" /\ given < MaxCmds
    /\ \E k \in Kinds \ {"free"}, v \in Targets : cmd' = [cmd EXCEPT ![c] = <<k, v>>]
    /\ given' = given + 1
    /\ lk' = Lock(lk, c, Nobody)
    /\ GoTo(c, "locked")
    /\ UNCHANGED <<fitted, cv, port, motion, aims, flags, history>>

Holds(c, kind) == Goes(c, "locked") /\ cmd[c][1] = kind

Done(c) ==
    /\ lk' = Unlock(lk, c, Nobody)
    /\ cmd' = [cmd EXCEPT ![c] = Nobody]
    /\ GoTo(c, "free")

SetTargetIndex(c) ==
    /\ Holds(c, "target")
    /\ \/ homing /\ UNCHANGED <<target_index, pending, asked, cv>>
       \/ /\ ~homing
          /\ target_index' = cmd[c][2]
          /\ pending' = TRUE
          /\ asked' = asked + 1
          /\ cv' = Broadcast(cv)
    /\ Done(c)
    /\ UNCHANGED <<fitted, port, motion, current_speed, homing, departed, homing_retries,
                   given, reports, found>>

Home(c) ==
    /\ Holds(c, "home")
    /\ homing' = TRUE /\ homing_retries' = 0 /\ pending' = TRUE
    /\ asked' = asked + 1
    /\ cv' = Broadcast(cv)
    /\ Done(c)
    /\ UNCHANGED <<fitted, port, motion, aims, departed, given, reports, found>>

(* setFreewheel(false), up to moveAtVelocity(0). *)
SetFreewheel(c) ==
    /\ Holds(c, "hold")
    /\ target_index' = Position /\ current_speed' = 0
    /\ Sends(c, "halt")
    /\ UNCHANGED <<fitted, locks, sending, work, motion, flags, history>>

ResetPosition(c) ==
    /\ Holds(c, "zero")
    /\ Sends(c, "halt")
    /\ UNCHANGED <<fitted, locks, sending, work, motion, aims, flags, history>>

(* moveAtVelocity(0) is over: setFreewheel(false) goes on with enable(),   *)
(* which sets the pin and sends the chip's setting, ...                    *)
Halted(c) ==
    /\ AtHead(c, "halt") /\ cmd[c][1] = "hold"
    /\ drive' = 0 /\ enabled' = TRUE
    /\ bus' = Append(Tail(bus), c) /\ GoTo(c, "enable")
    /\ UNCHANGED <<fitted, locks, sending, work, motor, origin, sensed, aims,
                   flags, history>>

Enabled(c) ==
    /\ AtHead(c, "enable")
    /\ bus' = Tail(bus)
    /\ Done(c)
    /\ UNCHANGED <<fitted, cv, sending, motion, aims, flags, given, history>>

(* ... and _resetPosition with clearing the counters.                      *)
Zeroed(c) ==
    /\ AtHead(c, "halt") /\ cmd[c][1] = "zero"
    /\ drive' = 0 /\ ClearCounters
    /\ bus' = Tail(bus)
    /\ Done(c)
    /\ UNCHANGED <<fitted, cv, sending, motor, enabled, flags, given, history>>

(* setFreewheel(true) is disable(), without lk: the pin switches the       *)
(* driver off at once, whatever the control thread is at, and the chip's   *)
(* setting follows.                                                        *)
Release(c) ==
    /\ pc[c] = "free" /\ given < MaxCmds /\ "free" \in Kinds
    /\ given' = given + 1
    /\ enabled' = FALSE
    /\ Sends(c, "release")
    /\ UNCHANGED <<fitted, locks, sending, cmd, motor, origin, drive, sensed, aims,
                   flags, history>>

Released(c) ==
    /\ AtHead(c, "release")
    /\ bus' = Tail(bus)
    /\ GoTo(c, "free")
    /\ UNCHANGED <<fitted, locks, sending, work, motion, aims, flags, history>>

-----------------------------------------------------------------------------
(* The motor turns while it is driven and the driver is on, within the     *)
(* mechanical range.  Nothing keeps one with an encoder from passing the   *)
(* target between two looks of the control thread (every 10 ms while it is *)
(* far, every millisecond near).  Without an encoder an index pulse is     *)
(* read before the next.                                                   *)
Turn ==
    /\ enabled /\ drive # 0
    /\ motor + drive \in -Reach .. Reach
    /\ HasEncoder \/ count = 0
    /\ motor' = motor + drive
    /\ count' = IF HasEncoder THEN count ELSE count + 1
    /\ UNCHANGED <<fitted, locks, pc, port, work, origin, drive, enabled,
                   current_index, aims, flags, history>>

AxisInit ==
    /\ fitted \in Fittings
    /\ lk = [owner |-> Axis, waits |-> <<>>] /\ cv = <<>>
    /\ pc = [t \in Thread |-> IF t = Axis THEN "loop" ELSE "free"]
    /\ cmd = [c \in Commander |-> Nobody]
    /\ bus = <<>> /\ sending = 0
    /\ motor = 0 /\ origin = 0 /\ drive = 0 /\ enabled = TRUE
    /\ count = 0 /\ current_index = 0
    /\ target_index = 0 /\ current_speed = 0
    /\ homing = FALSE /\ pending = FALSE /\ departed = FALSE
    /\ homing_retries = 0
    /\ given = 0 /\ asked = 0 /\ reports = 0 /\ found = 0

(* What the control thread does by itself, all but the end of a report.    *)
Runs == \/ Loop \/ SenseAway \/ SenseZero \/ SenseReset \/ Nap
        \/ Move \/ Arrive \/ TimedOut \/ Woken \/ Relocked

Controls == Runs \/ Reported

Obeys(c) == SetTargetIndex(c) \/ Home(c) \/ SetFreewheel(c) \/ ResetPosition(c)
            \/ Halted(c) \/ Enabled(c) \/ Zeroed(c) \/ Released(c)

AxisNext == Controls \/ Turn
            \/ \E c \in Commander : Command(c) \/ Release(c) \/ Obeys(c)

AxisSpec == AxisInit /\ [][AxisNext]_axisVars

(* The threads run, waits with a deadline end and the motor turns.  That a *)
(* report ends is not assumed: it takes a worker of the pool, and those    *)
(* may all wait for lk (CallbackPool).                                     *)
Fairness == /\ WF_axisVars(Runs) /\ WF_axisVars(Turn)
            /\ \A c \in Commander : WF_axisVars(Obeys(c))

FairAxisSpec == AxisSpec /\ Fairness

-----------------------------------------------------------------------------
AxisTypeOK ==
    /\ fitted \in Fittings
    /\ lk \in Mutexes(Thread, Nobody)
    /\ cv \in Seq({Axis})
    /\ pc \in [Thread -> {"loop", "sense", "reset", "nap", "move", "wait",
                          "stop", "report", "idle", "woken", "depart",
                          "free", "locked", "halt", "enable", "release"}]
    /\ motor \in -Reach .. Reach /\ origin \in -Reach .. Reach
    /\ bus \in Seq(Thread) /\ enabled \in BOOLEAN
    /\ drive \in -1 .. 1 /\ sending \in -1 .. 1 /\ current_speed \in -1 .. 1
    /\ count \in 0 .. 1 /\ current_index \in Int
    /\ target_index \in Int /\ found \in Int
    /\ homing \in BOOLEAN /\ pending \in BOOLEAN /\ departed \in BOOLEAN
    /\ homing_retries \in 0 .. Retries
    /\ reports \in Nat /\ asked \in 0 .. MaxCmds

(* No command is reported twice: finish_callback runs at most once for     *)
(* each setTargetIndex or home that was accepted, whatever the order of    *)
(* the commands, the waits that end without lk and the end of the move.    *)
ReportOnce == reports <= asked

(* A move is reported at a position: what the control thread last found    *)
(* reached is still the target when it calls finish_callback, as the log   *)
(* there ("Arrived at position") says.  A command that comes while the     *)
(* motor is being stopped breaks it: after a wait that timed out lk is     *)
(* free, and departed still belongs to the move before.                    *)
Arrived == [][reports' # reports => found = target_index]_axisVars

(* A target the mechanics let the motor come to. *)
Reachable(v) == origin + v \in -Reach .. Reach

(* The report goes on, and the control thread keeps lk meanwhile. *)
Keeps == pc[Axis] = "report" /\ lk.owner = Axis

(* A motor with an encoder leaves the target before it is being stopped.   *)
Passes == /\ HasEncoder /\ Position = target_index /\ motor' # motor
          /\ pc[Axis] \notin {"stop", "reset"}

(* Every move that was accepted ends: pending is cleared at last, on an    *)
(* axis with an encoder, while the driver is on, unless a homing goes on.  *)
(* It takes that no report lasts for ever, and that the motor does not     *)
(* pass its target again and again between the looks of the control        *)
(* thread, which only times would exclude.  (An axis that counts           *)
(* index pulses and is told to move by one from standstill never starts:   *)
(* the clamp works on its own speed, and the wait near the target comes    *)
(* before any is sent; a homing may swing about the zero for ever.)        *)
Ends ==
    []<>(pc[Axis] # "report") /\ <>[][~Passes]_axisVars
        => (HasEncoder /\ pending
              ~> ~pending \/ homing \/ ~enabled \/ ~Reachable(target_index))

(* A motor with an encoder comes to the target it was given, even if it    *)
(* does not stay, unless another command moves the target, starts a        *)
(* homing, clears the counters or switches the driver off, or a report     *)
(* lasts for ever.                                                         *)
Comes ==
    []<>(pc[Axis] # "report")
        => \A v \in Targets :
              HasEncoder /\ target_index = v
                ~> \/ Position = v \/ target_index # v
                   \/ homing \/ ~enabled \/ ~Reachable(v)

(* No command is kept waiting for lk by the control thread for ever, but   *)
(* by a report that never ends: its waits give lk back, and after those    *)
(* that time out it does not have it.                                      *)
Served == <>[]Keeps
          \/ \A c \in Commander : pc[c] = "locked" ~> pc[c] = "free"
=============================================================================
