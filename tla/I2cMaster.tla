------------------------------ MODULE I2cMaster ------------------------------
(***************************************************************************)
(* A master I2C driver (plib_i2c1_master.c; I2C2 is a copy): I2C1_Read,    *)
(* I2C1_Write and I2C1_WriteRead set up a transfer and wait; the master    *)
(* interrupt at the end of each thing on the bus takes it one step on, the *)
(* bus interrupt ends it when another has driven the lines (a collision).  *)
(*                                                                         *)
(* A thread does not run while an interrupt is outstanding; both have one  *)
(* priority.  A device may refuse its address or any byte.  What becomes   *)
(* of the start bit of the status register after a collision is up to the  *)
(* peripheral.                                                             *)
(*                                                                         *)
(* Abstracted: addresses of 10 bits (no device has one); the n-th byte of  *)
(* a write is n, the n-th that a device gives is n.                        *)
(***************************************************************************)
EXTENDS Integers, Sequences

CONSTANTS
    Caller,      \* threads
    None,
    WriteSizes,  \* of what is written, 0 for I2C1_Read
    ReadSizes    \* of what is read, 0 for I2C1_Write

ASSUME I2cMasterAssumption ==
    /\ None \notin Caller
    /\ WriteSizes \subseteq Nat /\ ReadSizes \subseteq Nat

VARIABLES
    api, line,     \* sem_i2c1_api: who has it, who waits
    notify,        \* sem_i2c1_notify
    pc,            \* what a caller does: "idle", "api", "wait", "done"
    status,        \* what its call returns
    state, error, writeSize, readSize, writeCount, readCount, transferType,
    readBuffer,    \* i2c1Obj
    enabled,       \* both interrupts
    mif, bif,      \* their flags
    bus,           \* what the peripheral does, "none" if nothing
    sBit, ackBit,  \* its status: start seen, byte acknowledged
    taken, given   \* history: bytes the device took and gave in this transfer

sync == <<api, line, notify, pc, status>>
obj == <<state, error, writeSize, readSize, writeCount, readCount, transferType,
         readBuffer>>
peripheral == <<mif, bif, bus, sBit, ackBit>>
device == <<taken, given>>
vars == <<sync, obj, enabled, peripheral, device>>

MasterIrq == enabled /\ mif
BusIrq == enabled /\ bif
Threads == ~MasterIrq /\ ~BusIrq

-----------------------------------------------------------------------------
(* I2C1_Read, I2C1_Write and I2C1_WriteRead. *)

Call(t) ==
    /\ Threads /\ pc[t] = "idle"
    /\ \/ api = None /\ api' = t /\ UNCHANGED line
       \/ api # None /\ line' = Append(line, t) /\ UNCHANGED api
    /\ pc' = [pc EXCEPT ![t] = "api"]
    /\ UNCHANGED <<notify, status, obj, enabled, peripheral, device>>

Start(t) ==
    /\ Threads /\ pc[t] = "api" /\ api = t
    /\ state = "idle" /\ ~sBit
    /\ \E n \in WriteSizes, m \in ReadSizes :
          /\ n + m > 0
          /\ writeSize' = n /\ readSize' = m
          /\ transferType' = IF n > 0 THEN "write" ELSE "read"
    /\ writeCount' = 0 /\ readCount' = 0
    /\ error' = "none" /\ readBuffer' = <<>>
    /\ state' = "address" /\ bus' = "start" /\ enabled' = TRUE
    /\ taken' = 0 /\ given' = 0
    /\ pc' = [pc EXCEPT ![t] = "wait"]
    /\ UNCHANGED <<api, line, notify, status, mif, bif, sBit, ackBit>>

(* The bus is taken. *)
Refuse(t) ==
    /\ Threads /\ pc[t] = "api" /\ api = t
    /\ state # "idle" \/ sBit
    /\ status' = [status EXCEPT ![t] = FALSE]
    /\ pc' = [pc EXCEPT ![t] = "done"]
    /\ UNCHANGED <<api, line, notify, obj, enabled, peripheral, device>>

Notified(t) ==
    /\ Threads /\ pc[t] = "wait" /\ notify = 1
    /\ notify' = 0
    /\ status' = [status EXCEPT ![t] = (error = "none")]
    /\ pc' = [pc EXCEPT ![t] = "done"]
    /\ UNCHANGED <<api, line, obj, enabled, peripheral, device>>

Return(t) ==
    /\ Threads /\ pc[t] = "done"
    /\ \/ line = <<>> /\ api' = None /\ UNCHANGED line
       \/ line # <<>> /\ api' = Head(line) /\ line' = Tail(line)
    /\ pc' = [pc EXCEPT ![t] = "idle"]
    /\ UNCHANGED <<notify, status, obj, enabled, peripheral, device>>

-----------------------------------------------------------------------------
(* I2C1_TransferSM, from the master interrupt: in the given state the      *)
(* peripheral is told what to do next.                                     *)

Step(from, to, next) ==
    /\ MasterIrq /\ mif' = FALSE
    /\ state = from /\ state' = to /\ bus' = next
    /\ UNCHANGED <<bif, sBit, ackBit, device, writeSize, readSize>>

Kept == UNCHANGED <<error, writeCount, readCount, transferType, readBuffer,
                    sync, enabled>>

SendAddress ==
    /\ Step("address", transferType, "byte")
    /\ Kept

(* A byte was not acknowledged. *)
Refused(from) ==
    /\ ~ackBit
    /\ Step(from, "stop", "stop")
    /\ error' = "nack"
    /\ UNCHANGED <<writeCount, readCount, transferType, readBuffer, sync, enabled>>

WriteByte ==
    /\ ackBit /\ writeCount < writeSize
    /\ Step("write", "write", "data")
    /\ writeCount' = writeCount + 1
    /\ UNCHANGED <<error, readCount, transferType, readBuffer, sync, enabled>>

Restart ==
    /\ ackBit /\ writeCount = writeSize /\ readCount < readSize
    /\ Step("write", "address", "restart")
    /\ transferType' = "read"
    /\ UNCHANGED <<error, writeCount, readCount, readBuffer, sync, enabled>>

WriteStop ==
    /\ ackBit /\ writeCount = writeSize /\ readCount = readSize
    /\ Step("write", "stop", "stop")
    /\ Kept

Receive ==
    /\ ackBit
    /\ Step("read", "readbyte", "receive")
    /\ Kept

ReadByte ==
    /\ Step("readbyte", "ack", IF readCount + 1 = readSize THEN "nak" ELSE "ack")
    /\ readBuffer' = Append(readBuffer, given)
    /\ readCount' = readCount + 1
    /\ UNCHANGED <<error, writeCount, transferType, sync, enabled>>

AckMore ==
    /\ readCount < readSize
    /\ Step("ack", "readbyte", "receive")
    /\ Kept

AckStop ==
    /\ readCount = readSize
    /\ Step("ack", "stop", "stop")
    /\ Kept

(* Mutant of Stopped: nobody is told. *)
StoppedQuiet ==
    /\ Step("stop", "idle", "none")
    /\ enabled' = FALSE
    /\ UNCHANGED <<error, writeCount, readCount, transferType, readBuffer, sync>>

Stopped ==
    /\ Step("stop", "idle", "none")
    /\ enabled' = FALSE /\ notify' = 1
    /\ UNCHANGED <<error, writeCount, readCount, transferType, readBuffer,
                   api, line, pc, status>>

(* Mutant of Collision: the error is left as it is. *)
CollisionSilent ==
    /\ BusIrq /\ bif' = FALSE
    /\ state' = "idle" /\ notify' = 1
    /\ UNCHANGED <<error, writeSize, readSize, writeCount, readCount, transferType,
                   readBuffer, api, line, pc, status, enabled, mif, bus, sBit,
                   ackBit, device>>

(* Mutant of Collision: the state machine is not reset. *)
CollisionStays ==
    /\ BusIrq /\ bif' = FALSE
    /\ error' = "collision" /\ notify' = 1
    /\ UNCHANGED <<state, writeSize, readSize, writeCount, readCount, transferType,
                   readBuffer, api, line, pc, status, enabled, mif, bus, sBit,
                   ackBit, device>>

(* I2C1_BUS_InterruptHandler. *)
Collision ==
    /\ BusIrq /\ bif' = FALSE
    /\ state' = "idle" /\ error' = "collision" /\ notify' = 1
    /\ UNCHANGED <<writeSize, readSize, writeCount, readCount, transferType,
                   readBuffer, api, line, pc, status, enabled, mif, bus, sBit,
                   ackBit, device>>

-----------------------------------------------------------------------------
(* The peripheral and the devices. *)

BusEnds == bus # "none" /\ bus' = "none"

Unit ==
    /\ BusEnds /\ mif' = TRUE
    /\ \/ bus \in {"start", "restart"} /\ sBit' = TRUE /\ UNCHANGED <<ackBit, device>>
       \/ bus = "byte" /\ ackBit' \in BOOLEAN /\ UNCHANGED <<sBit, device>>
       \/ /\ bus = "data" /\ ackBit' \in BOOLEAN
          /\ taken' = IF ackBit' THEN taken + 1 ELSE taken
          /\ UNCHANGED <<sBit, given>>
       \/ bus = "receive" /\ given' = given + 1 /\ UNCHANGED <<sBit, ackBit, taken>>
       \/ bus \in {"ack", "nak"} /\ UNCHANGED <<sBit, ackBit, device>>
       \/ bus = "stop" /\ sBit' = FALSE /\ UNCHANGED <<ackBit, device>>
    /\ UNCHANGED <<bif, sync, obj, enabled>>

Collide ==
    /\ BusEnds /\ bif' = TRUE
    /\ sBit' \in BOOLEAN
    /\ UNCHANGED <<mif, ackBit, device, sync, obj, enabled>>

(* Somebody else ends the bus' being taken. *)
Free ==
    /\ bus = "none" /\ state = "idle" /\ sBit
    /\ sBit' = FALSE
    /\ UNCHANGED <<mif, bif, bus, ackBit, device, sync, obj, enabled>>

Init ==
    /\ api = None /\ line = <<>> /\ notify = 0
    /\ pc = [t \in Caller |-> "idle"] /\ status = [t \in Caller |-> FALSE]
    /\ state = "idle" /\ error = "none" /\ transferType = "write"
    /\ writeSize = 0 /\ readSize = 0 /\ writeCount = 0 /\ readCount = 0
    /\ readBuffer = <<>>
    /\ enabled = FALSE /\ mif = FALSE /\ bif = FALSE
    /\ bus = "none" /\ sBit = FALSE /\ ackBit = FALSE
    /\ taken = 0 /\ given = 0

Continue(t) == Start(t) \/ Refuse(t) \/ Notified(t) \/ Return(t)

Handles ==
    \/ SendAddress \/ Refused("write") \/ WriteByte \/ Restart \/ WriteStop
    \/ Refused("read") \/ Receive \/ ReadByte \/ AckMore \/ AckStop
    \/ Stopped \/ Collision

Next == \/ \E t \in Caller : Call(t) \/ Continue(t)
        \/ Handles \/ Unit \/ Collide \/ Free

Spec == Init /\ [][Next]_vars

(* Threads run, interrupts are taken, what the peripheral begins it ends.  *)
FairSpec == /\ Spec /\ \A t \in Caller : WF_vars(Continue(t))
            /\ WF_vars(Handles) /\ WF_vars(Unit \/ Collide)

-----------------------------------------------------------------------------
TypeOK ==
    /\ api \in Caller \cup {None} /\ line \in Seq(Caller) /\ notify \in 0 .. 1
    /\ pc \in [Caller -> {"idle", "api", "wait", "done"}]
    /\ status \in [Caller -> BOOLEAN]
    /\ state \in {"idle", "address", "write", "read", "readbyte", "ack", "stop"}
    /\ error \in {"none", "nack", "collision"}
    /\ transferType \in {"write", "read"}
    /\ writeSize \in WriteSizes \cup {0} /\ readSize \in ReadSizes \cup {0}
    /\ writeCount \in 0 .. writeSize /\ readCount \in 0 .. readSize
    /\ Len(readBuffer) = readCount
    /\ enabled \in BOOLEAN /\ mif \in BOOLEAN /\ bif \in BOOLEAN
    /\ bus \in {"none", "start", "restart", "byte", "data", "receive", "ack",
                "nak", "stop"}
    /\ sBit \in BOOLEAN /\ ackBit \in BOOLEAN
    /\ taken \in 0 .. writeSize /\ given \in 0 .. readSize

(* A call that returns true has done what was asked: the device took every *)
(* byte of the write, every byte of the read is in the buffer, and the bus *)
(* was given back.                                                         *)
Truthful == \A t \in Caller : (pc[t] = "done" /\ status[t]) =>
    /\ taken = writeSize
    /\ readBuffer = [i \in 1 .. readSize |-> i]
    /\ state = "idle" /\ bus = "none" /\ ~sBit

(* A notice is of the transfer that waits for it, also where a collision   *)
(* ended it: none stays behind, for the next call would return at once,    *)
(* before its end, with its buffer still to be filled.                     *)
OneNotice ==
    /\ notify = 1 => /\ api # None /\ pc[api] = "wait"
                     /\ state = "idle" /\ bus = "none"
    /\ state # "idle" => api # None /\ pc[api] = "wait"

(* Every call returns, with or without what it asked for.                  *)
Returns == \A t \in Caller : pc[t] # "idle" ~> pc[t] = "idle"
=============================================================================
