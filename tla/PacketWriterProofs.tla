------------------------- MODULE PacketWriterProofs -------------------------
(* The sending half of the packet layer is a bounded queue: the deque has   *)
(* one user at a time, room is neither lost nor made up, the writer does    *)
(* not sleep on packets, and they leave in order, for any senders, packets  *)
(* and capacity, also where writes are left incomplete.                     *)
EXTENDS PacketWriter, FiniteSetTheorems, SequenceTheorems, TLAPS

-----------------------------------------------------------------------------
(* The inductive invariant. *)

(* Nobody waits twice for a semaphore. *)
Distinct(s) == \A i, j \in DOMAIN s.waits : s.waits[i] = s.waits[j] => i = j

(* Where each thread can be. *)
Places ==
    /\ pc[Writer] \in {"start", "loop", "locked", "sleep", "write", "requeue"}
    /\ \A s \in Sender : pc[s] \in {"idle", "room", "locked", "push"}

(* Who has a packet in hand. *)
Hands ==
    /\ packet[Writer] # None <=> pc[Writer] \in {"write", "requeue"}
    /\ \A s \in Sender : pc[s] # "idle" => packet[s] # None

(* Who waits for what, and where. *)
Lines ==
    /\ Distinct(sem_outgoing)
    /\ Distinct(sem_write_api)
    /\ Distinct(sem_write_buffer)
    /\ \A t \in Thread :
          /\ Suspended(sem_outgoing, t) =>
                pc[t] = "locked" \/ (t = Writer /\ pc[t] = "requeue")
          /\ Suspended(sem_write_api, t) => t = Writer /\ pc[t] = "loop"
          /\ Suspended(sem_write_buffer, t) => t # Writer /\ pc[t] = "room"

(* sem_outgoing has a unit, or a thread has it, or write_process is yet to  *)
(* give the first.                                                          *)
Lock ==
    /\ Exclusive
    /\ sem_outgoing.count \in 0 .. 1
    /\ sem_outgoing.count = 1 => sem_outgoing.waits = <<>>
    /\ pc[Writer] = "start" => sem_outgoing.count = 0 /\ Holding = {}

(* A packet that comes on an empty deque was announced, unless the writer   *)
(* is awake and will look.                                                  *)
Filled == outgoing # <<>> \/ \E s \in Sender : pc[s] = "push"

(* A packet on the deque is announced to the writer, or will be. *)
Announced ==
    /\ Suspended(sem_write_api, Writer) => ~Filled
    /\ pc[Writer] = "sleep" /\ Filled => sem_write_api.count > 0

(* All of it. *)
IInv == TypeOK /\ Places /\ Hands /\ Lines /\ Lock /\ Announced
           /\ IsFiniteSet(Roomed) /\ RoomKept

-----------------------------------------------------------------------------
(* What a semaphore does to its line. *)

(* A get takes a unit, or the thread joins the line. *)
LEMMA GetLine ==
    ASSUME NEW s \in Semaphores(Thread), Distinct(s),
           NEW t \in Thread, ~Suspended(s, t)
    PROVE  /\ Get(s, t) \in Semaphores(Thread)
           /\ Distinct(Get(s, t))
           /\ s.count > 0 =>
                 /\ Get(s, t).count = s.count - 1
                 /\ Get(s, t).waits = s.waits
                 /\ \A u : Suspended(Get(s, t), u) <=> Suspended(s, u)
           /\ s.count = 0 =>
                 /\ Get(s, t).count = 0
                 /\ \A u : Suspended(Get(s, t), u) <=> Suspended(s, u) \/ u = t
<1>1. s.count \in Nat /\ s.waits \in Seq(Thread)
    BY DEF Semaphores
<1>2. CASE s.count > 0
  <2>1. Get(s, t) = [count |-> s.count - 1, waits |-> s.waits]
    BY <1>2 DEF Get, Semaphores
  <2> QED
    BY <1>1, <1>2, <2>1 DEF Semaphores, Distinct, Suspended
<1>3. CASE s.count = 0
  <2>1. Get(s, t) = [count |-> 0, waits |-> Append(s.waits, t)]
    BY <1>3, SMTT(30) DEF Get, Semaphores
  <2>2. PICK n \in Nat : n = Len(s.waits) /\ DOMAIN s.waits = 1 .. n
    BY <1>1, LenProperties
  <2>3. PICK w : w = Append(s.waits, t)
    OBVIOUS
  <2>4. /\ w \in Seq(Thread) /\ DOMAIN w = 1 .. n + 1
        /\ \A i \in 1 .. n : w[i] = s.waits[i]
        /\ w[n + 1] = t
    BY <1>1, <2>2, <2>3
  <2>5. \A i \in 1 .. n : s.waits[i] # t
    BY <2>2 DEF Suspended
  <2>6. Get(s, t) \in Semaphores(Thread)
    BY <2>1, <2>3, <2>4 DEF Semaphores
  <2>7. Get(s, t).count = 0 /\ Get(s, t).waits = w
    BY <2>1, <2>3
  <2>8. Distinct(Get(s, t))
    <3>1. \A i, j \in 1 .. n + 1 : w[i] = w[j] => i = j
      BY <2>2, <2>4, <2>5 DEF Distinct
    <3> QED
      BY <2>4, <2>7, <3>1 DEF Distinct
  <2>9. \A u : Suspended(Get(s, t), u) <=> Suspended(s, u) \/ u = t
    BY <2>2, <2>4, <2>7 DEF Suspended
  <2> QED
    BY <1>3, <2>6, <2>7, <2>8, <2>9
<1> QED
    BY <1>1, <1>2, <1>3

(* A put is counted, or lets the first of the line go on. *)
LEMMA PutLine ==
    ASSUME NEW s \in Semaphores(Thread), Distinct(s)
    PROVE  /\ Put(s) \in Semaphores(Thread)
           /\ Distinct(Put(s))
           /\ s.waits = <<>> =>
                 /\ Put(s).count = s.count + 1
                 /\ Put(s).waits = <<>>
                 /\ \A u : ~Suspended(s, u) /\ ~Suspended(Put(s), u)
           /\ s.waits # <<>> =>
                 /\ Put(s).count = s.count
                 /\ Suspended(s, Head(s.waits)) /\ Head(s.waits) \in Thread
                 /\ \A u : Suspended(Put(s), u)
                              <=> Suspended(s, u) /\ u # Head(s.waits)
<1>1. s.count \in Nat /\ s.waits \in Seq(Thread)
    BY DEF Semaphores
<1>2. CASE s.waits = <<>>
  <2>1. Put(s) = [count |-> s.count + 1, waits |-> <<>>]
    BY <1>2 DEF Put, Semaphores
  <2> QED
    BY <1>1, <1>2, <2>1 DEF Semaphores, Distinct, Suspended
<1>3. CASE s.waits # <<>>
  <2>1. Put(s) = [count |-> s.count, waits |-> Tail(s.waits)]
    BY <1>3 DEF Put, Semaphores
  <2>2. PICK n \in Nat : n = Len(s.waits) /\ DOMAIN s.waits = 1 .. n
    BY <1>1, LenProperties
  <2>3. n > 0 /\ Head(s.waits) = s.waits[1] /\ s.waits[1] \in Thread
    BY <1>1, <1>3, <2>2, HeadTailProperties, ElementOfSeq, EmptySeq
  <2>4. PICK w : w = Tail(s.waits)
    OBVIOUS
  <2>5. /\ w \in Seq(Thread) /\ DOMAIN w = 1 .. n - 1
        /\ \A i \in 1 .. n - 1 : w[i] = s.waits[i + 1]
    BY <1>1, <1>3, <2>2, <2>3, <2>4, HeadTailProperties, LenProperties
  <2>6. Put(s) \in Semaphores(Thread)
    BY <1>1, <2>1, <2>4, <2>5 DEF Semaphores
  <2>7. Put(s).count = s.count /\ Put(s).waits = w
    BY <2>1, <2>4
  <2>8. Distinct(Put(s))
    <3>1. ASSUME NEW i \in 1 .. n - 1, NEW j \in 1 .. n - 1, w[i] = w[j]
          PROVE  i = j
      <4>1. i + 1 \in 1 .. n /\ j + 1 \in 1 .. n
        BY <2>3
      <4>2. s.waits[i + 1] = s.waits[j + 1]
        BY <2>5, <3>1
      <4>3. i + 1 = j + 1
        BY <2>2, <4>1, <4>2 DEF Distinct
      <4> QED
        BY <4>3
    <3> QED
      BY <2>5, <2>7, <3>1 DEF Distinct
  <2>9. ASSUME NEW u
        PROVE  Suspended(Put(s), u) <=> Suspended(s, u) /\ u # s.waits[1]
    <3>1. ASSUME Suspended(Put(s), u)
          PROVE  Suspended(s, u) /\ u # s.waits[1]
      <4>1. PICK i \in 1 .. n - 1 : w[i] = u
        BY <2>5, <2>7, <3>1 DEF Suspended
      <4>2. i + 1 \in 1 .. n /\ s.waits[i + 1] = u /\ i + 1 # 1 /\ 1 \in 1 .. n
        BY <2>3, <2>5, <4>1
      <4> QED
        BY <2>2, <4>2 DEF Distinct, Suspended
    <3>2. ASSUME Suspended(s, u), u # s.waits[1]
          PROVE  Suspended(Put(s), u)
      <4>1. PICK i \in 1 .. n : s.waits[i] = u
        BY <2>2, <3>2 DEF Suspended
      <4>2. i - 1 \in 1 .. n - 1 /\ w[i - 1] = s.waits[i - 1 + 1] /\ i - 1 + 1 = i
        BY <2>5, <3>2, <4>1
      <4> QED
        BY <2>5, <2>7, <4>1, <4>2 DEF Suspended
    <3> QED
      BY <3>1, <3>2
  <2>10. Suspended(s, s.waits[1])
    BY <2>2, <2>3 DEF Suspended
  <2> QED
    BY <1>3, <2>3, <2>6, <2>7, <2>8, <2>9, <2>10
<1> QED
    BY <1>2, <1>3

(* With a ceiling of one a put does the same, or finds the unit there. *)
LEMMA CeilingLine ==
    ASSUME NEW s \in Semaphores(Thread)
    PROVE  /\ s.waits # <<>> \/ s.count = 0 => CeilingPut(s, 1) = Put(s)
           /\ s.waits = <<>> /\ s.count > 0 => CeilingPut(s, 1) = s
BY DEF CeilingPut, Semaphores

-----------------------------------------------------------------------------
(* The lock. *)

(* Where a thread that has the lock can be. *)
Inside(t) == IF t = Writer THEN {"locked", "requeue"} ELSE {"locked", "push"}

(* Whoever has the lock gives it back. *)
LEMMA LockPassed ==
    ASSUME IInv, NEW t \in Thread, Holds(t), NEW to, to \notin Inside(t),
           to # "start", GoTo(t, to), sem_outgoing' = CeilingPut(sem_outgoing, 1)
    PROVE  /\ sem_outgoing' \in Semaphores(Thread)
           /\ Distinct(sem_outgoing)'
           /\ \A u \in Thread : Suspended(sem_outgoing, u)' =>
                                  Suspended(sem_outgoing, u) /\ u # t
           /\ Lock'
<1>1. /\ sem_outgoing \in Semaphores(Thread) /\ Distinct(sem_outgoing)
    BY DEF IInv, TypeOK, Lines
<1>2. sem_outgoing.count = 0 /\ ~Suspended(sem_outgoing, t)
    BY DEF IInv, Lock, Exclusive, Holding, Holds
<1>3. sem_outgoing' = Put(sem_outgoing)
    BY <1>1, <1>2, CeilingLine
<1>4. /\ pc'[t] = to
      /\ \A u \in Thread : u # t => pc'[u] = pc[u]
    BY DEF GoTo, IInv, TypeOK
<1>5. \A u \in Thread : Holds(u) => u = t
    BY DEF IInv, Lock, Exclusive, Holding
<1>6. ~Holds(t)'
    BY <1>4 DEF Holds, Inside
<1>7. pc'[Writer] # "start"
    BY <1>4 DEF IInv, Lock, Thread, Holding
<1>8. CASE sem_outgoing.waits = <<>>
  <2>1. /\ sem_outgoing' \in Semaphores(Thread) /\ Distinct(sem_outgoing)'
        /\ sem_outgoing'.count = 1 /\ sem_outgoing'.waits = <<>>
        /\ \A u : ~Suspended(sem_outgoing, u) /\ ~Suspended(sem_outgoing', u)
    BY <1>1, <1>2, <1>3, <1>8, PutLine
  <2>2. \A u \in Thread : ~Holds(u)'
    BY <1>4, <1>5, <1>6, <2>1 DEF Holds
  <2> QED
    BY <1>7, <2>1, <2>2 DEF Lock, Exclusive, Holding
<1>9. CASE sem_outgoing.waits # <<>>
  <2>1. PICK h \in Thread : h = Head(sem_outgoing.waits)
    BY <1>1, <1>9, PutLine
  <2>2. /\ sem_outgoing' \in Semaphores(Thread) /\ Distinct(sem_outgoing)'
        /\ sem_outgoing'.count = 0
        /\ \A u : Suspended(sem_outgoing', u) <=> Suspended(sem_outgoing, u) /\ u # h
    BY <1>1, <1>2, <1>3, <1>9, <2>1, PutLine
  <2>3. \A u \in Thread : Holds(u)' => u = h
    BY <1>4, <1>5, <1>6, <2>2 DEF Holds
  <2> QED
    BY <1>2, <1>7, <2>2, <2>3 DEF Lock, Exclusive, Holding
<1> QED
    BY <1>8, <1>9

(* A thread that has not got the lock asks for it. *)
LEMMA LockAsked ==
    ASSUME IInv, NEW t \in Thread, ~Suspended(sem_outgoing, t), ~Holds(t),
           pc[Writer] # "start" \/ t # Writer,
           NEW to \in Inside(t), GoTo(t, to),
           sem_outgoing' = Get(sem_outgoing, t)
    PROVE  /\ sem_outgoing' \in Semaphores(Thread)
           /\ Distinct(sem_outgoing)'
           /\ \A u \in Thread : Suspended(sem_outgoing, u)' =>
                                  Suspended(sem_outgoing, u) \/ u = t
           /\ Lock'
<1>1. /\ sem_outgoing \in Semaphores(Thread) /\ Distinct(sem_outgoing)
    BY DEF IInv, TypeOK, Lines
<1>2. /\ pc'[t] = to
      /\ \A u \in Thread : u # t => pc'[u] = pc[u]
    BY DEF GoTo, IInv, TypeOK
<1>3. pc'[Writer] = "start" => pc[Writer] = "start"
    BY <1>2 DEF Inside, Thread
<1>4. CASE sem_outgoing.count = 1
  <2>1. /\ sem_outgoing' \in Semaphores(Thread) /\ Distinct(sem_outgoing)'
        /\ sem_outgoing'.count = 0 /\ sem_outgoing'.waits = <<>>
        /\ \A u : Suspended(sem_outgoing', u) <=> Suspended(sem_outgoing, u)
    BY <1>1, <1>4, GetLine DEF IInv, Lock
  <2>2. \A u \in Thread : Holds(u)' => u = t
    BY <1>2, <1>4, <2>1 DEF Holds, IInv, Lock, Exclusive, Holding
  <2>3. pc[Writer] # "start"
    BY <1>4 DEF IInv, Lock
  <2> QED
    BY <1>3, <2>1, <2>2, <2>3 DEF Lock, Exclusive, Holding
<1>5. CASE sem_outgoing.count = 0
  <2>1. /\ sem_outgoing' \in Semaphores(Thread) /\ Distinct(sem_outgoing)'
        /\ sem_outgoing'.count = 0
        /\ \A u : Suspended(sem_outgoing', u) <=> Suspended(sem_outgoing, u) \/ u = t
    BY <1>1, <1>5, GetLine
  <2>2. \A u \in Thread : Holds(u)' => Holds(u)
    BY <1>2, <2>1 DEF Holds
  <2> QED
    BY <1>3, <2>1, <2>2 DEF Lock, Exclusive, Holding, IInv
<1> QED
    BY <1>4, <1>5 DEF IInv, Lock

(* A thread goes on, within the lock or without it. *)
LEMMA LockKept ==
    ASSUME IInv, NEW t \in Thread, ~Suspended(sem_outgoing, t),
           NEW to, to # "start", GoTo(t, to), UNCHANGED sem_outgoing,
           pc[t] \in Inside(t) <=> to \in Inside(t)
    PROVE  Lock'
<1>1. /\ pc'[t] = to
      /\ \A u \in Thread : u # t => pc'[u] = pc[u]
    BY DEF GoTo, IInv, TypeOK
<1>2. \A u \in Thread : Holds(u)' <=> Holds(u)
    BY <1>1 DEF Holds, Inside
<1>3. Holding' = Holding
    BY <1>2 DEF Holding
<1>4. pc'[Writer] = "start" => pc[Writer] = "start"
    BY <1>1 DEF Thread
<1> QED
    BY <1>3, <1>4 DEF IInv, Lock, Exclusive

-----------------------------------------------------------------------------
(* The steps that ask for room or give it. *)

(* What is in use besides the units that are free. *)
InHand == IF packet[Writer] = None THEN 0 ELSE 1

(* Nothing is counted below zero. *)
LEMMA Counts ==
    ASSUME IInv
    PROVE  /\ Cardinality(Roomed) \in Nat /\ Len(outgoing) \in Nat
           /\ sem_write_buffer.count \in Nat /\ InHand \in 0 .. 1
           /\ MaxOutgoing \in Nat
BY FS_CardinalityType, LenProperties, WriterAssumption
   DEF IInv, TypeOK, Semaphores, InHand

(* A sender takes a unit of room, or joins the line for it. *)
LEMMA SendGetRoomStep ==
    ASSUME IInv, NEW s \in Sender, NEW p \in Packet, SendGetRoom(s, p)
    PROVE  IInv'
<1> USE DEF SendGetRoom, Goes, GoTo
<1>1. s \in Thread /\ s # Writer /\ p # None
    BY WriterAssumption DEF Thread
<1>2. sem_write_buffer \in Semaphores(Thread) /\ Distinct(sem_write_buffer)
    BY DEF IInv, TypeOK, Lines
<1>3. /\ pc'[s] = "room" /\ packet'[s] = p
      /\ \A u \in Thread : u # s => pc'[u] = pc[u] /\ packet'[u] = packet[u]
    BY <1>1 DEF IInv, TypeOK
<1>4. sem_write_buffer' \in Semaphores(Thread) /\ Distinct(sem_write_buffer)'
    BY <1>1, <1>2, GetLine
<1>5. \A u \in Thread : Suspended(sem_write_buffer, u)' =>
                            Suspended(sem_write_buffer, u) \/ u = s
    BY <1>1, <1>2, GetLine DEF Semaphores
<1>6. TypeOK'
    BY <1>1, <1>4 DEF IInv, TypeOK
<1>7. Places' /\ Hands'
    BY <1>1, <1>3 DEF IInv, Places, Hands, Thread
<1>8. Lines'
    BY <1>1, <1>3, <1>4, <1>5 DEF IInv, Lines, Distinct
<1>9. Lock'
    BY <1>1, LockKept DEF Inside
<1>10. Announced'
    BY <1>1, <1>3 DEF IInv, Announced, Filled, Thread
<1>11. IsFiniteSet(Roomed)' /\ RoomKept'
  <2>1. s \notin Roomed /\ IsFiniteSet(Roomed)
    BY DEF Roomed, IInv
  <2>2. packet'[Writer] = packet[Writer]
    BY <1>1, <1>3 DEF Thread
  <2>3. CASE sem_write_buffer.count > 0
    <3>1. /\ sem_write_buffer'.count = sem_write_buffer.count - 1
          /\ \A u : Suspended(sem_write_buffer', u) <=> Suspended(sem_write_buffer, u)
      BY <1>1, <1>2, <2>3, GetLine
    <3>2. Roomed' = Roomed \cup {s}
      BY <1>1, <1>3, <3>1 DEF Roomed, Thread
    <3>3. IsFiniteSet(Roomed)' /\ Cardinality(Roomed)' = Cardinality(Roomed) + 1
      BY <2>1, <3>2, FS_AddElement
    <3> QED
      BY <2>2, <3>1, <3>3, Counts DEF IInv, RoomKept, InHand
  <2>4. CASE sem_write_buffer.count = 0
    <3>1. /\ sem_write_buffer'.count = 0
          /\ \A u : Suspended(sem_write_buffer', u)
                     <=> Suspended(sem_write_buffer, u) \/ u = s
      BY <1>1, <1>2, <2>4, GetLine
    <3>2. Roomed' = Roomed
      BY <1>1, <1>3, <3>1 DEF Roomed, Thread
    <3> QED
      BY <2>1, <2>2, <2>4, <3>1, <3>2 DEF IInv, RoomKept
  <2> QED
    BY <2>3, <2>4, Counts
<1> QED
    BY <1>6, <1>7, <1>8, <1>9, <1>10, <1>11 DEF IInv

(* The unit of a packet that was written goes to the first in line. *)
LEMMA WriteAllStep ==
    ASSUME IInv, WriteAll
    PROVE  IInv'
<1> USE DEF WriteAll, Goes, GoTo
<1>1. Writer \in Thread /\ Writer \notin Sender
    BY WriterAssumption DEF Thread
<1>2. sem_write_buffer \in Semaphores(Thread) /\ Distinct(sem_write_buffer)
    BY DEF IInv, TypeOK, Lines
<1>3. /\ pc'[Writer] = "loop" /\ packet'[Writer] = None
      /\ \A u \in Thread : u # Writer => pc'[u] = pc[u] /\ packet'[u] = packet[u]
    BY <1>1 DEF IInv, TypeOK
<1>4. sem_write_buffer' \in Semaphores(Thread) /\ Distinct(sem_write_buffer)'
    BY <1>2, PutLine
<1>5. \A u \in Thread : Suspended(sem_write_buffer, u)' => Suspended(sem_write_buffer, u)
    BY <1>2, PutLine
<1>6. packet[Writer] \in Packet
    BY <1>1 DEF IInv, TypeOK, Hands
<1>7. TypeOK'
    BY <1>1, <1>4, <1>6 DEF IInv, TypeOK
<1>8. Places' /\ Hands'
    BY <1>1, <1>3 DEF IInv, Places, Hands, Thread
<1>9. Lines'
    BY <1>1, <1>3, <1>4, <1>5 DEF IInv, Lines, Distinct
<1>10. Lock'
    BY <1>1, LockKept DEF Inside
<1>11. Announced'
    BY <1>1, <1>3 DEF IInv, Announced, Filled, Thread
<1>12. IsFiniteSet(Roomed)' /\ RoomKept'
  <2>1. InHand = 1 /\ InHand' = 0
    BY <1>3, <1>6, WriterAssumption DEF InHand
  <2>2. CASE sem_write_buffer.waits = <<>>
    <3>1. /\ sem_write_buffer'.count = sem_write_buffer.count + 1
          /\ \A u : ~Suspended(sem_write_buffer, u) /\ ~Suspended(sem_write_buffer', u)
      BY <1>2, <2>2, PutLine
    <3>2. Roomed' = Roomed
      BY <1>1, <1>3, <3>1 DEF Roomed, Thread
    <3> QED
      BY <2>1, <3>1, <3>2, Counts DEF IInv, RoomKept, InHand
  <2>3. CASE sem_write_buffer.waits # <<>>
    <3>1. PICK h \in Thread : h = Head(sem_write_buffer.waits)
      BY <1>2, <2>3, PutLine
    <3>2. /\ sem_write_buffer'.count = sem_write_buffer.count
          /\ Suspended(sem_write_buffer, h)
          /\ \A u : Suspended(sem_write_buffer', u)
                     <=> Suspended(sem_write_buffer, u) /\ u # h
      BY <1>2, <2>3, <3>1, PutLine
    <3>3. h \in Sender /\ pc[h] = "room"
      BY <3>2 DEF IInv, Lines, Thread
    <3>4. Roomed' = Roomed \cup {h}
      BY <1>1, <1>3, <3>2, <3>3 DEF Roomed, Thread
    <3>5. h \notin Roomed
      BY <3>2 DEF Roomed
    <3>6. IsFiniteSet(Roomed)' /\ Cardinality(Roomed)' = Cardinality(Roomed) + 1
      BY <3>4, <3>5, FS_AddElement DEF IInv
    <3> QED
      BY <2>1, <3>2, <3>6, Counts DEF IInv, RoomKept, InHand
  <2> QED
    BY <2>2, <2>3
<1> QED
    BY <1>7, <1>8, <1>9, <1>10, <1>11, <1>12 DEF IInv

-----------------------------------------------------------------------------
(* The other steps of send(). *)

(* A sender asks for the lock. *)
LEMMA SendGetLockStep ==
    ASSUME IInv, NEW s \in Sender, SendGetLock(s)
    PROVE  IInv'
<1> USE DEF SendGetLock, Goes, GoTo
<1>1. s \in Thread /\ s # Writer
    BY WriterAssumption DEF Thread
<1>2. /\ pc'[s] = "locked"
      /\ \A u \in Thread : u # s => pc'[u] = pc[u]
    BY <1>1 DEF IInv, TypeOK
<1>3. ~Holds(s)
    BY <1>1 DEF Holds
<1>4. /\ sem_outgoing' \in Semaphores(Thread) /\ Distinct(sem_outgoing)'
      /\ \A u \in Thread : Suspended(sem_outgoing, u)' =>
                             Suspended(sem_outgoing, u) \/ u = s
      /\ Lock'
    BY <1>1, <1>3, LockAsked DEF Inside
<1>5. TypeOK'
    BY <1>1, <1>4 DEF IInv, TypeOK
<1>6. Places' /\ Hands'
    BY <1>1, <1>2 DEF IInv, Places, Hands, Thread
<1>7. Lines'
    BY <1>1, <1>2, <1>4 DEF IInv, Lines, Distinct
<1>8. Announced'
    BY <1>1, <1>2 DEF IInv, Announced, Filled, Thread
<1>9. Roomed' = Roomed
    BY <1>1, <1>2 DEF Roomed, Thread
<1> QED
    BY <1>4, <1>5, <1>6, <1>7, <1>8, <1>9 DEF IInv, RoomKept

(* A sender that finds the deque empty announces its packet. *)
LEMMA SendNotifyStep ==
    ASSUME IInv, NEW s \in Sender, SendNotify(s)
    PROVE  IInv'
<1> USE DEF SendNotify, Goes, GoTo
<1>1. s \in Thread /\ s # Writer
    BY WriterAssumption DEF Thread
<1>2. /\ pc'[s] = "push"
      /\ \A u \in Thread : u # s => pc'[u] = pc[u]
    BY <1>1 DEF IInv, TypeOK
<1>3. sem_write_api \in Semaphores(Thread) /\ Distinct(sem_write_api)
    BY DEF IInv, TypeOK, Lines
<1>4. \/ outgoing # <<>> /\ sem_write_api' = sem_write_api
      \/ outgoing = <<>> /\ sem_write_api' = Put(sem_write_api)
      \/ outgoing = <<>> /\ sem_write_api' = sem_write_api
            /\ sem_write_api.waits = <<>> /\ sem_write_api.count > 0
    BY <1>3, CeilingLine DEF Semaphores
<1>5. /\ sem_write_api' \in Semaphores(Thread) /\ Distinct(sem_write_api)'
      /\ \A u \in Thread : Suspended(sem_write_api, u)' => Suspended(sem_write_api, u)
      /\ sem_write_api'.count >= sem_write_api.count
  <2>1. sem_write_api.count \in Nat
    BY <1>3 DEF Semaphores
  <2>2. /\ Put(sem_write_api) \in Semaphores(Thread)
        /\ Distinct(Put(sem_write_api))
        /\ \A u \in Thread : Suspended(Put(sem_write_api), u) =>
                               Suspended(sem_write_api, u)
        /\ Put(sem_write_api).count >= sem_write_api.count
    BY <1>3, <2>1, PutLine
  <2>3. CASE sem_write_api' = sem_write_api
    BY <1>3, <2>1, <2>3
  <2>4. CASE sem_write_api' = Put(sem_write_api)
    BY <2>2, <2>4 DEF Distinct
  <2> QED
    BY <1>4, <2>3, <2>4
<1>6. TypeOK'
    BY <1>1, <1>5 DEF IInv, TypeOK
<1>7. Places' /\ Hands'
    BY <1>1, <1>2 DEF IInv, Places, Hands, Thread
<1>8. Lines'
    BY <1>1, <1>2, <1>5 DEF IInv, Lines, Distinct
<1>9. Lock'
    BY <1>1, LockKept DEF Inside
<1>10. Roomed' = Roomed
    BY <1>1, <1>2 DEF Roomed, Thread
<1>11. Announced'
  <2>1. Writer \in Thread /\ pc'[Writer] = pc[Writer]
    BY <1>1, <1>2 DEF Thread
  <2>2. CASE outgoing # <<>>
    BY <1>4, <2>1, <2>2 DEF IInv, Announced, Filled
  <2>3. CASE outgoing = <<>> /\ sem_write_api.waits # <<>>
    <3>1. PICK h \in Thread : h = Head(sem_write_api.waits)
      BY <1>3, <2>3, PutLine
    <3>2. /\ Suspended(sem_write_api, h)
          /\ \A u : Suspended(sem_write_api', u) => u # h
      BY <1>3, <1>4, <2>3, <3>1, PutLine
    <3>3. h = Writer /\ pc[Writer] = "loop"
      BY <3>2 DEF IInv, Lines
    <3> QED
      BY <2>1, <3>2, <3>3 DEF Announced
  <2>4. CASE outgoing = <<>> /\ sem_write_api.waits = <<>>
    <3>1. sem_write_api.count \in Nat /\ ~Suspended(sem_write_api, Writer)
      BY <1>3, <2>4 DEF Semaphores, Suspended
    <3>2. /\ Put(sem_write_api).count = sem_write_api.count + 1
          /\ ~Suspended(Put(sem_write_api), Writer)
      BY <1>3, <2>4, PutLine
    <3>3. sem_write_api'.count > 0 /\ ~Suspended(sem_write_api', Writer)
      BY <1>4, <2>4, <3>1, <3>2
    <3> QED
      BY <3>3 DEF Announced
  <2> QED
    BY <2>2, <2>3, <2>4
<1> QED
    BY <1>6, <1>7, <1>8, <1>9, <1>10, <1>11 DEF IInv, RoomKept

(* The packet goes on the deque with the room its sender had. *)
LEMMA SendPushStep ==
    ASSUME IInv, NEW s \in Sender, SendPush(s)
    PROVE  IInv'
<1> USE DEF SendPush, Goes, GoTo
<1>1. s \in Thread /\ s # Writer
    BY WriterAssumption DEF Thread
<1>2. /\ pc'[s] = "idle" /\ packet'[s] = None
      /\ \A u \in Thread : u # s => pc'[u] = pc[u] /\ packet'[u] = packet[u]
    BY <1>1 DEF IInv, TypeOK
<1>3. packet[s] \in Packet
    BY <1>1 DEF IInv, TypeOK, Hands
<1>4. Holds(s)
    BY <1>1 DEF Holds
<1>5. /\ sem_outgoing' \in Semaphores(Thread) /\ Distinct(sem_outgoing)'
      /\ \A u \in Thread : Suspended(sem_outgoing, u)' =>
                             Suspended(sem_outgoing, u) /\ u # s
      /\ Lock'
    BY <1>1, <1>4, LockPassed DEF Inside
<1>6. /\ outgoing' \in Seq(Packet) /\ outgoing' # <<>>
      /\ Len(outgoing') = Len(outgoing) + 1
    BY <1>3, AppendProperties, EmptySeq DEF IInv, TypeOK
<1>7. TypeOK'
    BY <1>1, <1>3, <1>5, <1>6 DEF IInv, TypeOK
<1>8. Places' /\ Hands'
    BY <1>1, <1>2 DEF IInv, Places, Hands, Thread
<1>9. Lines'
    BY <1>1, <1>2, <1>5 DEF IInv, Lines, Distinct
<1>10. Announced'
    BY <1>1, <1>2 DEF IInv, Announced, Filled, Thread
<1>11. IsFiniteSet(Roomed)' /\ RoomKept'
  <2>1. s \in Roomed /\ Roomed' = Roomed \ {s}
    BY <1>1, <1>2 DEF Roomed, Thread
  <2>2. IsFiniteSet(Roomed)' /\ Cardinality(Roomed)' = Cardinality(Roomed) - 1
    BY <2>1, FS_RemoveElement DEF IInv
  <2>3. packet'[Writer] = packet[Writer]
    BY <1>1, <1>2 DEF Thread
  <2> QED
    BY <1>6, <2>2, <2>3, Counts DEF IInv, RoomKept, InHand
<1> QED
    BY <1>5, <1>7, <1>8, <1>9, <1>10, <1>11 DEF IInv

-----------------------------------------------------------------------------
(* The other steps of write_process. *)

(* write_process gives the lock its first unit. *)
LEMMA WriteStartStep ==
    ASSUME IInv, WriteStart
    PROVE  IInv'
<1> USE DEF WriteStart, Goes, GoTo
<1>1. Writer \in Thread /\ Writer \notin Sender
    BY WriterAssumption DEF Thread
<1>2. /\ pc'[Writer] = "loop"
      /\ \A u \in Thread : u # Writer => pc'[u] = pc[u]
    BY <1>1 DEF IInv, TypeOK
<1>3. /\ sem_outgoing \in Semaphores(Thread) /\ Distinct(sem_outgoing)
      /\ sem_outgoing.count = 0 /\ Holding = {}
    BY DEF IInv, TypeOK, Lines, Lock
<1>4. sem_outgoing' = Put(sem_outgoing)
    BY <1>3, CeilingLine
<1>5. /\ sem_outgoing' \in Semaphores(Thread) /\ Distinct(sem_outgoing)'
      /\ \A u : Suspended(sem_outgoing, u)' => Suspended(sem_outgoing, u)
    BY <1>3, <1>4, PutLine
<1>6. TypeOK'
    BY <1>1, <1>5 DEF IInv, TypeOK
<1>7. Places' /\ Hands'
    BY <1>1, <1>2 DEF IInv, Places, Hands, Thread
<1>8. Lines'
    BY <1>1, <1>2, <1>5 DEF IInv, Lines, Distinct
<1>9. Lock'
  <2>1. CASE sem_outgoing.waits = <<>>
    <3>1. /\ sem_outgoing'.count = 1 /\ sem_outgoing'.waits = <<>>
          /\ \A u : ~Suspended(sem_outgoing, u) /\ ~Suspended(sem_outgoing', u)
      BY <1>3, <1>4, <2>1, PutLine
    <3>2. \A u \in Thread : ~Holds(u)'
      BY <1>2, <1>3, <3>1 DEF Holds, Holding
    <3> QED
      BY <1>2, <3>1, <3>2 DEF Lock, Exclusive, Holding
  <2>2. CASE sem_outgoing.waits # <<>>
    <3>1. PICK h \in Thread : h = Head(sem_outgoing.waits)
      BY <1>3, <2>2, PutLine
    <3>2. /\ sem_outgoing'.count = 0
          /\ \A u : Suspended(sem_outgoing', u)
                     <=> Suspended(sem_outgoing, u) /\ u # h
      BY <1>3, <1>4, <2>2, <3>1, PutLine
    <3>3. \A u \in Thread : Holds(u)' => u = h
      BY <1>2, <1>3, <3>2 DEF Holds, Holding
    <3> QED
      BY <1>2, <3>2, <3>3 DEF Lock, Exclusive, Holding
  <2> QED
    BY <2>1, <2>2
<1>10. Announced'
    BY <1>1, <1>2 DEF IInv, Announced, Filled, Thread
<1>11. Roomed' = Roomed
    BY <1>1, <1>2 DEF Roomed, Thread
<1> QED
    BY <1>6, <1>7, <1>8, <1>9, <1>10, <1>11 DEF IInv, RoomKept

(* write_process asks for the lock. *)
LEMMA WriteGetLockStep ==
    ASSUME IInv, WriteGetLock
    PROVE  IInv'
<1> USE DEF WriteGetLock, Goes, GoTo
<1>1. Writer \in Thread /\ Writer \notin Sender
    BY WriterAssumption DEF Thread
<1>2. /\ pc'[Writer] = "locked"
      /\ \A u \in Thread : u # Writer => pc'[u] = pc[u]
    BY <1>1 DEF IInv, TypeOK
<1>3. ~Holds(Writer)
    BY DEF Holds
<1>4. /\ sem_outgoing' \in Semaphores(Thread) /\ Distinct(sem_outgoing)'
      /\ \A u \in Thread : Suspended(sem_outgoing, u)' =>
                             Suspended(sem_outgoing, u) \/ u = Writer
      /\ Lock'
    BY <1>1, <1>3, LockAsked DEF Inside
<1>5. TypeOK'
    BY <1>1, <1>4 DEF IInv, TypeOK
<1>6. Places' /\ Hands'
    BY <1>1, <1>2 DEF IInv, Places, Hands, Thread
<1>7. Lines'
    BY <1>1, <1>2, <1>4 DEF IInv, Lines, Distinct
<1>8. Announced'
    BY <1>1, <1>2 DEF IInv, Announced, Filled, Thread
<1>9. Roomed' = Roomed
    BY <1>1, <1>2 DEF Roomed, Thread
<1> QED
    BY <1>4, <1>5, <1>6, <1>7, <1>8, <1>9 DEF IInv, RoomKept

(* write_process takes the first packet, or sees that there is none. *)
LEMMA WriteLookStep ==
    ASSUME IInv, WriteLook
    PROVE  IInv'
<1> USE DEF WriteLook, Goes, GoTo
<1>1. Writer \in Thread /\ Writer \notin Sender
    BY WriterAssumption DEF Thread
<1>2. Holds(Writer)
    BY DEF Holds
<1>3. \A s \in Sender : pc[s] # "push"
  <2>1. SUFFICES ASSUME NEW s \in Sender, pc[s] = "push"
                 PROVE  FALSE
    OBVIOUS
  <2>2. s \in Thread /\ s # Writer
    BY <1>1 DEF Thread
  <2>3. Holds(s)
    BY <2>1, <2>2 DEF Holds, IInv, Lines
  <2> QED
    BY <1>1, <1>2, <2>2, <2>3 DEF IInv, Lock, Exclusive, Holding
<1>4. /\ pc'[Writer] \in {"sleep", "write"}
      /\ pc'[Writer] = "sleep" <=> outgoing = <<>>
      /\ \A u \in Thread : u # Writer => pc'[u] = pc[u] /\ packet'[u] = packet[u]
    BY <1>1 DEF IInv, TypeOK
<1>5. /\ sem_outgoing' \in Semaphores(Thread) /\ Distinct(sem_outgoing)'
      /\ \A u \in Thread : Suspended(sem_outgoing, u)' =>
                             Suspended(sem_outgoing, u) /\ u # Writer
      /\ Lock'
  <2>1. GoTo(Writer, "sleep") \/ GoTo(Writer, "write")
    OBVIOUS
  <2>2. \A to \in {"sleep", "write"} : to \notin Inside(Writer) /\ to # "start"
    BY DEF Inside
  <2> QED
    BY <1>1, <1>2, <2>1, <2>2, LockPassed
<1>6. outgoing # <<>> =>
         /\ Head(outgoing) \in Packet /\ outgoing' \in Seq(Packet)
         /\ Len(outgoing') = Len(outgoing) - 1
  <2>1. SUFFICES ASSUME outgoing # <<>>
                 PROVE  /\ Head(outgoing) \in Packet /\ outgoing' \in Seq(Packet)
                        /\ Len(outgoing') = Len(outgoing) - 1
    OBVIOUS
  <2>2. outgoing \in Seq(Packet) /\ outgoing' = Tail(outgoing)
    BY <2>1 DEF IInv, TypeOK
  <2> QED
    BY <2>1, <2>2, HeadTailProperties
<1>7. packet[Writer] = None
    BY DEF IInv, Hands
<1>8. /\ outgoing = <<>> => packet' = packet /\ outgoing' = outgoing
      /\ outgoing # <<>> => packet'[Writer] = Head(outgoing)
    BY <1>1 DEF IInv, TypeOK
<1>9. TypeOK'
    BY <1>1, <1>5, <1>6 DEF IInv, TypeOK
<1>10. Places' /\ Hands'
    BY <1>1, <1>4, <1>6, <1>7, <1>8, WriterAssumption
       DEF IInv, Places, Hands, Thread
<1>11. Lines'
    BY <1>1, <1>4, <1>5 DEF IInv, Lines, Distinct
<1>12. Announced'
  <2>1. ~Suspended(sem_write_api, Writer)
    BY DEF IInv, Lines
  <2>2. pc'[Writer] = "sleep" => ~Filled'
    BY <1>1, <1>3, <1>4, <1>8 DEF Filled, Thread
  <2> QED
    BY <2>1, <2>2 DEF Announced
<1>13. Roomed' = Roomed
    BY <1>1, <1>4 DEF Roomed, Thread
<1>14. RoomKept'
  <2>1. InHand = 0 /\ UNCHANGED sem_write_buffer
    BY <1>7 DEF InHand
  <2>2. CASE outgoing = <<>>
    BY <1>8, <1>13, <2>2 DEF IInv, RoomKept
  <2>3. CASE outgoing # <<>>
    <3>1. InHand' = 1
      BY <1>6, <1>8, <2>3, WriterAssumption DEF InHand
    <3>2. /\ Len(outgoing') = Len(outgoing) - 1
          /\ Cardinality(Roomed)' = Cardinality(Roomed)
          /\ sem_write_buffer' = sem_write_buffer
      BY <1>6, <1>13, <2>1, <2>3
    <3>3. sem_write_buffer.count + Len(outgoing) + Cardinality(Roomed) + 0
             = MaxOutgoing
      BY <2>1 DEF IInv, RoomKept, InHand
    <3>4. (sem_write_buffer.count + Len(outgoing) + Cardinality(Roomed) + 1
             = MaxOutgoing)'
      BY <3>2, <3>3, Counts
    <3> QED
      BY <3>1, <3>4 DEF RoomKept, InHand
  <2> QED
    BY <2>2, <2>3
<1> QED
    BY <1>5, <1>9, <1>10, <1>11, <1>12, <1>13, <1>14 DEF IInv

(* write_process sleeps only if nothing was announced meanwhile. *)
LEMMA WriteSleepStep ==
    ASSUME IInv, WriteSleep
    PROVE  IInv'
<1> USE DEF WriteSleep, Goes, GoTo
<1>1. Writer \in Thread /\ Writer \notin Sender
    BY WriterAssumption DEF Thread
<1>2. /\ pc'[Writer] = "loop"
      /\ \A u \in Thread : u # Writer => pc'[u] = pc[u]
    BY <1>1 DEF IInv, TypeOK
<1>3. sem_write_api \in Semaphores(Thread) /\ Distinct(sem_write_api)
    BY DEF IInv, TypeOK, Lines
<1>4. /\ sem_write_api' \in Semaphores(Thread) /\ Distinct(sem_write_api)'
      /\ \A u \in Thread : Suspended(sem_write_api, u)' =>
                             Suspended(sem_write_api, u) \/ u = Writer
    BY <1>1, <1>3, GetLine DEF Semaphores
<1>5. TypeOK'
    BY <1>1, <1>4 DEF IInv, TypeOK
<1>6. Places' /\ Hands'
    BY <1>1, <1>2 DEF IInv, Places, Hands, Thread
<1>7. Lines'
    BY <1>1, <1>2, <1>4 DEF IInv, Lines, Distinct
<1>8. Lock'
    BY <1>1, LockKept DEF Inside
<1>9. Announced'
  <2>1. Filled' => Filled
    BY <1>1, <1>2 DEF Filled, Thread
  <2>2. Filled => ~Suspended(sem_write_api', Writer)
    BY <1>1, <1>3, GetLine DEF IInv, Announced
  <2> QED
    BY <1>2, <2>1, <2>2 DEF Announced
<1>10. Roomed' = Roomed
    BY <1>1, <1>2 DEF Roomed, Thread
<1> QED
    BY <1>5, <1>6, <1>7, <1>8, <1>9, <1>10 DEF IInv, RoomKept

(* A packet that was not written whole needs the lock again. *)
LEMMA WriteShortStep ==
    ASSUME IInv, WriteShort
    PROVE  IInv'
<1> USE DEF WriteShort, Goes, GoTo
<1>1. Writer \in Thread /\ Writer \notin Sender
    BY WriterAssumption DEF Thread
<1>2. /\ pc'[Writer] = "requeue"
      /\ \A u \in Thread : u # Writer => pc'[u] = pc[u]
    BY <1>1 DEF IInv, TypeOK
<1>3. ~Holds(Writer)
    BY DEF Holds
<1>4. /\ sem_outgoing' \in Semaphores(Thread) /\ Distinct(sem_outgoing)'
      /\ \A u \in Thread : Suspended(sem_outgoing, u)' =>
                             Suspended(sem_outgoing, u) \/ u = Writer
      /\ Lock'
    BY <1>1, <1>3, LockAsked DEF Inside
<1>5. short' \in 0 .. MaxShort
    BY WriterAssumption DEF IInv, TypeOK
<1>6. TypeOK'
    BY <1>1, <1>4, <1>5 DEF IInv, TypeOK
<1>7. Places' /\ Hands'
    BY <1>1, <1>2 DEF IInv, Places, Hands, Thread
<1>8. Lines'
    BY <1>1, <1>2, <1>4 DEF IInv, Lines, Distinct
<1>9. Announced'
    BY <1>1, <1>2 DEF IInv, Announced, Filled, Thread
<1>10. Roomed' = Roomed
    BY <1>1, <1>2 DEF Roomed, Thread
<1> QED
    BY <1>4, <1>6, <1>7, <1>8, <1>9, <1>10 DEF IInv, RoomKept

(* It goes back with its room. *)
LEMMA WriteRequeueStep ==
    ASSUME IInv, WriteRequeue
    PROVE  IInv'
<1> USE DEF WriteRequeue, Goes, GoTo
<1>1. Writer \in Thread /\ Writer \notin Sender
    BY WriterAssumption DEF Thread
<1>2. /\ pc'[Writer] = "loop" /\ packet'[Writer] = None
      /\ \A u \in Thread : u # Writer => pc'[u] = pc[u] /\ packet'[u] = packet[u]
    BY <1>1 DEF IInv, TypeOK
<1>3. packet[Writer] \in Packet
    BY <1>1 DEF IInv, TypeOK, Hands
<1>4. Holds(Writer)
    BY DEF Holds
<1>5. /\ sem_outgoing' \in Semaphores(Thread) /\ Distinct(sem_outgoing)'
      /\ \A u \in Thread : Suspended(sem_outgoing, u)' =>
                             Suspended(sem_outgoing, u) /\ u # Writer
      /\ Lock'
    BY <1>1, <1>4, LockPassed DEF Inside
<1>6. /\ outgoing' \in Seq(Packet)
      /\ Len(outgoing') = Len(outgoing) + 1
  <2>1. <<packet[Writer]>> \in Seq(Packet) /\ Len(<<packet[Writer]>>) = 1
    BY <1>3
  <2>2. outgoing \in Seq(Packet) /\ Len(outgoing) \in Nat
    BY LenProperties DEF IInv, TypeOK
  <2> QED
    BY <2>1, <2>2, ConcatProperties
<1>7. TypeOK'
    BY <1>1, <1>5, <1>6 DEF IInv, TypeOK
<1>8. Places' /\ Hands'
    BY <1>1, <1>2 DEF IInv, Places, Hands, Thread
<1>9. Lines'
    BY <1>1, <1>2, <1>5 DEF IInv, Lines, Distinct
<1>10. Announced'
    BY <1>1, <1>2 DEF IInv, Announced, Lines
<1>11. Roomed' = Roomed
    BY <1>1, <1>2 DEF Roomed, Thread
<1>12. RoomKept'
  <2>1. InHand = 1 /\ InHand' = 0
    BY <1>2, <1>3, WriterAssumption DEF InHand
  <2> QED
    BY <1>6, <1>11, <2>1, Counts DEF IInv, RoomKept, InHand
<1> QED
    BY <1>5, <1>7, <1>8, <1>9, <1>10, <1>11, <1>12 DEF IInv

-----------------------------------------------------------------------------
(* Before write_process has run, nobody can take the lock. *)
LEMMA InitIInv == Init => IInv
<1> SUFFICES ASSUME Init
             PROVE  IInv
    OBVIOUS
<1>1. Writer \in Thread /\ Writer \notin Sender /\ MaxOutgoing \in Nat
    BY WriterAssumption DEF Thread
<1>2. /\ sem_outgoing = [count |-> 0, waits |-> <<>>]
      /\ sem_write_api = [count |-> 0, waits |-> <<>>]
      /\ sem_write_buffer = [count |-> MaxOutgoing, waits |-> <<>>]
    BY DEF Init, NewSemaphore
<1>3. /\ pc[Writer] = "start" /\ packet[Writer] = None
      /\ \A s \in Sender : pc[s] = "idle" /\ s # Writer
    BY <1>1 DEF Init, Thread
<1>4. \A u : /\ ~Suspended(sem_outgoing, u) /\ ~Suspended(sem_write_api, u)
             /\ ~Suspended(sem_write_buffer, u)
    BY <1>2 DEF Suspended
<1>5. TypeOK
  <2>1. /\ sem_outgoing \in Semaphores(Thread)
        /\ sem_write_api \in Semaphores(Thread)
        /\ sem_write_buffer \in Semaphores(Thread)
    BY <1>1, <1>2 DEF Semaphores
  <2>2. pc \in [Thread -> {"start", "idle", "room", "locked", "push", "loop",
                           "sleep", "write", "requeue"}]
    BY DEF Init
  <2> QED
    BY <2>1, <2>2, WriterAssumption DEF Init, TypeOK
<1>6. Places /\ Hands
    BY <1>3 DEF Places, Hands
<1>7. Lines
    BY <1>2, <1>4 DEF Lines, Distinct
<1>8. Lock
  <2>1. Holding = {}
    BY <1>3 DEF Holding, Holds, Thread
  <2> QED
    BY <1>2, <2>1 DEF Lock, Exclusive
<1>9. Announced
    BY <1>3, <1>4 DEF Announced
<1>10. Roomed = {} /\ IsFiniteSet(Roomed) /\ Cardinality(Roomed) = 0
    BY <1>3, FS_EmptySet DEF Roomed
<1>11. RoomKept
    BY <1>1, <1>2, <1>3, <1>10 DEF RoomKept, Init
<1> QED
    BY <1>5, <1>6, <1>7, <1>8, <1>9, <1>10, <1>11 DEF IInv

(* Every step keeps the invariant. *)
LEMMA IInvInductive == IInv /\ [Next]_vars => IInv'
<1> SUFFICES ASSUME IInv, [Next]_vars
             PROVE  IInv'
    OBVIOUS
<1>1. ASSUME NEW s \in Sender, Sends(s)
      PROVE  IInv'
    BY <1>1, SendGetLockStep, SendNotifyStep, SendPushStep DEF Sends
<1>2. ASSUME NEW s \in Sender, NEW p \in Packet, SendGetRoom(s, p)
      PROVE  IInv'
    BY <1>2, SendGetRoomStep
<1>3. CASE Writes
    BY <1>3, WriteStartStep, WriteGetLockStep, WriteLookStep, WriteSleepStep,
       WriteAllStep, WriteRequeueStep DEF Writes
<1>4. CASE WriteShort
    BY <1>4, WriteShortStep
<1>5. CASE UNCHANGED vars
    BY <1>5 DEF vars, sems, IInv, TypeOK, Places, Hands, Lines, Distinct, Lock,
       Exclusive, Holding, Holds, Announced, Filled, Roomed, RoomKept
<1> QED
    BY <1>1, <1>2, <1>3, <1>4, <1>5 DEF Next

(* The invariant holds throughout. *)
LEMMA IInvHolds == Spec => []IInv
    BY InitIInv, IInvInductive, PTL DEF Spec

-----------------------------------------------------------------------------
(* One thread at a time works on the deque, though its lock is a semaphore  *)
(* that write_process gives first and every user gives back.                *)
THEOREM ExclusiveHolds == Spec => []Exclusive
<1>1. IInv => Exclusive
    BY DEF IInv, Lock
<1> QED
    BY <1>1, IInvHolds, PTL

(* Room is neither lost nor made up by sends, by writes and by writes that  *)
(* are left incomplete, so the deque never outgrows max_outgoing_packets.   *)
THEOREM RoomKeptHolds == Spec => []RoomKept
<1>1. IInv => RoomKept
    BY DEF IInv
<1> QED
    BY <1>1, IInvHolds, PTL

(* write_process does not sleep while packets lie on the deque, although it *)
(* is woken only for the first and before that is there.                    *)
THEOREM NotAsleepHolds == Spec => []NotAsleep
<1>1. IInv => NotAsleep
    BY DEF IInv, Announced, Filled, NotAsleep
<1> QED
    BY <1>1, IInvHolds, PTL

-----------------------------------------------------------------------------
(* The packet layer is a bounded queue. *)

(* With nothing in the writer's hand the kept packets are the deque. *)
LEMMA KeptIs ==
    ASSUME IInv
    PROVE  /\ packet[Writer] = None => Kept = outgoing
           /\ packet[Writer] # None => Kept = <<packet[Writer]>> \o outgoing
           /\ Kept \in Seq(Packet)
           /\ Len(Kept) = InHand + Len(outgoing)
<1>1. outgoing \in Seq(Packet) /\ Writer \in Thread
    BY DEF IInv, TypeOK, Thread
<1>2. <<>> \o outgoing = outgoing
    BY <1>1
<1>3. CASE packet[Writer] = None
    BY <1>1, <1>2, <1>3 DEF Kept, InHand
<1>4. CASE packet[Writer] # None
  <2>1. packet[Writer] \in Packet
    BY <1>1, <1>4 DEF IInv, TypeOK
  <2> QED
    BY <1>1, <1>4, <2>1, ConcatProperties DEF Kept, InHand
<1> QED
    BY <1>3, <1>4

(* A packet that is appended is kept last; the next that leaves is first.   *)
LEMMA ConcatOne ==
    ASSUME NEW p, NEW q \in Seq(Packet), p \in Packet
    PROVE  /\ <<p>> \o q # <<>>
           /\ Head(<<p>> \o q) = p /\ Tail(<<p>> \o q) = q
           /\ \A r \in Packet : <<p>> \o Append(q, r) = Append(<<p>> \o q, r)
<1>1. PICK n \in Nat : n = Len(q) /\ DOMAIN q = 1 .. n
    BY LenProperties
<1>2. PICK w : w = <<p>> \o q
    OBVIOUS
<1>3. <<p>> \in Seq(Packet) /\ Len(<<p>>) = 1 /\ <<p>>[1] = p
    OBVIOUS
<1>4. /\ w \in Seq(Packet) /\ Len(w) = n + 1
      /\ w[1] = p /\ \A i \in 1 .. n : w[i + 1] = q[i]
    BY <1>1, <1>2, <1>3, ConcatProperties
<1>5. w # <<>> /\ Head(w) = p
    BY <1>1, <1>4
<1>6. Tail(w) = q
  <2>1. Tail(w) \in Seq(Packet) /\ Len(Tail(w)) = n
    BY <1>1, <1>4, <1>5, HeadTailProperties
  <2>2. \A i \in 1 .. n : Tail(w)[i] = q[i]
    BY <1>1, <1>4, <1>5, HeadTailProperties
  <2> QED
    BY <1>1, <2>1, <2>2, SeqEqual
<1>7. ASSUME NEW r \in Packet
      PROVE  <<p>> \o Append(q, r) = Append(w, r)
  <2>1. PICK a : a = Append(q, r)
    OBVIOUS
  <2>2. /\ a \in Seq(Packet) /\ Len(a) = n + 1 /\ a[n + 1] = r
        /\ \A i \in 1 .. n : a[i] = q[i]
    BY <1>1, <2>1, AppendProperties
  <2>3. PICK b : b = <<p>> \o a
    OBVIOUS
  <2>4. /\ b \in Seq(Packet) /\ Len(b) = n + 2
        /\ b[1] = p /\ \A i \in 1 .. n + 1 : b[i + 1] = a[i]
    BY <1>1, <1>3, <2>2, <2>3, ConcatProperties
  <2>5. /\ Append(w, r) \in Seq(Packet) /\ Len(Append(w, r)) = n + 2
        /\ Append(w, r)[n + 2] = r
        /\ \A i \in 1 .. n + 1 : Append(w, r)[i] = w[i]
    BY <1>1, <1>4, AppendProperties
  <2>6. \A i \in 1 .. n + 2 : b[i] = Append(w, r)[i]
    <3>1. ASSUME NEW i \in 1 .. n + 2
          PROVE  b[i] = Append(w, r)[i]
      <4>1. CASE i = 1
        BY <1>1, <1>4, <2>4, <2>5, <4>1
      <4>2. CASE i # 1 /\ i # n + 2
        <5>1. i - 1 \in 1 .. n /\ i - 1 \in 1 .. n + 1 /\ i \in 1 .. n + 1
              /\ i = (i - 1) + 1
          BY <1>1, <4>2
        <5>2. PICK k \in 1 .. n : k = i - 1
          BY <5>1
        <5>3. b[i] = a[k] /\ a[k] = q[k]
          BY <2>2, <2>4, <5>1, <5>2
        <5>4. Append(w, r)[i] = w[i] /\ w[i] = q[k]
          BY <1>4, <2>5, <5>1, <5>2
        <5> QED
          BY <5>3, <5>4
      <4>3. CASE i = n + 2
        <5>1. n + 1 \in 1 .. n + 1 /\ (n + 1) + 1 = i
          BY <1>1, <4>3
        <5> QED
          BY <2>2, <2>4, <2>5, <4>3, <5>1
      <4> QED
        BY <4>1, <4>2, <4>3
    <3> QED
      BY <3>1
  <2> QED
    BY <1>1, <2>1, <2>3, <2>4, <2>5, <2>6, SeqEqual
<1> QED
    BY <1>2, <1>5, <1>6, <1>7

(* The head before the tail is all of it. *)
LEMMA HeadTailConcat ==
    ASSUME outgoing \in Seq(Packet), outgoing # <<>>
    PROVE  /\ Head(outgoing) \in Packet
           /\ <<Head(outgoing)>> \o Tail(outgoing) = outgoing
<1>1. PICK h, q : h = Head(outgoing) /\ q = Tail(outgoing)
    OBVIOUS
<1>2. PICK n \in Nat : n = Len(outgoing) /\ DOMAIN outgoing = 1 .. n /\ n > 0
    BY LenProperties, EmptySeq
<1>3. /\ h \in Packet /\ h = outgoing[1]
      /\ q \in Seq(Packet) /\ Len(q) = n - 1
      /\ \A i \in 1 .. n - 1 : q[i] = outgoing[i + 1]
    BY <1>1, <1>2, HeadTailProperties
<1>4. PICK w : w = <<h>> \o q
    OBVIOUS
<1>5. <<h>> \in Seq(Packet) /\ Len(<<h>>) = 1 /\ <<h>>[1] = h
    BY <1>3
<1>6. /\ w \in Seq(Packet) /\ Len(w) = n
      /\ \A i \in 1 .. n : w[i] = IF i <= 1 THEN h ELSE q[i - 1]
    BY <1>2, <1>3, <1>4, <1>5, ConcatProperties
<1>7. ASSUME NEW i \in 1 .. n
      PROVE  w[i] = outgoing[i]
  <2>1. CASE i = 1
      BY <1>3, <1>6, <2>1
  <2>2. CASE i # 1
    <3>1. PICK k \in 1 .. n - 1 : k = i - 1 /\ k + 1 = i
        BY <1>2, <2>2
    <3>2. w[i] = q[k]
        BY <1>6, <2>2, <3>1
    <3>3. q[k] = outgoing[i]
        BY <1>3, <3>1
    <3> QED
        BY <3>2, <3>3
  <2> QED
      BY <2>1, <2>2
<1>8. w = outgoing
    BY <1>2, <1>6, <1>7, SeqEqual
<1> QED
    BY <1>1, <1>3, <1>4, <1>8

(* Every step is a step of the queue or leaves it alone. *)
LEMMA StepRefines ==
    ASSUME IInv, IInv', [Next]_vars
    PROVE  [Queue!Next]_(Queue!vars)
<1> USE DEF Queue!vars, Goes, GoTo
<1>1. /\ outgoing \in Seq(Packet) /\ Writer \in Thread /\ Writer \notin Sender
      /\ packet \in [Thread -> Packet \cup {None}] /\ None \notin Packet
    BY WriterAssumption DEF IInv, TypeOK, Thread
<1>2. ASSUME UNCHANGED <<packet[Writer], outgoing, written>>
      PROVE  UNCHANGED Queue!vars
    BY <1>2 DEF Kept
<1>3. ASSUME NEW s \in Sender, SendPush(s)
      PROVE  Queue!Next
  <2>1. s \in Thread /\ s # Writer
    BY <1>1 DEF Thread
  <2>2. packet[s] \in Packet
    BY <1>1, <1>3, <2>1 DEF SendPush, IInv, Hands
  <2>3. packet'[Writer] = packet[Writer] /\ outgoing' = Append(outgoing, packet[s])
    BY <1>1, <1>3, <2>1 DEF SendPush
  <2>4. Len(Kept) < MaxOutgoing
    <3>1. s \in Roomed
      BY <1>3 DEF SendPush, Roomed, IInv, Lines, Thread
    <3>2. Cardinality(Roomed) # 0
      BY <3>1, FS_EmptySet DEF IInv
    <3>3. sem_write_buffer.count + Len(outgoing) + Cardinality(Roomed) + InHand
            = MaxOutgoing
      BY DEF IInv, RoomKept, InHand
    <3> QED
      BY <3>2, <3>3, Counts, KeptIs
  <2>5. Kept' = Append(Kept, packet[s])
    <3>1. CASE packet[Writer] = None
      BY <2>3, <3>1, KeptIs DEF Kept
    <3>2. CASE packet[Writer] # None
      <4>1. packet[Writer] \in Packet
        BY <1>1, <3>2
      <4>2. Kept' = <<packet[Writer]>> \o Append(outgoing, packet[s])
        BY <2>3, <3>2 DEF Kept
      <4> QED
        BY <1>1, <2>2, <3>2, <4>1, <4>2, ConcatOne, KeptIs
    <3> QED
      BY <3>1, <3>2
  <2> QED
    BY <1>3, <2>2, <2>4, <2>5 DEF SendPush, Queue!Next, Queue!TakeOver
<1>4. CASE WriteLook
  <2>1. packet[Writer] = None /\ written' = written
    BY <1>4 DEF WriteLook, IInv, Hands
  <2>2. CASE outgoing = <<>>
    BY <1>2, <1>4, <2>1, <2>2 DEF WriteLook
  <2>3. CASE outgoing # <<>>
    <3>1. packet'[Writer] = Head(outgoing) /\ outgoing' = Tail(outgoing)
      BY <1>1, <1>4, <2>3 DEF WriteLook
    <3>2. /\ Head(outgoing) \in Packet
          /\ <<Head(outgoing)>> \o Tail(outgoing) = outgoing
      BY <1>1, <2>3, HeadTailConcat
    <3>3. Kept' = outgoing
      BY <1>1, <3>1, <3>2 DEF Kept
    <3> QED
      BY <2>1, <3>3, KeptIs
  <2> QED
    BY <2>2, <2>3
<1>5. CASE WriteAll
  <2>1. packet[Writer] \in Packet
    BY <1>1, <1>5 DEF WriteAll, IInv, Hands
  <2>2. /\ packet'[Writer] = None /\ outgoing' = outgoing
        /\ written' = Append(written, packet[Writer])
    BY <1>1, <1>5 DEF WriteAll
  <2>3. Kept = <<packet[Writer]>> \o outgoing
    BY <1>1, <2>1, KeptIs
  <2>4. Kept # <<>> /\ Head(Kept) = packet[Writer] /\ Tail(Kept) = outgoing
    BY <1>1, <2>1, <2>3, ConcatOne
  <2>5. Kept' = outgoing
    BY <1>1, <2>2, ConcatEmptySeq DEF Kept
  <2> QED
    BY <2>2, <2>4, <2>5 DEF Queue!Next, Queue!Write
<1>6. CASE WriteRequeue
  <2>1. packet[Writer] # None
    BY <1>6 DEF WriteRequeue, IInv, Hands
  <2>2. /\ packet'[Writer] = None /\ written' = written
        /\ outgoing' = <<packet[Writer]>> \o outgoing
    BY <1>1, <1>6 DEF WriteRequeue
  <2>3. outgoing' \in Seq(Packet)
    BY DEF IInv, TypeOK
  <2>4. Kept' = outgoing'
    BY <2>2, <2>3, ConcatEmptySeq DEF Kept
  <2> QED
    BY <2>1, <2>2, <2>4, KeptIs
<1>7. ASSUME NEW s \in Sender, SendGetLock(s) \/ SendNotify(s)
      PROVE  UNCHANGED Queue!vars
    BY <1>2, <1>7 DEF SendGetLock, SendNotify
<1>8. ASSUME NEW s \in Sender, NEW p \in Packet, SendGetRoom(s, p)
      PROVE  UNCHANGED Queue!vars
  <2>1. packet'[Writer] = packet[Writer]
    BY <1>1, <1>8 DEF SendGetRoom, Thread
  <2> QED
    BY <1>2, <1>8, <2>1 DEF SendGetRoom
<1>9. CASE WriteStart \/ WriteGetLock \/ WriteSleep \/ WriteShort
    BY <1>2, <1>9 DEF WriteStart, WriteGetLock, WriteSleep, WriteShort
<1>10. CASE UNCHANGED vars
    BY <1>2, <1>10 DEF vars
<1> QED
    BY <1>3, <1>4, <1>5, <1>6, <1>7, <1>8, <1>9, <1>10 DEF Next, Sends, Writes

(* Packets leave in the order in which send() took them over, each once,    *)
(* and no more than max_outgoing_packets are kept.                          *)
THEOREM WriterKeepsOrder == Spec => KeepsOrder
<1>1. Init => Queue!Init
    BY WriterAssumption DEF Init, Queue!Init, Kept, Thread
<1>2. IInv /\ IInv' /\ [Next]_vars => [Queue!Next]_(Queue!vars)
    BY StepRefines
<1> QED
    BY <1>1, <1>2, IInvHolds, PTL DEF Spec, KeepsOrder, Queue!Spec
=============================================================================
