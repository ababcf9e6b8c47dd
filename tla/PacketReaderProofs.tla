-------------------------- MODULE PacketReaderProofs --------------------------
(* The deque of the receiving half of spi_pkt_slave holds the last packets  *)
(* that were accepted, recv() is told of them, and without losses they are  *)
(* the packets the host sent: for packets, filler and a deque of any size.  *)
EXTENDS PacketReader, SequenceTheorems, TLAPS

-----------------------------------------------------------------------------
(* s ends t: seen from the back they agree. *)
EndsIn(t, s) ==
    /\ Len(s) <= Len(t)
    /\ \A i \in 1 .. Len(s) : s[Len(s) + 1 - i] = t[Len(t) + 1 - i]

(* That is what a suffix is. *)
LEMMA EndsInIsSuffix ==
    ASSUME NEW S, NEW s \in Seq(S), NEW t \in Seq(S), EndsIn(t, s)
    PROVE  IsSuffix(s, t)
<1>1. PICK m \in Nat, n \in Nat : m = Len(s) /\ n = Len(t) /\ m <= n
    BY LenProperties DEF EndsIn
<1>2. Reverse(s) = [i \in 1 .. m |-> s[m - i + 1]]
    BY <1>1 DEF Reverse
<1>3. Reverse(t) = [i \in 1 .. n |-> t[n - i + 1]]
    BY <1>1 DEF Reverse
<1>4. Len(Reverse(s)) = m /\ Len(Reverse(t)) = n
    BY <1>1, <1>2, <1>3
<1>5. ASSUME NEW i \in 1 .. m
      PROVE  s[m - i + 1] = t[n - i + 1]
  <2>1. s[m + 1 - i] = t[n + 1 - i]
    BY <1>1 DEF EndsIn
  <2>2. m + 1 - i = m - i + 1 /\ n + 1 - i = n - i + 1
    BY <1>1, <1>5
  <2> QED
    BY <2>1, <2>2
<1>6. SubSeq(Reverse(s), 1, m) = [i \in 1 .. m |-> s[m - i + 1]]
    BY <1>1, <1>2
<1>7. SubSeq(Reverse(t), 1, m) = [i \in 1 .. m |-> t[n - i + 1]]
    BY <1>1, <1>3
<1>8. SubSeq(Reverse(s), 1, m) = SubSeq(Reverse(t), 1, m)
    BY <1>5, <1>6, <1>7, Zenon
<1> QED
    BY <1>1, <1>4, <1>8 DEF IsSuffix, IsPrefix

(* One more at the back of both. *)
LEMMA EndsInAppend ==
    ASSUME NEW S, NEW s \in Seq(S), NEW t \in Seq(S), NEW x \in S, EndsIn(t, s)
    PROVE  EndsIn(Append(t, x), Append(s, x))
<1>1. PICK m \in Nat, n \in Nat : m = Len(s) /\ n = Len(t) /\ m <= n
    BY LenProperties DEF EndsIn
<1>2. /\ Len(Append(s, x)) = m + 1 /\ Append(s, x)[m + 1] = x
      /\ \A i \in 1 .. m : Append(s, x)[i] = s[i]
    BY <1>1, AppendProperties
<1>3. /\ Len(Append(t, x)) = n + 1 /\ Append(t, x)[n + 1] = x
      /\ \A i \in 1 .. n : Append(t, x)[i] = t[i]
    BY <1>1, AppendProperties
<1>4. ASSUME NEW i \in 1 .. m + 1
      PROVE  Append(s, x)[m + 2 - i] = Append(t, x)[n + 2 - i]
  <2>1. CASE i = 1
    <3>1. m + 2 - i = m + 1 /\ n + 2 - i = n + 1
      BY <1>1, <2>1
    <3> QED
      BY <1>2, <1>3, <3>1
  <2>2. CASE i # 1
    <3>1. PICK j \in 1 .. m : j = i - 1
      BY <1>1, <2>2
    <3>2. m + 2 - i = m + 1 - j /\ n + 2 - i = n + 1 - j
      BY <1>1, <3>1
    <3>3. m + 1 - j \in 1 .. m /\ n + 1 - j \in 1 .. n
      BY <1>1, <3>1
    <3>4. s[m + 1 - j] = t[n + 1 - j]
      BY <1>1, <3>1 DEF EndsIn
    <3> QED
      BY <1>2, <1>3, <3>2, <3>3, <3>4
  <2> QED
    BY <2>1, <2>2
<1> QED
    BY <1>1, <1>2, <1>3, <1>4 DEF EndsIn

(* One less at the front of the suffix. *)
LEMMA EndsInTail ==
    ASSUME NEW S, NEW s \in Seq(S), NEW t \in Seq(S), s # <<>>, EndsIn(t, s)
    PROVE  EndsIn(t, Tail(s))
<1>1. PICK m \in Nat, n \in Nat : m = Len(s) /\ n = Len(t) /\ m <= n /\ m > 0
    BY LenProperties, EmptySeq DEF EndsIn
<1>2. Len(Tail(s)) = m - 1 /\ \A i \in 1 .. m - 1 : Tail(s)[i] = s[i + 1]
    BY <1>1, HeadTailProperties
<1>3. ASSUME NEW i \in 1 .. m - 1
      PROVE  Tail(s)[m - i] = t[n + 1 - i]
  <2>1. m - i \in 1 .. m - 1 /\ (m - i) + 1 = m + 1 - i /\ i \in 1 .. m
    BY <1>1, <1>3
  <2>2. s[m + 1 - i] = t[n + 1 - i]
    BY <1>1, <2>1 DEF EndsIn
  <2> QED
    BY <1>2, <2>1, <2>2
<1> QED
    BY <1>1, <1>2, <1>3 DEF EndsIn

-----------------------------------------------------------------------------
(* The inductive invariant. *)

(* The types. *)
Typed ==
    /\ pc \in [Thread -> {"init", "start", "size", "body", "locked", "notify",
                          "idle", "told", "release"}]
    /\ wire \in Seq(Byte) /\ size \in Nat /\ hand \in Seq(Byte)
    /\ incoming \in Seq(Seq(Byte)) /\ accepted \in Seq(Seq(Byte))

(* What read_process is about to put there is what it accepted last. *)
InHand ==
    pc[Reader] = "locked" =>
        accepted # <<>> /\ hand = accepted[Len(accepted)]

(* The deque holds the last packets of those put there. *)
Newest == EndsIn(Pushed, incoming)

(* The semaphore that tells recv(): only it waits for it. *)
Telling ==
    /\ sem_read_api \in [count : Nat, waits : {<<>>, <<Receiver>>}]
    /\ sem_read_api.waits # <<>> =>
          sem_read_api.count = 0 /\ pc[Receiver] = "told"

(* Before it waits, and while it does, recv() is told of what is there.     *)
ToldOf ==
    (/\ incoming # <<>> /\ pc[Reader] # "notify"
     /\ pc[Receiver] \in {"idle", "release"} \/ sem_read_api.waits # <<>>)
        => sem_read_api.count > 0

(* All of it. *)
IInv == Typed /\ InHand /\ Newest /\ Telling /\ ToldOf

(* The two threads are two. *)
LEMMA Threads == Reader \in Thread /\ Receiver \in Thread /\ Reader # Receiver
BY ReaderAssumption DEF Thread

(* It holds at first, ... *)
LEMMA InitIInv == Init => IInv
<1> SUFFICES ASSUME Init
             PROVE  IInv
    OBVIOUS
<1>1. /\ wire = <<>> /\ size = 0 /\ hand = <<>> /\ incoming = <<>>
      /\ accepted = <<>> /\ sem_read_api = [count |-> 0, waits |-> <<>>]
      /\ pc = [t \in Thread |-> IF t = Reader THEN "init" ELSE "idle"]
    BY DEF Init, NewSemaphore
<1>2. pc[Reader] = "init"
    BY <1>1, Threads
<1>3. Typed
    BY <1>1, Threads DEF Typed
<1>4. Newest
    BY <1>1, <1>2 DEF Newest, Pushed, EndsIn
<1> QED
    BY <1>1, <1>2, <1>3, <1>4 DEF IInv, InHand, Telling, ToldOf

(* What the host puts on the line is bytes. *)
LEMMA LineStep ==
    ASSUME IInv, Line
    PROVE  IInv'
<1>1. UNCHANGED <<pc, size, hand, incoming, accepted, sem_read_api>>
    BY DEF Line, HostSends, HostFills, ByteLost, sems
<1>2. wire' \in Seq(Byte)
  <2>1. ASSUME NEW d \in Packet, HostSends(d)
        PROVE  wire' \in Seq(Byte)
    <3>1. d \in Seq(Byte) /\ Len(d) \in Byte /\ Start \in Byte /\ Stop \in Byte
      BY ReaderAssumption
    <3>2. Frame(d) \in Seq(Byte)
      <4>1. <<Start, Len(d)>> \in Seq(Byte) /\ <<Stop>> \in Seq(Byte)
        BY <3>1
      <4>2. <<Start, Len(d)>> \o d \in Seq(Byte)
        BY <3>1, <4>1, ConcatProperties
      <4> QED
        BY <4>1, <4>2, ConcatProperties DEF Frame
    <3> QED
      BY <2>1, <3>2, ConcatProperties DEF HostSends, IInv, Typed
  <2>2. ASSUME NEW x \in Byte, HostFills(x)
        PROVE  wire' \in Seq(Byte)
    BY <2>2, AppendProperties DEF HostFills, IInv, Typed
  <2>3. ASSUME NEW i \in DOMAIN wire, ByteLost(i)
        PROVE  wire' \in Seq(Byte)
    <3>1. wire \in Seq(Byte) /\ i \in 1 .. Len(wire) /\ Len(wire) \in Nat
      BY LenProperties DEF IInv, Typed
    <3>2. \A j \in 1 .. Len(wire) : wire[j] \in Byte
      BY <3>1, ElementOfSeq
    <3>3. SubSeq(wire, 1, i - 1) \in Seq(Byte)
      BY <3>1, <3>2, SubSeqProperties
    <3>4. SubSeq(wire, i + 1, Len(wire)) \in Seq(Byte)
      BY <3>1, <3>2, SubSeqProperties
    <3> QED
      BY <2>3, <3>3, <3>4, ConcatProperties DEF ByteLost, RemoveAt
  <2> QED
    BY <2>1, <2>2, <2>3 DEF Line
<1>3. Typed'
    BY <1>1, <1>2 DEF IInv, Typed
<1> QED
    BY <1>1, <1>3 DEF IInv, InHand, Newest, Pushed, Telling, ToldOf

(* The steps of a thread that only move it, with the line or without.       *)
LEMMA QuietStep ==
    ASSUME IInv, NEW t \in Thread, NEW to,
           \/ t = Reader /\ pc[Reader] \in {"init", "start", "size"}
                         /\ to \in {"start", "size", "body"}
           \/ t = Receiver /\ pc[Receiver] = "told" /\ to = "locked"
                           /\ sem_read_api.waits = <<>>
           \/ t = Receiver /\ pc[Receiver] = "locked" /\ to = "idle"
                           /\ incoming = <<>>
           \/ t = Receiver /\ pc[Receiver] = "release" /\ to = "idle",
           pc' = [pc EXCEPT ![t] = to],
           wire' \in Seq(Byte), size' \in Nat,
           UNCHANGED <<hand, incoming, accepted, sem_read_api>>
    PROVE  IInv'
<1>1. Typed'
    BY DEF IInv, Typed
<1>2. pc'[Reader] = "locked" <=> pc[Reader] = "locked"
    BY Threads DEF IInv, Typed
<1>3. InHand' /\ Newest'
    BY <1>2 DEF IInv, InHand, Newest, Pushed
<1>4. Telling' /\ ToldOf'
    BY Threads DEF IInv, Typed, Telling, ToldOf
<1> QED
    BY <1>1, <1>3, <1>4 DEF IInv

(* A packet that is accepted is not yet one of those put there. *)
LEMMA ReadBodyStep ==
    ASSUME IInv, ReadBody
    PROVE  IInv'
<1>1. /\ pc[Reader] = "body" /\ Len(wire) >= size + 1
      /\ UNCHANGED <<size, incoming, sem_read_api>>
    BY DEF ReadBody, Goes
<1>2. /\ wire \in Seq(Byte) /\ Len(wire) \in Nat /\ size \in Nat
      /\ \A j \in 1 .. Len(wire) : wire[j] \in Byte
    BY LenProperties, ElementOfSeq DEF IInv, Typed
<1>3. wire' \in Seq(Byte)
  <2>1. SubSeq(wire, size + 2, Len(wire)) \in Seq(Byte)
    BY <1>1, <1>2, SubSeqProperties
  <2> QED
    BY <2>1 DEF ReadBody
<1>4. CASE wire[size + 1] # Stop
  <2>1. UNCHANGED <<hand, accepted>> /\ pc' = [pc EXCEPT ![Reader] = "start"]
    BY <1>4 DEF ReadBody, GoTo
  <2>2. pc'[Reader] = "start" /\ pc'[Receiver] = pc[Receiver]
    BY <2>1, Threads DEF IInv, Typed
  <2>3. Typed'
    BY <1>1, <1>3, <2>1 DEF IInv, Typed
  <2> QED
    BY <1>1, <2>1, <2>2, <2>3
       DEF IInv, InHand, Newest, Pushed, Telling, ToldOf
<1>5. CASE wire[size + 1] = Stop
  <2>1. PICK h : h = SubSeq(wire, 1, size)
    OBVIOUS
  <2>2. hand' = h /\ accepted' = Append(accepted, h)
        /\ pc' = [pc EXCEPT ![Reader] = "locked"]
    BY <1>5, <2>1 DEF ReadBody, GoTo
  <2>3. h \in Seq(Byte)
    BY <1>1, <1>2, <2>1, SubSeqProperties
  <2>4. /\ accepted \in Seq(Seq(Byte)) /\ accepted' \in Seq(Seq(Byte))
        /\ Len(accepted') = Len(accepted) + 1 /\ Len(accepted) \in Nat
        /\ accepted'[Len(accepted) + 1] = h
        /\ \A i \in 1 .. Len(accepted) : accepted'[i] = accepted[i]
    BY <2>2, <2>3, AppendProperties, LenProperties DEF IInv, Typed
  <2>5. pc'[Reader] = "locked" /\ pc'[Receiver] = pc[Receiver]
    BY <2>2, Threads DEF IInv, Typed
  <2>6. Typed'
    BY <1>1, <1>3, <2>2, <2>3, <2>4 DEF IInv, Typed
  <2>7. Pushed' = Pushed
    <3>1. Pushed = accepted /\ Pushed' = Front(accepted')
      BY <1>1, <2>5 DEF Pushed
    <3>2. Front(accepted') = SubSeq(accepted', 1, Len(accepted))
      BY <2>4 DEF Front
    <3>3. SubSeq(accepted', 1, Len(accepted)) = accepted
      BY <2>4
    <3> QED
      BY <3>1, <3>2, <3>3
  <2>8. InHand'
    <3>1. accepted' # <<>>
      BY <2>4, EmptySeq
    <3> QED
      BY <2>2, <2>4, <3>1 DEF InHand
  <2> QED
    BY <1>1, <2>5, <2>6, <2>7, <2>8 DEF IInv, Newest, Telling, ToldOf
<1> QED
    BY <1>4, <1>5 DEF ReadBody

(* It is put behind the others, of which the oldest gives way. *)
LEMMA ReadPushStep ==
    ASSUME IInv, ReadPush
    PROVE  IInv'
<1>1. /\ pc[Reader] = "locked" /\ pc' = [pc EXCEPT ![Reader] = "notify"]
      /\ UNCHANGED <<wire, size, hand, accepted, sem_read_api>>
    BY DEF ReadPush, Goes, GoTo, history
<1>2. pc'[Reader] = "notify" /\ pc'[Receiver] = pc[Receiver]
    BY <1>1, Threads DEF IInv, Typed
<1>3. PICK kept : /\ kept \in {incoming, Tail(incoming)}
                  /\ kept = Tail(incoming) => incoming # <<>> \/ kept = incoming
                  /\ incoming' = Append(kept, hand)
  <2>1. CASE Len(incoming) < MaxIncoming
    BY <2>1 DEF ReadPush
  <2>2. CASE ~(Len(incoming) < MaxIncoming)
    <3>1. incoming # <<>>
      BY <2>2, ReaderAssumption
    <3> QED
      BY <2>2, <3>1 DEF ReadPush
  <2> QED
    BY <2>1, <2>2
<1>4. PICK n \in Nat : n = Len(accepted) /\ n > 0
    BY <1>1, LenProperties, EmptySeq DEF IInv, Typed, InHand
<1>5. /\ Pushed = Front(accepted) /\ Pushed' = accepted
      /\ hand = accepted[n] /\ hand \in Seq(Byte)
      /\ incoming \in Seq(Seq(Byte)) /\ accepted \in Seq(Seq(Byte))
    BY <1>1, <1>2, <1>4 DEF Pushed, IInv, Typed, InHand
<1>6. PICK f : f = Front(accepted) /\ f \in Seq(Seq(Byte))
              /\ Append(f, hand) = accepted
  <2>1. Front(accepted) = SubSeq(accepted, 1, n - 1)
    BY <1>4 DEF Front
  <2>2. SubSeq(accepted, 1, n - 1) \in Seq(Seq(Byte))
    BY <1>4, <1>5, ElementOfSeq, SubSeqProperties
  <2>3. Append(SubSeq(accepted, 1, n - 1), accepted[n]) = accepted
    BY <1>4, <1>5
  <2> QED
    BY <1>5, <2>1, <2>2, <2>3
<1>7. kept \in Seq(Seq(Byte)) /\ EndsIn(f, kept)
  <2>1. EndsIn(f, incoming)
    BY <1>5, <1>6 DEF IInv, Newest
  <2>2. CASE kept = incoming
    BY <1>5, <2>1, <2>2
  <2>3. CASE kept # incoming
    <3>1. kept = Tail(incoming) /\ incoming # <<>>
      BY <1>3, <2>3
    <3>2. kept \in Seq(Seq(Byte))
      BY <1>5, <3>1, HeadTailProperties
    <3>3. EndsIn(f, Tail(incoming))
      BY <1>5, <1>6, <2>1, <3>1, EndsInTail
    <3> QED
      BY <3>1, <3>2, <3>3
  <2> QED
    BY <2>2, <2>3
<1>8. EndsIn(Append(f, hand), Append(kept, hand))
    BY <1>5, <1>6, <1>7, EndsInAppend
<1>9. Newest'
    BY <1>3, <1>5, <1>6, <1>8 DEF Newest
<1>10. incoming' \in Seq(Seq(Byte))
    BY <1>3, <1>5, <1>7, AppendProperties
<1>11. Typed'
    BY <1>1, <1>10 DEF IInv, Typed
<1> QED
    BY <1>1, <1>2, <1>9, <1>11 DEF IInv, InHand, Telling, ToldOf

(* recv() is told of it. *)
LEMMA ReadNotifyStep ==
    ASSUME IInv, ReadNotify
    PROVE  IInv'
<1>1. /\ pc[Reader] = "notify" /\ pc' = [pc EXCEPT ![Reader] = "start"]
      /\ sem_read_api' = CeilingPut(sem_read_api, 1)
      /\ UNCHANGED <<wire, size, hand, incoming, accepted>>
    BY DEF ReadNotify, Goes, GoTo, history
<1>2. pc'[Reader] = "start" /\ pc'[Receiver] = pc[Receiver]
    BY <1>1, Threads DEF IInv, Typed
<1>3. Typed'
    BY <1>1 DEF IInv, Typed
<1>4. InHand' /\ Newest'
    BY <1>1, <1>2 DEF IInv, InHand, Newest, Pushed
<1>5. CASE sem_read_api.waits = <<>>
  <2>1. /\ sem_read_api'.count \in Nat /\ sem_read_api'.count > 0
        /\ sem_read_api'.waits = <<>>
        /\ sem_read_api' \in [count : Nat, waits : {<<>>, <<Receiver>>}]
    BY <1>1, <1>5 DEF CeilingPut, Put, IInv, Telling
  <2> QED
    BY <1>3, <1>4, <2>1 DEF IInv, Telling, ToldOf
<1>6. CASE sem_read_api.waits # <<>>
  <2>1. sem_read_api.waits = <<Receiver>> /\ pc[Receiver] = "told"
    BY <1>6 DEF IInv, Telling
  <2>2. /\ sem_read_api'.waits = <<>>
        /\ sem_read_api' \in [count : Nat, waits : {<<>>, <<Receiver>>}]
    BY <1>1, <2>1 DEF CeilingPut, Put, IInv, Telling
  <2> QED
    BY <1>2, <1>3, <1>4, <2>1, <2>2 DEF IInv, Telling, ToldOf
<1> QED
    BY <1>5, <1>6

(* recv() waits until it is told, ... *)
LEMMA RecvWaitStep ==
    ASSUME IInv, RecvWait
    PROVE  IInv'
<1>1. /\ pc[Receiver] = "idle" /\ pc' = [pc EXCEPT ![Receiver] = "told"]
      /\ sem_read_api' = Get(sem_read_api, Receiver)
      /\ UNCHANGED <<wire, size, hand, incoming, accepted>>
    BY DEF RecvWait, Goes, GoTo, history
<1>2. pc'[Receiver] = "told" /\ pc'[Reader] = pc[Reader]
    BY <1>1, Threads DEF IInv, Typed
<1>3. Typed'
    BY <1>1 DEF IInv, Typed
<1>4. InHand' /\ Newest'
    BY <1>1, <1>2 DEF IInv, InHand, Newest, Pushed
<1>5. sem_read_api.waits = <<>> /\ sem_read_api.count \in Nat
    BY <1>1 DEF IInv, Telling
<1>6. CASE sem_read_api.count > 0
  <2>1. /\ sem_read_api'.waits = <<>>
        /\ sem_read_api' \in [count : Nat, waits : {<<>>, <<Receiver>>}]
    BY <1>1, <1>5, <1>6 DEF Get, IInv, Telling
  <2> QED
    BY <1>2, <1>3, <1>4, <2>1 DEF IInv, Telling, ToldOf
<1>7. CASE ~(sem_read_api.count > 0)
  <2>1. /\ sem_read_api'.waits = <<Receiver>> /\ sem_read_api'.count = 0
        /\ sem_read_api' \in [count : Nat, waits : {<<>>, <<Receiver>>}]
    BY <1>1, <1>5, <1>7 DEF Get, IInv, Telling
  <2>2. incoming = <<>> \/ pc[Reader] = "notify"
    BY <1>1, <1>7 DEF IInv, ToldOf
  <2> QED
    BY <1>1, <1>2, <1>3, <1>4, <2>1, <2>2 DEF IInv, Telling, ToldOf
<1> QED
    BY <1>6, <1>7

(* ... and takes the oldest; of the rest it will be told. *)
LEMMA RecvTakeStep ==
    ASSUME IInv, RecvTake
    PROVE  IInv'
<1>1. /\ pc[Receiver] = "locked" /\ pc' = [pc EXCEPT ![Receiver] = "release"]
      /\ incoming # <<>> /\ incoming' = Tail(incoming)
      /\ sem_read_api' = IF Len(incoming) > 1 THEN CeilingPut(sem_read_api, 1)
                         ELSE sem_read_api
      /\ UNCHANGED <<wire, size, hand, accepted>>
    BY DEF RecvTake, Goes, GoTo, history
<1>2. pc'[Receiver] = "release" /\ pc'[Reader] = pc[Reader]
    BY <1>1, Threads DEF IInv, Typed
<1>3. incoming \in Seq(Seq(Byte)) /\ incoming' \in Seq(Seq(Byte))
    BY <1>1, HeadTailProperties DEF IInv, Typed
<1>4. Typed'
    BY <1>1, <1>3 DEF IInv, Typed
<1>5. Pushed \in Seq(Seq(Byte)) /\ Pushed' = Pushed
  <2>1. accepted \in Seq(Seq(Byte))
    BY DEF IInv, Typed
  <2>2. Front(accepted) \in Seq(Seq(Byte))
    <3>1. Len(accepted) \in Nat
      BY <2>1, LenProperties
    <3> QED
      BY <2>1, <3>1, ElementOfSeq, SubSeqProperties DEF Front
  <2> QED
    BY <1>1, <1>2, <2>1, <2>2 DEF Pushed
<1>6. Newest'
  <2>1. EndsIn(Pushed, Tail(incoming))
    BY <1>1, <1>3, <1>5, EndsInTail DEF IInv, Newest
  <2> QED
    BY <1>1, <1>5, <2>1 DEF Newest
<1>7. InHand'
    BY <1>1, <1>2 DEF IInv, InHand
<1>8. sem_read_api.waits = <<>> /\ sem_read_api.count \in Nat
    BY <1>1 DEF IInv, Telling
<1>9. CASE Len(incoming) > 1
  <2>1. /\ sem_read_api'.waits = <<>> /\ sem_read_api'.count > 0
        /\ sem_read_api' \in [count : Nat, waits : {<<>>, <<Receiver>>}]
    BY <1>1, <1>8, <1>9 DEF CeilingPut, Put, IInv, Telling
  <2> QED
    BY <1>4, <1>6, <1>7, <2>1 DEF IInv, Telling, ToldOf
<1>10. CASE ~(Len(incoming) > 1)
  <2>1. incoming' = <<>>
    <3>1. Len(incoming) = 1
      <4>1. Len(incoming) \in Nat /\ Len(incoming) # 0
        BY <1>1, <1>3, LenProperties, EmptySeq
      <4> QED
        BY <1>10, <4>1
    <3>2. Len(incoming') = 0
      BY <1>1, <1>3, <3>1, HeadTailProperties
    <3> QED
      BY <1>3, <3>2, EmptySeq
  <2>2. sem_read_api' = sem_read_api
    BY <1>1, <1>10
  <2> QED
    BY <1>4, <1>6, <1>7, <1>8, <2>1, <2>2 DEF IInv, Telling, ToldOf
<1> QED
    BY <1>9, <1>10

(* ... and every step keeps it. *)
LEMMA IInvInductive == IInv /\ [Next]_vars => IInv'
<1> SUFFICES ASSUME IInv, [Next]_vars
             PROVE  IInv'
    OBVIOUS
<1>1. wire # <<>> => Tail(wire) \in Seq(Byte) /\ Head(wire) \in Byte
    BY HeadTailProperties DEF IInv, Typed
<1>2. Byte \subseteq Nat /\ wire \in Seq(Byte) /\ size \in Nat
    BY ReaderAssumption DEF Byte, IInv, Typed
<1>3. CASE ReadInit
    BY <1>2, <1>3, Threads, QuietStep DEF ReadInit, Goes, GoTo, history
<1>4. CASE ReadStart
  <2>1. PICK to \in {"size", "start"} : pc' = [pc EXCEPT ![Reader] = to]
    BY <1>4 DEF ReadStart, GoTo
  <2> QED
    BY <1>1, <1>2, <1>4, <2>1, Threads, QuietStep
       DEF ReadStart, Goes, history, sems
<1>5. CASE ReadSize
    BY <1>1, <1>2, <1>5, Threads, QuietStep
       DEF ReadSize, Goes, GoTo, history, sems
<1>6. CASE RecvGetLock
  <2>1. sem_read_api.waits = <<>>
    <3>1. ~Suspended(sem_read_api, Receiver)
      BY <1>6 DEF RecvGetLock, Goes
    <3>2. sem_read_api.waits # <<Receiver>>
      BY <3>1 DEF Suspended
    <3> QED
      BY <3>2 DEF IInv, Telling
  <2> QED
    BY <1>2, <1>6, <2>1, Threads, QuietStep
       DEF RecvGetLock, Goes, GoTo, history
<1>7. CASE RecvAgain
    BY <1>2, <1>7, Threads, QuietStep DEF RecvAgain, Goes, GoTo, history
<1>8. CASE RecvReturn
    BY <1>2, <1>8, Threads, QuietStep DEF RecvReturn, Goes, GoTo, history
<1>9. CASE UNCHANGED vars
    BY <1>9 DEF vars, sems, history, IInv, Typed, InHand, Newest, Pushed,
                Telling, ToldOf
<1> QED
    BY <1>3, <1>4, <1>5, <1>6, <1>7, <1>8, <1>9, LineStep, ReadBodyStep,
       ReadPushStep, ReadNotifyStep, RecvWaitStep, RecvTakeStep
       DEF Next, Line, Reads, Recvs

(* So it always holds. *)
LEMMA IInvHolds == Spec => []IInv
    BY InitIInv, IInvInductive, PTL DEF Spec

-----------------------------------------------------------------------------
(* The packets on the deque are the last that were accepted, in order: the  *)
(* oldest give way where the receiver is too slow, and none is overtaken.   *)
THEOREM LatestHolds == Spec => []Latest
<1>1. IInv => Latest
  <2> SUFFICES ASSUME IInv
               PROVE  Latest
    OBVIOUS
  <2>1. accepted \in Seq(Seq(Byte)) /\ incoming \in Seq(Seq(Byte))
    BY DEF IInv, Typed
  <2>2. Front(accepted) \in Seq(Seq(Byte))
    <3>1. Len(accepted) \in Nat
      BY <2>1, LenProperties
    <3> QED
      BY <2>1, <3>1, ElementOfSeq, SubSeqProperties DEF Front
  <2>3. Pushed \in Seq(Seq(Byte)) /\ EndsIn(Pushed, incoming)
    BY <2>1, <2>2 DEF Pushed, IInv, Newest
  <2> QED
    BY <2>1, <2>3, EndsInIsSuffix DEF Latest
<1> QED
    BY <1>1, IInvHolds, PTL

(* recv() does not sleep while the deque holds a packet, but for the moment *)
(* before read_process tells it.                                            *)
THEOREM NotAsleepHolds == Spec => []NotAsleep
<1>1. IInv => NotAsleep
  <2> SUFFICES ASSUME IInv, Suspended(sem_read_api, Receiver),
                      pc[Reader] # "notify"
               PROVE  incoming = <<>>
    BY DEF NotAsleep
  <2>1. sem_read_api.waits # <<>>
    BY DEF Suspended
  <2> QED
    BY <2>1 DEF IInv, Telling, ToldOf
<1> QED
    BY <1>1, IInvHolds, PTL

-----------------------------------------------------------------------------
(* The bytes that arrived and were not read, frame by frame.  Left are the   *)
(* packets that the host sent and read_process has not accepted; at[k] is    *)
(* the place in the wire of the start byte of the k-th.  Of the first of     *)
(* them the start byte or the size byte, too, may have been read.            *)
Left == Len(accepted) + 1 .. Len(sent)

(* Place i is one of the frame of d that begins at a. *)
Inside(a, d, i) == a <= i /\ i <= a + Len(d) + 2

(* The frame of packet d begins at place a of w. *)
Lies(w, a, d) ==
    /\ a >= -1 /\ a + Len(d) + 2 <= Len(w)
    /\ a >= 1 => w[a] = Start
    /\ a >= 0 => w[a + 1] = Len(d)
    /\ \A i \in 1 .. Len(d) : w[a + 1 + i] = d[i]
    /\ w[a + Len(d) + 2] = Stop

(* Frames lie one behind the other, and no start byte lies between them.     *)
Spread(at) ==
    /\ \A k \in Left : Lies(wire, at[k], sent[k])
    /\ \A j, k \in Left : j < k => at[j] + Len(sent[j]) + 2 < at[k]
    /\ \A i \in 1 .. Len(wire) :
          wire[i] = Start => \E k \in Left : Inside(at[k], sent[k], i)

(* What read_process reads is the first of them. *)
Heads(at) ==
    LET n == Len(accepted) + 1 IN
    /\ pc[Reader] = "size" => n \in Left /\ at[n] = 0
    /\ pc[Reader] = "body" => n \in Left /\ at[n] = -1 /\ size = Len(sent[n])
    /\ pc[Reader] \notin {"size", "body"} => \A k \in Left : at[k] >= 1

(* The packets accepted are the first of those sent. *)
Matched == /\ Len(accepted) <= Len(sent)
           /\ \A i \in 1 .. Len(accepted) : accepted[i] = sent[i]

(* So the packets match, and frames can be found that lie so. *)
Framing == Matched /\ \E at \in [Nat -> Int] : Spread(at) /\ Heads(at)

(* The invariant of the framing, as long as no byte is lost. *)
FInv == /\ IInv
        /\ sent \in Seq(Seq(Byte)) /\ lost \in Nat
        /\ lost = 0 => Framing

-----------------------------------------------------------------------------
(* A frame, byte by byte. *)
LEMMA FrameIs ==
    ASSUME NEW d \in Seq(Byte)
    PROVE  /\ Len(d) \in Nat /\ Len(Frame(d)) = Len(d) + 3
           /\ Frame(d)[1] = Start /\ Frame(d)[2] = Len(d)
           /\ \A i \in 1 .. Len(d) : Frame(d)[i + 2] = d[i]
           /\ Frame(d)[Len(d) + 3] = Stop
<1> DEFINE h == <<Start, Len(d)>>
           g == h \o d
<1>0. Len(d) \in Nat /\ Start \in Nat /\ Stop \in Nat
    BY LenProperties, ReaderAssumption DEF Byte
<1>5. d \in Seq(Nat)
  <2>1. \A i \in 1 .. Len(d) : d[i] \in Nat
    <3>1. \A i \in 1 .. Len(d) : d[i] \in Byte
      BY ElementOfSeq
    <3>2. \A x \in Byte : x \in Nat
      BY DEF Byte
    <3> QED
      BY <3>1, <3>2
  <2>2. d = [i \in 1 .. Len(d) |-> d[i]]
    OBVIOUS
  <2> QED
    BY <1>0, <2>1, <2>2, SeqDef
<1>1. /\ h \in Seq(Nat) /\ Len(h) = 2 /\ h[1] = Start /\ h[2] = Len(d)
      /\ d \in Seq(Nat) /\ <<Stop>> \in Seq(Nat) /\ Len(<<Stop>>) = 1 /\ <<Stop>>[1] = Stop
    BY <1>0, <1>5
<1>2. /\ g \in Seq(Nat) /\ Len(g) = Len(d) + 2 /\ g[1] = Start /\ g[2] = Len(d)
      /\ \A i \in 1 .. Len(d) : g[i + 2] = d[i]
    BY <1>0, <1>1
<1>3. /\ Len(g \o <<Stop>>) = Len(d) + 3 /\ (g \o <<Stop>>)[Len(d) + 3] = Stop
      /\ \A i \in 1 .. Len(d) + 2 : (g \o <<Stop>>)[i] = g[i]
  <2> HIDE DEF g
  <2> QED
    BY <1>0, <1>1, <1>2
<1>4. Frame(d) = g \o <<Stop>>
    BY DEF Frame
<1> HIDE DEF g
<1> QED
    BY <1>0, <1>2, <1>3, <1>4

(* A frame stays where it is when more comes behind it, ... *)
LEMMA LiesLonger ==
    ASSUME NEW w \in Seq(Byte), NEW v \in Seq(Byte), Len(v) >= Len(w),
           \A i \in 1 .. Len(w) : v[i] = w[i],
           NEW a \in Int, NEW d \in Seq(Byte), Lies(w, a, d)
    PROVE  Lies(v, a, d)
<1>1. Len(w) \in Nat /\ Len(v) \in Nat /\ Len(d) \in Nat
    BY LenProperties
<1>2. \A i \in 1 .. Len(d) : a + 1 + i \in 1 .. Len(w)
    BY <1>1 DEF Lies
<1>3. a + Len(d) + 2 \in 1 .. Len(w) /\ (a >= 1 => a \in 1 .. Len(w))
      /\ (a >= 0 => a + 1 \in 1 .. Len(w))
    BY <1>1 DEF Lies
<1>4. /\ a >= 1 => v[a] = Start
      /\ a >= 0 => v[a + 1] = Len(d)
      /\ v[a + Len(d) + 2] = Stop
    BY <1>3 DEF Lies
<1>5. \A i \in 1 .. Len(d) : v[a + 1 + i] = d[i]
    BY <1>2 DEF Lies
<1>6. a + Len(d) + 2 <= Len(v)
    BY <1>1, <1>3
<1> QED
    BY <1>4, <1>5, <1>6 DEF Lies

(* ... and moves to the front when n bytes are read that are not of it, or   *)
(* of its first two.                                                         *)
LEMMA LiesNearer ==
    ASSUME NEW w \in Seq(Byte), NEW v \in Seq(Byte), NEW n \in Nat,
           Len(v) = Len(w) - n, \A i \in 1 .. Len(w) - n : v[i] = w[i + n],
           NEW a \in Int, NEW d \in Seq(Byte), Lies(w, a, d), a - n >= -1
    PROVE  Lies(v, a - n, d)
<1>1. Len(w) \in Nat /\ Len(v) \in Nat /\ Len(d) \in Nat
    BY LenProperties
<1>2. \A i \in 1 .. Len(d) : /\ a + 1 + i - n \in 1 .. Len(v) /\ a + 1 + i - n + n = a + 1 + i
                             /\ a - n + 1 + i = a + 1 + i - n
    BY <1>1 DEF Lies
<1>3. \A i \in 1 .. Len(d) : v[a - n + 1 + i] = d[i]
    BY <1>1, <1>2 DEF Lies
<1>4. /\ a - n + Len(d) + 2 \in 1 .. Len(v)
      /\ (a - n + Len(d) + 2) + n = a + Len(d) + 2
  <2>1. a + Len(d) + 2 <= Len(w)
    BY DEF Lies
  <2> QED
    BY <1>1, <2>1
<1>5. v[a - n + Len(d) + 2] = Stop
    BY <1>1, <1>4 DEF Lies
<1>6. a - n >= 1 => /\ a - n \in 1 .. Len(v) /\ (a - n) + n = a /\ a >= 1
    BY <1>1, <1>4
<1>7. a - n >= 0 => /\ a - n + 1 \in 1 .. Len(v) /\ (a - n + 1) + n = a + 1 /\ a >= 0
    BY <1>1, <1>4
<1>8. /\ a - n >= 1 => v[a - n] = Start
      /\ a - n >= 0 => v[a - n + 1] = Len(d)
    BY <1>1, <1>6, <1>7 DEF Lies
<1> QED
    BY <1>1, <1>3, <1>4, <1>5, <1>8 DEF Lies

(* What there is to know of packets and places. *)
LEMMA LeftIs ==
    ASSUME FInv, NEW at \in [Nat -> Int]
    PROVE  /\ Len(accepted) \in Nat /\ Len(sent) \in Nat /\ Len(wire) \in Nat
           /\ wire \in Seq(Byte)
           /\ \A k \in Left : /\ k \in Nat /\ k >= 1 /\ k <= Len(sent) /\ at[k] \in Int
                              /\ sent[k] \in Seq(Byte) /\ Len(sent[k]) \in Nat
<1>1. sent \in Seq(Seq(Byte)) /\ accepted \in Seq(Seq(Byte)) /\ wire \in Seq(Byte)
    BY DEF FInv, IInv, Typed
<1>2. Len(accepted) \in Nat /\ Len(sent) \in Nat /\ Len(wire) \in Nat
    BY <1>1, LenProperties
<1>3. ASSUME NEW k \in Left
      PROVE  /\ k \in Nat /\ k >= 1 /\ k <= Len(sent) /\ at[k] \in Int
             /\ sent[k] \in Seq(Byte) /\ Len(sent[k]) \in Nat
  <2>1. k \in 1 .. Len(sent) /\ k \in Nat
    BY <1>2 DEF Left
  <2>2. sent[k] \in Seq(Byte)
    BY <1>1, <2>1, ElementOfSeq
  <2> QED
    BY <2>1, <2>2, LenProperties
<1> QED
    BY <1>1, <1>2, <1>3

(* n bytes are read, ... *)
Nearer(n) == /\ wire' \in Seq(Byte) /\ Len(wire') = Len(wire) - n
             /\ \A i \in 1 .. Len(wire) - n : wire'[i] = wire[i + n]

(* ... and packets that end among them are accepted. *)
Passed(at, n) == /\ Left' \subseteq Left /\ \A k \in Left' : at[k] - n >= -1
                 /\ \A k \in Left \ Left' : at[k] + Len(sent[k]) + 2 <= n

(* The other frames move to the front. *)
LEMMA SpreadNearer ==
    ASSUME FInv, NEW at \in [Nat -> Int], Spread(at), NEW n \in Nat,
           Nearer(n), Passed(at, n), sent' = sent
    PROVE  Spread([k \in Nat |-> at[k] - n])'
<1> DEFINE near == [k \in Nat |-> at[k] - n]
<1>1. /\ Len(wire) \in Nat /\ wire \in Seq(Byte)
      /\ \A k \in Left : /\ k \in Nat /\ at[k] \in Int /\ Len(sent[k]) \in Nat
                         /\ sent[k] \in Seq(Byte) /\ near[k] = at[k] - n
    BY LeftIs
<1>2. Left' \subseteq Left
    BY DEF Passed
<1> HIDE DEF near
<1>3. ASSUME NEW k \in Left' PROVE Lies(wire', near[k], sent[k])
  <2>1. k \in Left /\ Lies(wire, at[k], sent[k]) /\ near[k] = at[k] - n
    BY <1>1, <1>2 DEF Spread
  <2>3. at[k] \in Int /\ sent[k] \in Seq(Byte) /\ at[k] - n >= -1
    BY <1>1, <2>1 DEF Passed
  <2>2. Lies(wire', at[k] - n, sent[k])
    BY <1>1, <2>1, <2>3, LiesNearer DEF Nearer
  <2> QED
    BY <2>1, <2>2
<1>4. ASSUME NEW j \in Left', NEW k \in Left', j < k
      PROVE  near[j] + Len(sent[j]) + 2 < near[k]
  <2>1. at[j] + Len(sent[j]) + 2 < at[k]
    BY <1>2, <1>4 DEF Spread
  <2>2. /\ at[j] \in Int /\ at[k] \in Int /\ Len(sent[j]) \in Nat
        /\ near[j] = at[j] - n /\ near[k] = at[k] - n
    BY <1>1, <1>2
  <2>3. PICK x \in Int, y \in Int, l \in Nat : x = at[j] /\ y = at[k] /\ l = Len(sent[j])
    BY <2>2
  <2>4. x + l + 2 < y
    BY <2>1, <2>3
  <2>5. (x - n) + l + 2 < y - n
    BY <2>4
  <2> QED
    BY <2>2, <2>3, <2>5
<1>5. ASSUME NEW i \in 1 .. Len(wire'), wire'[i] = Start
      PROVE  \E k \in Left' : Inside(near[k], sent[k], i)
  <2>1. i \in 1 .. Len(wire) - n
    BY <1>1 DEF Nearer
  <2>5. i + n \in 1 .. Len(wire) /\ i + n > n /\ i \in Nat
    BY <1>1, <2>1
  <2>6. wire[i + n] = Start
    BY <2>1, <1>5 DEF Nearer
  <2>2. PICK k \in Left : Inside(at[k], sent[k], i + n)
    BY <2>5, <2>6 DEF Spread
  <2>7. /\ at[k] \in Int /\ Len(sent[k]) \in Nat /\ near[k] = at[k] - n
        /\ at[k] <= i + n /\ i + n <= at[k] + Len(sent[k]) + 2
    BY <1>1, <2>2 DEF Inside
  <2>8. PICK x \in Int, l \in Nat : x = at[k] /\ l = Len(sent[k])
    BY <2>7
  <2>9. x <= i + n /\ i + n <= x + l + 2
    BY <2>7, <2>8
  <2>10. ~(x + l + 2 <= n) /\ x - n <= i /\ i <= (x - n) + l + 2
    BY <2>5, <2>9
  <2>3. k \in Left'
    BY <2>8, <2>10 DEF Passed
  <2>4. Inside(near[k], sent[k], i)
    BY <2>7, <2>8, <2>10 DEF Inside
  <2> QED
    BY <2>3, <2>4
<1>6. Spread(near)'
    BY <1>3, <1>4, <1>5 DEF Spread
<1> QED
    BY <1>6 DEF near

(* A step of read_process or recv() that reads and accepts nothing. *)
LEMMA FramingStands ==
    ASSUME FInv, IInv', UNCHANGED <<wire, sent, accepted, lost, size>>,
           pc'[Reader] = pc[Reader] \/ {pc[Reader], pc'[Reader]} \cap {"size", "body"} = {}
    PROVE  FInv'
<1>1. Framing => Framing'
  <2> SUFFICES ASSUME Matched, NEW at \in [Nat -> Int], Spread(at), Heads(at) PROVE Framing'
    BY DEF Framing
  <2>1. Matched' /\ Spread(at)'
    BY DEF Matched, Spread, Left
  <2>2. Heads(at)'
    BY DEF Heads, Left
  <2> QED
    BY <2>1, <2>2 DEF Framing
<1> QED
    BY <1>1 DEF FInv

(* The host sends a frame: it lies behind the others. *)
LEMMA SendsStep ==
    ASSUME FInv, IInv', NEW d \in Packet, HostSends(d)
    PROVE  FInv'
<1>1. /\ wire' = wire \o Frame(d) /\ sent' = Append(sent, d)
      /\ UNCHANGED <<pc, size, accepted, lost>>
    BY DEF HostSends
<1>2. d \in Seq(Byte)
    BY ReaderAssumption
<1>3. /\ sent \in Seq(Seq(Byte)) /\ sent' \in Seq(Seq(Byte)) /\ Len(sent) \in Nat
      /\ Len(sent') = Len(sent) + 1 /\ sent'[Len(sent) + 1] = d
      /\ \A k \in 1 .. Len(sent) : sent'[k] = sent[k]
    BY <1>1, <1>2, AppendProperties, LenProperties DEF FInv
<1>4. /\ wire \in Seq(Byte) /\ wire' \in Seq(Byte) /\ accepted \in Seq(Seq(Byte))
      /\ Len(wire) \in Nat /\ Len(accepted) \in Nat
    BY LenProperties DEF FInv, IInv, Typed
<1>p. PICK m \in Nat, p \in Nat : m = Len(sent) + 1 /\ p = Len(wire) + 1
    BY <1>3, <1>4
<1>5. /\ Len(d) \in Nat /\ Len(wire') = Len(wire) + Len(d) + 3
      /\ \A i \in 1 .. Len(wire) : wire'[i] = wire[i]
      /\ Lies(wire', p, d)
      /\ wire'[Len(wire) + 1] = Start
  <2>1. /\ Len(d) \in Nat /\ Len(Frame(d)) = Len(d) + 3
        /\ Frame(d)[1] = Start /\ Frame(d)[2] = Len(d)
        /\ \A i \in 1 .. Len(d) : Frame(d)[i + 2] = d[i]
        /\ Frame(d)[Len(d) + 3] = Stop
    BY <1>2, FrameIs
  <2>2. Frame(d) \in Seq(Byte)
    <3>1. <<Start, Len(d)>> \in Seq(Byte) /\ <<Stop>> \in Seq(Byte)
      BY ReaderAssumption
    <3>2. <<Start, Len(d)>> \o d \in Seq(Byte)
      BY <1>2, <3>1, ConcatProperties
    <3> QED
      BY <3>1, <3>2, ConcatProperties DEF Frame
  <2>3. /\ Len(wire') = Len(wire) + Len(Frame(d))
        /\ \A i \in 1 .. Len(wire) : wire'[i] = wire[i]
        /\ \A i \in 1 .. Len(Frame(d)) : wire'[Len(wire) + i] = Frame(d)[i]
    BY <1>1, <1>4, <2>2
  <2>4. PICK f \in Seq(Byte), l \in Nat, w \in Nat : f = Frame(d) /\ l = Len(d) /\ w = Len(wire)
    BY <1>4, <2>1, <2>2
  <2>5. /\ Len(wire') = w + l + 3 /\ wire'[w + 1] = Start /\ wire'[w + 2] = l
        /\ wire'[w + l + 3] = Stop
    <3>1. 1 \in 1 .. l + 3 /\ 2 \in 1 .. l + 3 /\ l + 3 \in 1 .. l + 3 /\ w + (l + 3) = w + l + 3
      BY <2>4
    <3> QED
      BY <2>1, <2>3, <2>4, <3>1
  <2>6. \A i \in 1 .. l : wire'[w + 2 + i] = d[i]
    <3> SUFFICES ASSUME NEW i \in 1 .. l PROVE wire'[w + 2 + i] = d[i]
      OBVIOUS
    <3>1. i + 2 \in 1 .. l + 3 /\ w + (i + 2) = w + 2 + i
      BY <2>4
    <3> QED
      BY <2>1, <2>3, <2>4, <3>1
  <2>7. Lies(wire', w + 1, d)
    <3>1. w + 1 + Len(d) + 2 = w + l + 3 /\ w + 1 + 1 = w + 2
      BY <2>4
    <3>2. \A i \in 1 .. Len(d) : wire'[w + 1 + 1 + i] = d[i]
      BY <2>4, <2>6, <3>1
    <3>3. w + 1 >= -1
      BY <2>4
    <3> QED
      BY <2>4, <2>5, <3>1, <3>2, <3>3 DEF Lies
  <2> QED
    BY <1>p, <2>1, <2>3, <2>4, <2>5, <2>7
<1>6. ASSUME lost = 0 PROVE Framing'
  <2>1. Matched'
    <3>1. Matched
      BY <1>6 DEF FInv, Framing
    <3> QED
      BY <1>1, <1>3, <1>4, <3>1 DEF Matched
  <2>2. PICK at \in [Nat -> Int] : Spread(at) /\ Heads(at)
    BY <1>6 DEF FInv, Framing
  <2>3. Len(accepted) <= Len(sent)
    BY <1>6 DEF FInv, Framing, Matched
  <2>z. PICK ut : ut = [at EXCEPT ![m] = p]
    OBVIOUS
  <2>4. ut \in [Nat -> Int] /\ ut[m] = p /\ \A k \in Nat \ {m} : ut[k] = at[k]
    BY <2>z, <1>p
  <2>a. \A k \in Left : /\ k \in Nat /\ k >= 1 /\ k <= Len(sent) /\ at[k] \in Int
                        /\ sent[k] \in Seq(Byte) /\ Len(sent[k]) \in Nat
    BY LeftIs
  <2>b. PICK u \in Nat, v \in Nat : u = Len(accepted) /\ v = Len(sent) /\ m = v + 1 /\ u <= v
    BY <1>3, <1>4, <1>p, <2>3
  <2>5. Left' = Left \cup {m} /\ m \notin Left
    <3>1. Left = u + 1 .. v /\ Left' = u + 1 .. v + 1
      BY <1>1, <1>3, <2>b DEF Left
    <3>2. \A k : k \in u + 1 .. v + 1 <=> k \in u + 1 .. v \/ k = v + 1
      <4>1. \A k \in Int : k \in u + 1 .. v + 1 <=> k \in u + 1 .. v \/ k = v + 1
        BY <2>b
      <4>2. \A k : k \in u + 1 .. v + 1 \/ k \in u + 1 .. v \/ k = v + 1 => k \in Int
        BY <2>b
      <4> QED
        BY <4>1, <4>2
    <3>3. v + 1 \notin u + 1 .. v
      BY <2>b
    <3> QED
      BY <2>b, <3>1, <3>2, <3>3
  <2>c. ASSUME NEW k \in Left PROVE k \in 1 .. Len(sent) /\ k < m /\ k # m
    <3>1. k \in Nat /\ k >= 1 /\ k <= v
      BY <2>a, <2>b
    <3>2. k \in 1 .. v /\ k < m /\ k # m
      BY <2>b, <3>1
    <3> QED
      BY <2>b, <3>2
  <2>6. \A k \in Left : /\ ut[k] = at[k] /\ sent'[k] = sent[k] /\ k \in Nat /\ k < m
                        /\ at[k] \in Int /\ sent[k] \in Seq(Byte) /\ Len(sent[k]) \in Nat
    BY <1>3, <2>4, <2>a, <2>c
  <2>7. p = Len(wire) + 1 /\ m = Len(sent) + 1 /\ sent'[m] = d
    BY <1>3, <1>p
  <2>8. ASSUME NEW k \in Left' PROVE Lies(wire', ut[k], sent'[k])
    <3>1. CASE k = m
      BY <3>1, <1>5, <2>4, <2>7
    <3>2. CASE k # m
      <4>1. k \in Left /\ Lies(wire, at[k], sent[k])
        BY <3>2, <2>2, <2>5 DEF Spread
      <4>2. Lies(wire', at[k], sent[k])
        <5>1. Len(wire') >= Len(wire)
          BY <1>4, <1>5
        <5> QED
          BY <1>4, <1>5, <2>6, <4>1, <5>1, LiesLonger
      <4> QED
        BY <2>6, <4>1, <4>2
    <3> QED
      BY <3>1, <3>2
  <2>9. ASSUME NEW j \in Left', NEW k \in Left', j < k
        PROVE  ut[j] + Len(sent'[j]) + 2 < ut[k]
    <3>1. j \in Left
      <4>1. k = m \/ (k \in Nat /\ k < m)
        BY <2>5, <2>6
      <4>2. j # m
        BY <1>p, <2>9, <4>1
      <4> QED
        BY <2>5, <4>2
    <3>2. CASE k = m
      <4>1. at[j] + Len(sent[j]) + 2 <= Len(wire)
        BY <3>1, <2>2 DEF Spread, Lies
      <4>2. PICK x \in Int, l \in Nat, w \in Nat : x = at[j] /\ l = Len(sent[j]) /\ w = Len(wire)
        BY <1>4, <3>1, <2>6
      <4>3. x + l + 2 < w + 1
        <5>1. x + l + 2 <= w
          BY <4>1, <4>2, Zenon
        <5>2. x + l + 2 \in Int
          OBVIOUS
        <5>3. \A a, b \in Int : a <= b => a < b + 1
          OBVIOUS
        <5> QED
          BY <5>1, <5>2, <5>3
      <4> QED
        BY <2>4, <2>6, <2>7, <3>1, <3>2, <4>2, <4>3
    <3>3. CASE k # m
      BY <2>2, <2>5, <2>6, <2>9, <3>1, <3>3 DEF Spread
    <3> QED
      BY <3>2, <3>3
  <2>10. ASSUME NEW i \in 1 .. Len(wire'), wire'[i] = Start
         PROVE  \E k \in Left' : Inside(ut[k], sent'[k], i)
    <3>1. CASE i \in 1 .. Len(wire)
      <4>1. PICK k \in Left : Inside(at[k], sent[k], i)
        BY <1>5, <2>2, <2>10, <3>1 DEF Spread
      <4> QED
        BY <2>5, <2>6, <4>1
    <3>2. CASE i \notin 1 .. Len(wire)
      <4>1. p <= i /\ i <= p + Len(d) + 2
        BY <1>4, <1>5, <2>7, <3>2
      <4> QED
        BY <2>4, <2>5, <2>7, <4>1 DEF Inside
    <3> QED
      BY <3>1, <3>2
  <2>11. Spread(ut)'
    BY <2>8, <2>9, <2>10 DEF Spread
  <2>12. Heads(ut)'
    <3>1. p >= 1
      BY <1>4, <2>7
    <3>2. \A k \in Left' : k = m \/ k \in Left
      BY <2>5
    <3>3. (Len(accepted) + 1)' = Len(accepted) + 1 /\ pc' = pc /\ size' = size
      BY <1>1
    <3> QED
      BY <2>2, <2>4, <2>5, <2>6, <3>1, <3>2, <3>3 DEF Heads
  <2> QED
    BY <2>1, <2>4, <2>11, <2>12 DEF Framing
<1> QED
    BY <1>1, <1>3, <1>6 DEF FInv

(* Filler is no start byte. *)
LEMMA FillsStep ==
    ASSUME FInv, IInv', NEW b \in Byte \ {Start}, HostFills(b)
    PROVE  FInv'
<1>1. wire' = Append(wire, b) /\ UNCHANGED <<pc, size, accepted, sent, lost>>
    BY DEF HostFills
<1>2. /\ wire \in Seq(Byte) /\ wire' \in Seq(Byte) /\ Len(wire) \in Nat
      /\ Len(wire') = Len(wire) + 1 /\ wire'[Len(wire) + 1] = b
      /\ \A i \in 1 .. Len(wire) : wire'[i] = wire[i]
    BY <1>1, AppendProperties, LenProperties DEF FInv, IInv, Typed
<1>3. ASSUME lost = 0 PROVE Framing'
  <2>1. PICK at \in [Nat -> Int] : Spread(at) /\ Heads(at)
    BY <1>3 DEF FInv, Framing
  <2>2. Matched' /\ Left' = Left
    BY <1>1, <1>3 DEF FInv, Framing, Matched, Left
  <2>3. \A k \in Left : at[k] \in Int /\ sent[k] \in Seq(Byte)
    BY LeftIs
  <2>4. \A k \in Left : Lies(wire', at[k], sent[k])
    <3>1. Len(wire') >= Len(wire)
      BY <1>2
    <3> QED
      BY <1>2, <2>1, <2>3, <3>1, LiesLonger DEF Spread
  <2>5. ASSUME NEW i \in 1 .. Len(wire'), wire'[i] = Start PROVE i \in 1 .. Len(wire)
    <3>1. i # Len(wire) + 1
      BY <1>2, <2>5
    <3> QED
      BY <1>2, <3>1
  <2>6. \A i \in 1 .. Len(wire') : wire'[i] = Start => \E k \in Left : Inside(at[k], sent[k], i)
    BY <1>2, <2>1, <2>5 DEF Spread
  <2>7. Spread(at)'
    BY <1>1, <2>1, <2>2, <2>4, <2>6 DEF Spread
  <2>8. Heads(at)'
    BY <1>1, <2>1, <2>2 DEF Heads
  <2> QED
    BY <2>2, <2>7, <2>8 DEF Framing
<1> QED
    BY <1>1, <1>3 DEF FInv

(* Of the frames left the first is the nearest. *)
LEMMA FirstNearest ==
    ASSUME FInv, NEW at \in [Nat -> Int], Spread(at), NEW n \in Nat, n = Len(accepted) + 1
    PROVE  /\ Left # {} => n \in Left
           /\ \A k \in Left : k # n => at[n] + Len(sent[n]) + 2 < at[k]
<1>1. /\ Len(accepted) \in Nat /\ Len(sent) \in Nat
      /\ \A k \in Left : k \in Nat /\ k >= 1 /\ k <= Len(sent)
    BY LeftIs
<1>2. ASSUME NEW k \in Left PROVE n \in Left /\ (k # n => n < k)
  <2>1. PICK u \in Nat, v \in Nat : u = Len(accepted) /\ v = Len(sent) /\ n = u + 1
    BY <1>1
  <2>2. k \in Nat /\ k \in u + 1 .. v
    BY <1>1, <2>1 DEF Left
  <2>3. u + 1 \in u + 1 .. v /\ (k # u + 1 => u + 1 < k)
    BY <2>1, <2>2
  <2> QED
    BY <2>1, <2>3 DEF Left
<1> QED
    BY <1>2 DEF Spread

(* One byte is read. *)
LEMMA OneNearer ==
    ASSUME wire \in Seq(Byte), wire # <<>>, wire' = Tail(wire)
    PROVE  /\ Nearer(1) /\ Head(wire) = wire[1]
           /\ Len(wire) \in Nat /\ 1 \in 1 .. Len(wire) /\ wire[1] \in Byte
<1>1. PICK l \in Nat : l = Len(wire) /\ l # 0
    BY LenProperties, EmptySeq
<1>2. /\ wire' \in Seq(Byte) /\ Len(wire') = Len(wire) - 1
      /\ \A i \in 1 .. Len(wire) - 1 : wire'[i] = wire[i + 1]
    BY HeadTailProperties
<1>3. Head(wire) = wire[1] /\ wire[1] \in Byte
    BY <1>1, HeadTailProperties, ElementOfSeq
<1> QED
    BY <1>1, <1>2, <1>3 DEF Nearer

(* The start byte that read_process finds is that of the first frame. *)
LEMMA StartStep ==
    ASSUME FInv, IInv', ReadStart
    PROVE  FInv'
<1>1. /\ pc[Reader] = "start" /\ wire # <<>> /\ wire' = Tail(wire)
      /\ pc' = [pc EXCEPT ![Reader] = IF Head(wire) = Start THEN "size" ELSE "start"]
      /\ UNCHANGED <<size, accepted, sent, lost>>
    BY DEF ReadStart, Goes, GoTo, history
<1>2. pc'[Reader] = IF Head(wire) = Start THEN "size" ELSE "start"
    BY <1>1, Threads DEF FInv, IInv, Typed
<1>3. /\ Nearer(1) /\ Head(wire) = wire[1] /\ wire \in Seq(Byte)
      /\ Len(wire) \in Nat /\ 1 \in 1 .. Len(wire)
    BY <1>1, OneNearer DEF FInv, IInv, Typed
<1>4. ASSUME lost = 0 PROVE Framing'
  <2>1. PICK at \in [Nat -> Int] : Spread(at) /\ Heads(at)
    BY <1>4 DEF FInv, Framing
  <2>2. Matched' /\ Left' = Left
    BY <1>1, <1>4 DEF FInv, Framing, Matched, Left
  <2>3. /\ \A k \in Left : k \in Nat /\ at[k] \in Int /\ Len(sent[k]) \in Nat
        /\ Len(accepted) \in Nat
    BY LeftIs
  <2>4. \A k \in Left : at[k] >= 1
    BY <1>1, <2>1 DEF Heads
  <2>z. PICK near : near = [k \in Nat |-> at[k] - 1]
    OBVIOUS
  <2>5. near \in [Nat -> Int] /\ \A k \in Left : near[k] = at[k] - 1
    BY <2>3, <2>z
  <2>6. Passed(at, 1)
    BY <2>2, <2>3, <2>4 DEF Passed
  <2>7. Spread(near)'
    BY <1>1, <1>3, <2>1, <2>6, <2>z, SpreadNearer
  <2>8. CASE wire[1] = Start
    <3>1. PICK n \in Nat : n = Len(accepted) + 1
      BY <2>3
    <3>2. PICK k \in Left : Inside(at[k], sent[k], 1)
      BY <1>3, <2>1, <2>8 DEF Spread
    <3>3. n \in Left /\ (k # n => at[n] + Len(sent[n]) + 2 < at[k])
      BY <2>1, <3>1, <3>2, FirstNearest
    <3>4. k = n
      <4>1. PICK x \in Int, y \in Int, l \in Nat : x = at[n] /\ y = at[k] /\ l = Len(sent[n])
        BY <2>3, <3>2, <3>3
      <4>2. x >= 1 /\ y <= 1
        BY <2>4, <3>2, <3>3, <4>1 DEF Inside
      <4>3. ~(x + l + 2 < y)
        BY <4>2
      <4> QED
        BY <3>3, <4>1, <4>3
    <3>5. at[n] = 1
      BY <2>3, <2>4, <3>2, <3>4 DEF Inside
    <3>6. near[n] = 0
      BY <2>5, <3>3, <3>5
    <3>7. pc'[Reader] = "size" /\ (Len(accepted) + 1)' = n
      BY <1>1, <1>2, <1>3, <2>8, <3>1
    <3>8. Heads(near)'
      BY <2>2, <3>3, <3>6, <3>7 DEF Heads
    <3> QED
      BY <2>2, <2>5, <2>7, <3>8 DEF Framing
  <2>9. CASE wire[1] # Start
    <3>1. ASSUME NEW k \in Left PROVE near[k] >= 1
      <4>1. at[k] # 1
        BY <2>1, <2>9 DEF Spread, Lies
      <4> QED
        BY <2>3, <2>4, <2>5, <4>1
    <3>2. pc'[Reader] = "start"
      BY <1>2, <1>3, <2>9
    <3>3. Heads(near)'
      BY <2>2, <3>1, <3>2 DEF Heads
    <3> QED
      BY <2>2, <2>5, <2>7, <3>3 DEF Framing
  <2> QED
    BY <2>8, <2>9
<1> QED
    BY <1>1, <1>4 DEF FInv

(* The byte behind it is the size of that packet. *)
LEMMA SizeStep ==
    ASSUME FInv, IInv', ReadSize
    PROVE  FInv'
<1>1. /\ pc[Reader] = "size" /\ wire # <<>> /\ wire' = Tail(wire)
      /\ pc' = [pc EXCEPT ![Reader] = "body"] /\ size' = Head(wire)
      /\ UNCHANGED <<accepted, sent, lost>>
    BY DEF ReadSize, Goes, GoTo, history
<1>2. pc'[Reader] = "body"
    BY <1>1, Threads DEF FInv, IInv, Typed
<1>3. Nearer(1) /\ Head(wire) = wire[1] /\ wire \in Seq(Byte)
    BY <1>1, OneNearer DEF FInv, IInv, Typed
<1>4. ASSUME lost = 0 PROVE Framing'
  <2>1. PICK at \in [Nat -> Int] : Spread(at) /\ Heads(at)
    BY <1>4 DEF FInv, Framing
  <2>2. Matched' /\ Left' = Left
    BY <1>1, <1>4 DEF FInv, Framing, Matched, Left
  <2>3. /\ \A k \in Left : k \in Nat /\ at[k] \in Int /\ Len(sent[k]) \in Nat
        /\ Len(accepted) \in Nat
    BY LeftIs
  <2>4. PICK n \in Nat : n = Len(accepted) + 1
    BY <2>3
  <2>5. n \in Left /\ at[n] = 0
    BY <1>1, <2>1, <2>4 DEF Heads
  <2>6. ASSUME NEW k \in Left PROVE at[k] >= 0
    <3>1. k # n => at[n] + Len(sent[n]) + 2 < at[k]
      BY <2>1, <2>4, FirstNearest
    <3>2. PICK y \in Int, l \in Nat : y = at[k] /\ l = Len(sent[n])
      BY <2>3, <2>5
    <3>3. k # n => 0 + l + 2 < y
      BY <2>5, <3>1, <3>2
    <3>4. k # n => y >= 0
      BY <3>2, <3>3
    <3> QED
      BY <2>5, <3>2, <3>4
  <2>z. PICK near : near = [k \in Nat |-> at[k] - 1]
    OBVIOUS
  <2>7. near \in [Nat -> Int] /\ near[n] = -1
    BY <2>5, <2>z
  <2>8. Passed(at, 1)
    BY <2>2, <2>3, <2>6 DEF Passed
  <2>9. Spread(near)'
    BY <1>1, <1>3, <2>1, <2>8, <2>z, SpreadNearer
  <2>10. Lies(wire, at[n], sent[n])
    BY <2>1, <2>5 DEF Spread
  <2>11. wire[1] = Len(sent[n])
    BY <2>5, <2>10 DEF Lies
  <2>12. (Len(accepted) + 1)' = n /\ sent' = sent /\ size' = Len(sent[n])
    BY <1>1, <1>3, <2>4, <2>11
  <2>13. Heads(near)'
    BY <1>2, <2>2, <2>5, <2>7, <2>12 DEF Heads
  <2> QED
    BY <2>2, <2>7, <2>9, <2>13 DEF Framing
<1> QED
    BY <1>1, <1>4 DEF FInv

(* What read_process has read when it reads a whole packet is that packet. *)
LEMMA BodyIs ==
    ASSUME NEW w \in Seq(Byte), NEW d \in Seq(Byte), Lies(w, -1, d)
    PROVE  /\ Len(d) \in Nat /\ Len(d) + 1 <= Len(w) /\ w[Len(d) + 1] = Stop
           /\ SubSeq(w, 1, Len(d)) = d
<1>1. PICK l \in Nat : l = Len(d)
    BY LenProperties
<1>2. PICK m \in Nat : m = Len(w)
    BY LenProperties
<1>3. -1 + l + 2 = l + 1 /\ \A i \in 1 .. l : -1 + 1 + i = i
    OBVIOUS
<1>4. l + 1 <= m /\ w[l + 1] = Stop /\ \A i \in 1 .. l : w[i] = d[i]
    BY <1>1, <1>2, <1>3 DEF Lies
<1>5. \A i \in 1 .. l : w[i] \in Byte
  <2>1. \A i \in 1 .. l : i \in 1 .. m
    BY <1>4
  <2> QED
    BY <1>2, <2>1, ElementOfSeq
<1>6. SubSeq(w, 1, l) \in Seq(Byte)
    BY <1>4, <1>5, <1>2
<1>7. SubSeq(w, 1, l) = [i \in 1 .. l |-> w[i]]
    BY <1>1
<1>8. d = [i \in 1 .. l |-> d[i]]
    BY <1>1
<1>9. SubSeq(w, 1, l) = d
    BY <1>4, <1>7, <1>8
<1> QED
    BY <1>1, <1>2, <1>4, <1>9

(* It is accepted. *)
LEMMA BodyStep ==
    ASSUME FInv, IInv', ReadBody
    PROVE  FInv'
<1>1. /\ pc[Reader] = "body" /\ Len(wire) >= size + 1
      /\ wire' = SubSeq(wire, size + 2, Len(wire))
      /\ UNCHANGED <<size, sent, lost>>
    BY DEF ReadBody, Goes
<1>2. /\ wire \in Seq(Byte) /\ wire' \in Seq(Byte) /\ size \in Nat
      /\ accepted \in Seq(Seq(Byte))
    BY DEF FInv, IInv, Typed
<1>3. PICK n \in Nat, z \in Nat, m \in Nat :
          n = size + 1 /\ z = size /\ m = Len(wire) /\ m >= n /\ n = z + 1
  <2>1. Len(wire) \in Nat /\ size \in Nat
    BY <1>2, LenProperties
  <2>2. PICK z \in Nat, m \in Nat : z = size /\ m = Len(wire)
    BY <2>1
  <2>3. m >= z + 1 /\ z + 1 \in Nat
    BY <1>1, <2>2
  <2> QED
    BY <2>2, <2>3
<1>4. Nearer(n)
  <2>1. wire' = SubSeq(wire, n + 1, m)
    BY <1>1, <1>3
  <2>2. wire' = [i \in 1 .. m - n |-> wire[i + n]]
    BY <1>2, <1>3, <2>1
  <2>3. m - n \in Nat
    BY <1>3
  <2>4. Len(wire') = m - n
    BY <2>2, <2>3
  <2> QED
    BY <1>2, <1>3, <2>2, <2>4 DEF Nearer
<1>5. ASSUME lost = 0 PROVE Framing'
  <2>1. PICK at \in [Nat -> Int] : Spread(at) /\ Heads(at)
    BY <1>5 DEF FInv, Framing
  <2>2. /\ \A k \in Left : /\ k \in Nat /\ at[k] \in Int /\ Len(sent[k]) \in Nat
                           /\ sent[k] \in Seq(Byte)
        /\ Len(accepted) \in Nat /\ Len(sent) \in Nat
    BY LeftIs
  <2>3. PICK f \in Nat, u \in Nat, v \in Nat :
            f = Len(accepted) + 1 /\ u = Len(accepted) /\ v = Len(sent) /\ f = u + 1
    BY <2>2
  <2>4. f \in Left /\ at[f] = -1 /\ size = Len(sent[f])
    BY <1>1, <2>1, <2>3 DEF Heads
  <2>5. Lies(wire, -1, sent[f])
    BY <2>1, <2>4 DEF Spread
  <2>6. wire[size + 1] = Stop /\ SubSeq(wire, 1, size) = sent[f]
    BY <1>2, <2>2, <2>4, <2>5, BodyIs
  <2>7. accepted' = Append(accepted, sent[f]) /\ pc' = [pc EXCEPT ![Reader] = "locked"]
    BY <2>6 DEF ReadBody, GoTo
  <2>8. pc'[Reader] = "locked"
    BY <2>7, Threads DEF FInv, IInv, Typed
  <2>9. /\ Len(accepted') = Len(accepted) + 1 /\ accepted'[f] = sent[f]
        /\ \A i \in 1 .. Len(accepted) : accepted'[i] = accepted[i]
    BY <1>2, <2>2, <2>3, <2>4, <2>7, AppendProperties
  <2>10. Left = u + 1 .. v /\ Left' = u + 2 .. v
    <3>1. Len(accepted') = u + 1 /\ (u + 1) + 1 = u + 2
      BY <2>3, <2>9
    <3> QED
      BY <1>1, <2>3, <3>1 DEF Left
  <2>11. Left' \subseteq Left /\ Left \ Left' = {f} /\ f \notin Left'
    <3>1. \A k \in Int : k \in u + 2 .. v => k \in u + 1 .. v
      BY <2>3
    <3>2. \A k \in Int : k \in u + 1 .. v /\ k \notin u + 2 .. v => k = u + 1
      BY <2>3
    <3>3. u + 1 \notin u + 2 .. v
      BY <2>3
    <3>4. \A k : (k \in u + 1 .. v \/ k \in u + 2 .. v) => k \in Int
      BY <2>3
    <3> QED
      BY <2>3, <2>4, <2>10, <3>1, <3>2, <3>3, <3>4
  <2>12. Matched'
    <3>1. Matched
      BY <1>5 DEF FInv, Framing
    <3>2. f <= Len(sent)
      <4>1. u + 1 \in u + 1 .. v
        BY <2>3, <2>4, <2>10
      <4> QED
        BY <2>3, <4>1
    <3>3. \A i \in 1 .. u + 1 : i \in 1 .. u \/ i = u + 1
      BY <2>3
    <3>4. \A i \in 1 .. u + 1 : accepted'[i] = sent[i]
      BY <2>3, <2>9, <3>1, <3>3 DEF Matched
    <3> QED
      BY <1>1, <2>3, <2>9, <3>2, <3>4 DEF Matched
  <2>13. ASSUME NEW k \in Left' PROVE at[k] - n >= 1
    <3>1. k \in Left /\ k # f
      BY <2>11
    <3>2. at[f] + Len(sent[f]) + 2 < at[k]
      BY <2>1, <2>3, <3>1, FirstNearest
    <3>3. PICK y \in Int : y = at[k]
      BY <2>2, <3>1
    <3>4. -1 + z + 2 < y
      BY <1>3, <2>4, <3>2, <3>3
    <3>5. y - n >= 1
      BY <1>3, <3>4
    <3> QED
      BY <3>3, <3>5
  <2>z. PICK near : near = [k \in Nat |-> at[k] - n]
    OBVIOUS
  <2>14. near \in [Nat -> Int] /\ \A k \in Left' : near[k] = at[k] - n
    <3>1. n \in Int /\ \A k \in Nat : at[k] \in Int
      BY <1>3
    <3>2. near \in [Nat -> Int] /\ \A k \in Nat : near[k] = at[k] - n
      BY <2>z, <3>1
    <3>3. \A k \in Left' : k \in Nat
      BY <2>2, <2>11
    <3> QED
      BY <3>2, <3>3
  <2>15. Passed(at, n)
    <3>1. \A k \in Left' : at[k] - n >= -1
      <4> SUFFICES ASSUME NEW k \in Left' PROVE at[k] - n >= -1
        OBVIOUS
      <4>1. PICK y \in Int : y = at[k]
        BY <2>2, <2>11
      <4> QED
        BY <1>3, <2>13, <4>1
    <3>2. at[f] + Len(sent[f]) + 2 <= n
      BY <1>3, <2>4
    <3>3. \A k \in Left \ Left' : k = f
      BY <2>11
    <3> QED
      BY <2>11, <3>1, <3>2, <3>3 DEF Passed
  <2>16. Spread(near)'
    BY <1>1, <1>4, <2>1, <2>15, <2>z, SpreadNearer
  <2>17. Heads(near)'
    BY <2>8, <2>13, <2>14 DEF Heads
  <2> QED
    BY <2>12, <2>14, <2>16, <2>17 DEF Framing
<1> QED
    BY <1>1, <1>5 DEF FInv

(* There is nothing on the wire at first. *)
LEMMA InitFInv == Init => FInv
<1> SUFFICES ASSUME Init PROVE FInv
    OBVIOUS
<1>1. /\ wire = <<>> /\ sent = <<>> /\ accepted = <<>> /\ lost = 0
      /\ pc = [t \in Thread |-> IF t = Reader THEN "init" ELSE "idle"]
    BY DEF Init
<1>2. pc[Reader] = "init" /\ Len(accepted) = 0 /\ Len(sent) = 0 /\ Len(wire) = 0
    BY <1>1, Threads
<1>3. Left = {} /\ Matched
    BY <1>1, <1>2 DEF Left, Matched
<1>4. PICK at \in [Nat -> Int] : TRUE
  <2>1. [k \in Nat |-> 0] \in [Nat -> Int]
    OBVIOUS
  <2> QED
    BY <2>1
<1>5. Spread(at) /\ Heads(at)
    BY <1>2, <1>3 DEF Spread, Heads
<1>6. IInv /\ sent \in Seq(Seq(Byte))
    BY <1>1, InitIInv
<1> QED
    BY <1>1, <1>3, <1>5, <1>6 DEF FInv, Framing

(* A lost byte ends the matter, ... *)
LEMMA LostStep ==
    ASSUME FInv, IInv', NEW i \in DOMAIN wire, ByteLost(i)
    PROVE  FInv'
BY DEF FInv, ByteLost

(* ... and every step keeps it. *)
LEMMA FInvInductive == FInv /\ [Next]_vars => FInv'
<1> SUFFICES ASSUME FInv, [Next]_vars
             PROVE  FInv'
    OBVIOUS
<1>1. IInv'
    BY IInvInductive DEF FInv
<1>2. Reader \in Thread /\ Receiver \in Thread /\ Reader # Receiver /\ DOMAIN pc = Thread
    BY Threads DEF FInv, IInv, Typed
<1>3. CASE Line
    BY <1>1, <1>3, SendsStep, FillsStep, LostStep DEF Line
<1>4. CASE ReadInit \/ ReadPush \/ ReadNotify
  <2>1. /\ UNCHANGED <<wire, size, accepted, sent, lost>>
        /\ pc[Reader] \in {"init", "locked", "notify"}
        /\ pc'[Reader] \in {"start", "notify"}
    BY <1>2, <1>4 DEF ReadInit, ReadPush, ReadNotify, Goes, GoTo, history
  <2> QED
    BY <1>1, <2>1, FramingStands
<1>5. CASE Recvs
  <2>1. UNCHANGED <<wire, size, accepted, sent, lost>> /\ pc'[Reader] = pc[Reader]
    BY <1>2, <1>5 DEF Recvs, RecvWait, RecvGetLock, RecvAgain, RecvTake, RecvReturn,
                      Goes, GoTo, history
  <2> QED
    BY <1>1, <2>1, FramingStands
<1>6. CASE UNCHANGED vars
  <2>1. UNCHANGED <<wire, size, accepted, sent, lost>> /\ pc'[Reader] = pc[Reader]
    BY <1>6 DEF vars, history
  <2> QED
    BY <1>1, <2>1, FramingStands
<1> QED
    BY <1>1, <1>3, <1>4, <1>5, <1>6, StartStep, SizeStep, BodyStep DEF Next, Reads

(* As long as no byte is lost, what read_process accepts is what the host    *)
(* sent, packet by packet, for packets with any content, start and stop      *)
(* bytes included, and any filler between them.                              *)
THEOREM FramedHolds == Spec => []Framed
<1>1. FInv => Framed
  <2> SUFFICES ASSUME FInv, lost = 0
               PROVE  IsPrefix(accepted, sent)
    BY DEF Framed
  <2>1. Matched
    BY DEF FInv, Framing
  <2>2. PICK n \in Nat : n = Len(accepted)
    BY LenProperties DEF FInv, IInv, Typed
  <2>3. accepted \in Seq(Seq(Byte)) /\ sent \in Seq(Seq(Byte)) /\ Len(sent) \in Nat
    BY LenProperties DEF FInv, IInv, Typed
  <2>4. SubSeq(accepted, 1, n) = [i \in 1 .. n |-> accepted[i]]
    BY <2>2, <2>3
  <2>5. SubSeq(sent, 1, n) = [i \in 1 .. n |-> sent[i]]
    BY <2>2, <2>3
  <2>6. SubSeq(accepted, 1, n) = SubSeq(sent, 1, n)
    BY <2>1, <2>2, <2>4, <2>5 DEF Matched
  <2> QED
    BY <2>1, <2>2, <2>6 DEF IsPrefix, Matched
<1> QED
    BY <1>1, InitFInv, FInvInductive, PTL DEF Spec
=============================================================================
