----------------------------- MODULE DriversProofs ---------------------------
(***************************************************************************)
(* The bus drivers keep their invariants (DriversInvariant), for any number *)
(* of threads, sizes of transfers, rings and fifos: what is read is what    *)
(* was asked for, and the datagrams of a UART leave whole and in order.     *)
(***************************************************************************)
EXTENDS DriversInvariant, TLAPS

(* One more byte at the end of a buffer.                                    *)
LEMMA AppendNext ==
    ASSUME NEW n \in Nat
    PROVE  Append([i \in 1 .. n |-> i], n + 1) = [i \in 1 .. n + 1 |-> i]
<1> DEFINE s == [i \in 1 .. n |-> i]
           u == [i \in 1 .. n + 1 |-> i]
<1>1. s \in Seq(Nat) /\ Len(s) = n
    OBVIOUS
<1>2. u \in Seq(Nat) /\ Len(u) = n + 1
    OBVIOUS
<1>3. Append(s, n + 1) \in Seq(Nat) /\ Len(Append(s, n + 1)) = n + 1
    BY <1>1
<1>4. \A i \in 1 .. n + 1 : Append(s, n + 1)[i] = u[i]
    BY <1>1
<1> QED
    BY <1>2, <1>3, <1>4

-----------------------------------------------------------------------------
(* The I2C driver.                                                          *)

(* No transfer is under way at first. *)
LEMMA InitInv == Init => IInv
<1> SUFFICES ASSUME Init PROVE IInv
    OBVIOUS
<1>1. readBuffer = [i \in 1 .. readCount |-> i] /\ Len(readBuffer) = 0
    BY DEF Init
<1>2. /\ api \in Caller \cup {None} /\ line \in Seq(Caller)
      /\ pc \in [Caller -> {"idle", "api", "wait", "done"}]
      /\ status \in [Caller -> BOOLEAN]
    BY DEF Init
<1>3. /\ writeSize \in WriteSizes \cup {0} /\ readSize \in ReadSizes \cup {0}
      /\ writeCount \in 0 .. writeSize /\ readCount \in 0 .. readSize
      /\ taken \in 0 .. writeSize /\ given \in 0 .. readSize
      /\ notify \in 0 .. 1
    BY DEF Init
<1>4. TypeOK
    BY <1>1, <1>2, <1>3 DEF Init, TypeOK
<1> QED
    BY <1>1, <1>4, I2cMasterAssumption DEF Init, IInv, Turns, Bytes, Locked,
       OneThing, Asked, OneNotice, Took, Gave, EndsWell, Truthful

(* Threads, bus and interrupts take turns. *)
LEMMA TurnsStep == IInv /\ [Next]_vars => Turns'
<1> SUFFICES ASSUME IInv, [Next]_vars PROVE Turns'
    OBVIOUS
<1> USE I2cMasterAssumption DEF IInv, Turns, Bytes, sync, obj, peripheral,
   device, TypeOK, Locked, OneThing, Asked, OneNotice, MasterIrq, BusIrq,
   Threads
<1>1. ASSUME NEW t \in Caller, Call(t) PROVE Turns'
    BY <1>1 DEF Call
<1>2. ASSUME NEW t \in Caller, Start(t) PROVE Turns'
    BY <1>2 DEF Start
<1>3. ASSUME NEW t \in Caller, Refuse(t) PROVE Turns'
    BY <1>3 DEF Refuse
<1>4. ASSUME NEW t \in Caller, Notified(t) PROVE Turns'
    BY <1>4 DEF Notified
<1>5. ASSUME NEW t \in Caller, Return(t) PROVE Turns'
    BY <1>5 DEF Return
<1>6. CASE SendAddress
    BY <1>6 DEF SendAddress, Step, Kept
<1>7. CASE Refused("write")
    BY <1>7 DEF Refused, Step, Kept
<1>8. CASE WriteByte
    BY <1>8 DEF WriteByte, Step, Kept
<1>9. CASE Restart
    BY <1>9 DEF Restart, Step, Kept
<1>10. CASE WriteStop
    BY <1>10 DEF WriteStop, Step, Kept
<1>11. CASE Refused("read")
    BY <1>11 DEF Refused, Step, Kept
<1>12. CASE Receive
    BY <1>12 DEF Receive, Step, Kept
<1>13. CASE ReadByte
    BY <1>13 DEF ReadByte, Step, Kept
<1>14. CASE AckMore
    BY <1>14 DEF AckMore, Step, Kept
<1>15. CASE AckStop
    BY <1>15 DEF AckStop, Step, Kept
<1>16. CASE Stopped
    BY <1>16 DEF Stopped, Step, Kept
<1>17. CASE Collision
    BY <1>17 DEF Collision
<1>18. CASE Unit
    BY <1>18 DEF Unit, BusEnds
<1>19. CASE Collide
    BY <1>19 DEF Collide, BusEnds
<1>20. CASE Free
    BY <1>20 DEF Free
<1>21. CASE UNCHANGED vars
    BY <1>21 DEF vars
<1> QED
    BY <1>1, <1>2, <1>3, <1>4, <1>5, <1>6, <1>7, <1>8, <1>9, <1>10, <1>11,
       <1>12, <1>13, <1>14, <1>15, <1>16, <1>17, <1>18, <1>19, <1>20, <1>21
       DEF Next, Continue, Handles

(* The bytes keep up with the counters. *)
LEMMA BytesStep == IInv /\ [Next]_vars => Bytes'
<1> SUFFICES ASSUME IInv, [Next]_vars PROVE Bytes'
    OBVIOUS
<1> USE I2cMasterAssumption, AppendNext DEF IInv, Turns, Bytes, sync, obj,
   peripheral, device, TypeOK, Locked, OneThing, Asked, OneNotice, MasterIrq,
   BusIrq, Threads, Took, Gave, EndsWell
<1>1. ASSUME NEW t \in Caller, Call(t) PROVE Bytes'
    BY <1>1 DEF Call
<1>2. ASSUME NEW t \in Caller, Start(t) PROVE Bytes'
    BY <1>2 DEF Start
<1>3. ASSUME NEW t \in Caller, Refuse(t) PROVE Bytes'
    BY <1>3 DEF Refuse
<1>4. ASSUME NEW t \in Caller, Notified(t) PROVE Bytes'
    BY <1>4 DEF Notified
<1>5. ASSUME NEW t \in Caller, Return(t) PROVE Bytes'
    BY <1>5 DEF Return
<1>6. CASE SendAddress
    BY <1>6 DEF SendAddress, Step, Kept
<1>7. CASE Refused("write")
    BY <1>7 DEF Refused, Step, Kept
<1>8. CASE WriteByte
    BY <1>8 DEF WriteByte, Step, Kept
<1>9. CASE Restart
    BY <1>9 DEF Restart, Step, Kept
<1>10. CASE WriteStop
    BY <1>10 DEF WriteStop, Step, Kept
<1>11. CASE Refused("read")
    BY <1>11 DEF Refused, Step, Kept
<1>12. CASE Receive
    BY <1>12 DEF Receive, Step, Kept
<1>13. CASE ReadByte
    BY <1>13 DEF ReadByte, Step, Kept
<1>14. CASE AckMore
    BY <1>14 DEF AckMore, Step, Kept
<1>15. CASE AckStop
    BY <1>15 DEF AckStop, Step, Kept
<1>16. CASE Stopped
    BY <1>16 DEF Stopped, Step, Kept
<1>17. CASE Collision
    BY <1>17 DEF Collision
<1>18. CASE Unit
    BY <1>18 DEF Unit, BusEnds
<1>19. CASE Collide
    BY <1>19 DEF Collide, BusEnds
<1>20. CASE Free
    BY <1>20 DEF Free
<1>21. CASE UNCHANGED vars
    BY <1>21 DEF vars
<1> QED
    BY <1>1, <1>2, <1>3, <1>4, <1>5, <1>6, <1>7, <1>8, <1>9, <1>10, <1>11,
       <1>12, <1>13, <1>14, <1>15, <1>16, <1>17, <1>18, <1>19, <1>20, <1>21
       DEF Next, Continue, Handles

(* What a caller reads off when it is woken stands until it returns. *)
LEMMA TruthStep == IInv /\ [Next]_vars => Truthful'
<1> SUFFICES ASSUME IInv, [Next]_vars PROVE Truthful'
    OBVIOUS
<1> USE I2cMasterAssumption, AppendNext DEF IInv, Turns, Bytes, sync, obj,
   peripheral, device, TypeOK, Locked, OneThing, Asked, OneNotice, MasterIrq,
   BusIrq, Threads, Took, Gave, EndsWell, Truthful
<1>1. ASSUME NEW t \in Caller, Call(t) PROVE Truthful'
    BY <1>1 DEF Call
<1>2. ASSUME NEW t \in Caller, Start(t) PROVE Truthful'
    BY <1>2 DEF Start
<1>3. ASSUME NEW t \in Caller, Refuse(t) PROVE Truthful'
    BY <1>3 DEF Refuse
<1>4. ASSUME NEW t \in Caller, Notified(t) PROVE Truthful'
    BY <1>4 DEF Notified
<1>5. ASSUME NEW t \in Caller, Return(t) PROVE Truthful'
    BY <1>5 DEF Return
<1>6. CASE SendAddress
    BY <1>6 DEF SendAddress, Step, Kept
<1>7. CASE Refused("write")
    BY <1>7 DEF Refused, Step, Kept
<1>8. CASE WriteByte
    BY <1>8 DEF WriteByte, Step, Kept
<1>9. CASE Restart
    BY <1>9 DEF Restart, Step, Kept
<1>10. CASE WriteStop
    BY <1>10 DEF WriteStop, Step, Kept
<1>11. CASE Refused("read")
    BY <1>11 DEF Refused, Step, Kept
<1>12. CASE Receive
    BY <1>12 DEF Receive, Step, Kept
<1>13. CASE ReadByte
    BY <1>13 DEF ReadByte, Step, Kept
<1>14. CASE AckMore
    BY <1>14 DEF AckMore, Step, Kept
<1>15. CASE AckStop
    BY <1>15 DEF AckStop, Step, Kept
<1>16. CASE Stopped
    BY <1>16 DEF Stopped, Step, Kept
<1>17. CASE Collision
    BY <1>17 DEF Collision
<1>18. CASE Unit
    BY <1>18 DEF Unit, BusEnds
<1>19. CASE Collide
    BY <1>19 DEF Collide, BusEnds
<1>20. CASE Free
    BY <1>20 DEF Free
<1>21. CASE UNCHANGED vars
    BY <1>21 DEF vars
<1> QED
    BY <1>1, <1>2, <1>3, <1>4, <1>5, <1>6, <1>7, <1>8, <1>9, <1>10, <1>11,
       <1>12, <1>13, <1>14, <1>15, <1>16, <1>17, <1>18, <1>19, <1>20, <1>21
       DEF Next, Continue, Handles

(* The counters stay within the sizes. *)
LEMMA TypeStep == IInv /\ [Next]_vars => TypeOK'
<1> SUFFICES ASSUME IInv, [Next]_vars PROVE TypeOK'
    OBVIOUS
<1> USE DEF IInv, TypeOK, sync, obj, peripheral, device
<1>1. ASSUME NEW t \in Caller, Call(t) PROVE TypeOK'
  <2>1. line' \in Seq(Caller) /\ api' \in Caller \cup {None}
    BY <1>1, SMTT(30) DEF Call
  <2>2. pc' \in [Caller -> {"idle", "api", "wait", "done"}]
    BY <1>1 DEF Call
  <2> QED
    BY <1>1, <2>1, <2>2 DEF Call
<1>2. ASSUME NEW t \in Caller, Start(t) PROVE TypeOK'
  BY <1>2, I2cMasterAssumption DEF Start
<1>3. ASSUME NEW t \in Caller, Refuse(t) PROVE TypeOK'
  BY <1>3, I2cMasterAssumption DEF Refuse
<1>4. ASSUME NEW t \in Caller, Notified(t) PROVE TypeOK'
  BY <1>4, I2cMasterAssumption DEF Notified
<1>5. ASSUME NEW t \in Caller, Return(t) PROVE TypeOK'
  <2>1. line # <<>> => Head(line) \in Caller /\ Tail(line) \in Seq(Caller)
    OBVIOUS
  <2>3. line' \in Seq(Caller) /\ api' \in Caller \cup {None}
    BY <1>5, <2>1 DEF Return
  <2>2. pc' \in [Caller -> {"idle", "api", "wait", "done"}]
    BY <1>5 DEF Return
  <2> QED
    BY <1>5, <2>3, <2>2 DEF Return
<1>6. CASE SendAddress
  BY <1>6 DEF SendAddress, Step, Kept
<1>7. CASE Refused("write")
  BY <1>7 DEF Refused, Step, Kept
<1>8. CASE WriteByte
  <2>1. writeCount' \in 0 .. writeSize'
    BY <1>8, I2cMasterAssumption DEF WriteByte, Step
  <2> QED
    BY <1>8, <2>1 DEF WriteByte, Step
<1>9. CASE Restart
  BY <1>9 DEF Restart, Step, Kept
<1>10. CASE WriteStop
  BY <1>10 DEF WriteStop, Step, Kept
<1>11. CASE Refused("read")
  BY <1>11 DEF Refused, Step, Kept
<1>12. CASE Receive
  BY <1>12 DEF Receive, Step, Kept
<1>13. CASE ReadByte
  <2>1. readCount' \in 0 .. readSize'
    BY <1>13, I2cMasterAssumption DEF ReadByte, Step, Bytes, Gave
  <2>2. Len(readBuffer') = readCount'
    BY <1>13, I2cMasterAssumption DEF ReadByte, Step, Bytes, Gave
  <2> QED
    BY <1>13, <2>1, <2>2 DEF ReadByte, Step
<1>14. CASE AckMore
  BY <1>14 DEF AckMore, Step, Kept
<1>15. CASE AckStop
  BY <1>15 DEF AckStop, Step, Kept
<1>16. CASE Stopped
  <2>1. notify' \in 0 .. 1
    BY <1>16 DEF Stopped
  <2> QED
    BY <1>16, <2>1 DEF Stopped, Step
<1>17. CASE Collision
  <2>1. notify' \in 0 .. 1
    BY <1>17 DEF Collision
  <2> QED
    BY <1>17, <2>1, ZenonT(60) DEF Collision
<1>18. CASE Unit
  <2>1. taken' \in 0 .. writeSize
    <3>1. CASE bus = "data"
      <4>1. state = "write" /\ taken + 1 = writeCount
        BY <1>18, <3>1 DEF Unit, BusEnds, Bytes, Took, Turns,
           Asked, OneThing
      <4>2. taken \in Nat /\ writeSize \in Nat
        BY I2cMasterAssumption
      <4> QED
        BY <1>18, <3>1, <4>1, <4>2 DEF Unit
    <3> QED
      BY <1>18, <3>1 DEF Unit
  <2>2. given' \in 0 .. readSize
    <3>1. CASE bus = "receive"
      <4>1. state = "readbyte" /\ given = readCount /\ readCount < readSize
        BY <1>18, <3>1 DEF Unit, BusEnds, Bytes, Gave, Turns,
           Asked, OneThing
      <4>2. given \in Nat /\ readSize \in Nat
        BY I2cMasterAssumption
      <4> QED
        BY <1>18, <3>1, <4>1, <4>2 DEF Unit
    <3> QED
      BY <1>18, <3>1 DEF Unit
  <2>3. sBit' \in BOOLEAN /\ ackBit' \in BOOLEAN
    BY <1>18 DEF Unit, BusEnds
  <2> QED
    BY <1>18, <2>1, <2>2, <2>3 DEF Unit, BusEnds
<1>19. CASE Collide
  BY <1>19 DEF Collide, BusEnds
<1>20. CASE Free
  BY <1>20 DEF Free
<1>21. CASE UNCHANGED vars
  BY <1>21 DEF vars
<1> QED
  BY <1>1, <1>2, <1>3, <1>4, <1>5, <1>6, <1>7, <1>8, <1>9, <1>10, <1>11,
     <1>12, <1>13, <1>14, <1>15, <1>16, <1>17, <1>18, <1>19, <1>20, <1>21 DEF
     Next, Continue, Handles

(* Every step keeps the invariant. *)
LEMMA IInvInductive == IInv /\ [Next]_vars => IInv'
BY TurnsStep, BytesStep, TruthStep, TypeStep DEF IInv, Turns

-----------------------------------------------------------------------------
(* The SPI driver.                                                          *)

(* What the constants are to the SPI driver.                                *)
LEMMA SpiConstants ==
    /\ None \notin Nat /\ None \notin Caller
    /\ SpiFifo \in Nat \ {0} /\ \A n \in TxSizes \cup RxSizes : n \in Nat
BY DriversAssumption, I2cMasterAssumption

(* The first element, the rest and one more. *)
LEMMA HeadAndTail ==
    ASSUME NEW s \in Seq(Nat), s # <<>>
    PROVE  /\ Len(s) \in Nat /\ Len(s) > 0
           /\ Head(s) \in Nat /\ Head(s) = s[1]
           /\ Tail(s) \in Seq(Nat) /\ Len(Tail(s)) = Len(s) - 1
           /\ \A i \in 1 .. Len(s) - 1 : Tail(s)[i] = s[i + 1]
OBVIOUS

(* One more at the end.                                                     *)
LEMMA OneMore ==
    ASSUME NEW s \in Seq(Nat), NEW x \in Nat
    PROVE  /\ Len(s) \in Nat
           /\ Append(s, x) \in Seq(Nat) /\ Len(Append(s, x)) = Len(s) + 1
           /\ Append(s, x)[Len(s) + 1] = x
           /\ \A i \in 1 .. Len(s) : Append(s, x)[i] = s[i]
OBVIOUS

(* At first no transfer is under way. *)
LEMMA SpiInit == Spi!Init => SpiInv
<1> SUFFICES ASSUME Spi!Init PROVE SpiInv
    OBVIOUS
<1>1. SpiTyped
    BY SpiConstants DEF Spi!Init, SpiTyped
<1>2. SpiTurns
    BY SpiConstants DEF Spi!Init, SpiTurns
<1>3. SpiOut /\ SpiIn /\ SpiCounts
    BY SpiConstants DEF Spi!Init, SpiOut, SpiIn, SpiCounts, Written, InShift,
       SpiWords, SpiWord, Spi!Max2
<1>4. SpiOver
    BY DEF Spi!Init, SpiOver
<1> QED
    BY <1>1, <1>2, <1>3, <1>4 DEF SpiInv

(* Counters, fifos and buffers stay numbers.                                *)
LEMMA SpiTypedStep == SpiInv /\ Spi!Next => SpiTyped'
<1> SUFFICES ASSUME SpiInv, Spi!Next PROVE SpiTyped'
    OBVIOUS
<1>0. SpiTyped
    BY DEF SpiInv
<1> USE <1>0, SpiConstants DEF SpiTyped, Spi!sync, Spi!sizes, Spi!enables
<1>1. ASSUME NEW t \in Caller, Spi!Call(t) PROVE SpiTyped'
    BY <1>1 DEF Spi!Call
<1>2. ASSUME NEW t \in Caller, Spi!Start(t) PROVE SpiTyped'
  <2>1. PICK n \in TxSizes, m \in RxSizes :
              /\ sTxSize' = n /\ sRxSize' = m
              /\ sTxFifo' = Append(sTxFifo, IF n > 0 THEN 1 ELSE 0)
              /\ sTxCount' = IF n > 0 THEN 1 ELSE 0
              /\ sDummySize' = Spi!Max2(m - n, 0) - IF n > 0 THEN 0 ELSE 1
    BY <1>2 DEF Spi!Start, Spi!Request
  <2>2. sTxSize' \in Nat /\ sRxSize' \in Nat /\ sTxCount' \in Nat /\ sDummySize' \in Int
    BY <2>1 DEF Spi!Max2
  <2>3. sTxFifo' \in Seq(Nat)
    BY <2>1, OneMore
  <2>4. /\ sPc' = [sPc EXCEPT ![t] = "wait"]
        /\ sRxCount' = 0 /\ sRxFifo' = <<>> /\ sSent' = <<>> /\ sShift' = sShift
    BY <1>2 DEF Spi!Start
  <2>5. sRxFifo' \in Seq(Nat) /\ sSent' \in Seq(Nat)
    BY <2>4
  <2> QED
    BY <2>2, <2>3, <2>4, <2>5
<1>3. ASSUME NEW t \in Caller, Spi!Notified(t) PROVE SpiTyped'
    BY <1>3 DEF Spi!Notified
<1>4. ASSUME NEW t \in Caller, Spi!Return(t) PROVE SpiTyped'
    BY <1>4 DEF Spi!Return
<1>a. ASSUME Spi!RxTake PROVE sRxFifo' \in Seq(Nat) /\ sRxCount' \in Nat
    BY <1>a, HeadAndTail, SMTT(30) DEF Spi!RxTake, Spi!RxIrq
<1>c. sTxCount + 1 \in Nat
    OBVIOUS
<1>b. Append(sTxFifo, sTxCount + 1) \in Seq(Nat) /\ Append(sTxFifo, 0) \in Seq(Nat)
    BY <1>c, OneMore
<1>5. CASE Spi!RxMore
  <2>1. sRxFifo' \in Seq(Nat) /\ sRxCount' \in Nat
    BY <1>5, <1>a DEF Spi!RxMore
  <2>2. sTxFifo' \in Seq(Nat)
    BY <1>5, <1>b DEF Spi!RxMore
  <2>3. sTxCount' \in Nat /\ sDummySize' \in Int
    BY <1>5, <1>c DEF Spi!RxMore
  <2>4. UNCHANGED <<sPc, sTxSize, sRxSize, sShift, sSent>>
    BY <1>5 DEF Spi!RxMore
  <2> QED
    BY <2>1, <2>2, <2>3, <2>4
<1>6. CASE Spi!RxRest
    BY <1>6, <1>a DEF Spi!RxRest
<1>7. CASE Spi!RxDone
    BY <1>7, <1>a DEF Spi!RxDone
<1>8. CASE Spi!TxMore
    BY <1>8, <1>b, <1>c DEF Spi!TxMore
<1>9. CASE Spi!TxDone
    BY <1>9 DEF Spi!TxDone
<1>10. CASE Spi!Load
    BY <1>10, HeadAndTail DEF Spi!Load
<1>11. CASE Spi!Shifted
  <2>1. sSent' \in Seq(Nat)
    BY <1>11, OneMore DEF Spi!Shifted
  <2>2. sRxFifo' \in Seq(Nat)
    BY <1>11, OneMore DEF Spi!Shifted
  <2> QED
    BY <1>11, <2>1, <2>2 DEF Spi!Shifted
<1> QED
    BY <1>1, <1>2, <1>3, <1>4, <1>5, <1>6, <1>7, <1>8, <1>9, <1>10, <1>11
       DEF Spi!Next, Spi!Continue, Spi!Handles

(* Threads, handlers and the peripheral take turns.                         *)
LEMMA SpiTurnsStep == SpiInv /\ Spi!Next => SpiTurns'
<1> SUFFICES ASSUME SpiInv, Spi!Next PROVE SpiTurns'
    OBVIOUS
<1>0. /\ SpiTurns /\ None \notin Caller
      /\ sPc = [t \in Caller |-> sPc[t]]
    BY SpiConstants DEF SpiInv, SpiTyped
<1> USE <1>0 DEF SpiTurns, Spi!sync, Spi!sizes, Spi!enables
<1>1. ASSUME NEW t \in Caller, Spi!Call(t) PROVE SpiTurns'
    BY <1>1 DEF Spi!Call
<1>2. ASSUME NEW t \in Caller, Spi!Start(t) PROVE SpiTurns'
  <2>1. \E m \in RxSizes : sRxie' = (m > 0) /\ sTxie' = (m = 0)
    BY <1>2 DEF Spi!Start, Spi!Request
  <2>2. (sTxie \/ sRxie)' /\ ~(sTxie /\ sRxie)'
    <3>1. PICK m \in RxSizes : sRxie' = (m > 0) /\ sTxie' = (m = 0)
      BY <2>1
    <3>2. (m > 0 \/ m = 0) /\ ~(m > 0 /\ m = 0)
      BY SpiConstants
    <3> QED
      BY <3>1, <3>2, Zenon
  <2>3. /\ sPc[t] = "api" /\ sApi = t /\ sBusy' = TRUE /\ sApi' = sApi
        /\ sPc' = [sPc EXCEPT ![t] = "wait"] /\ sNotify' = sNotify
    BY <1>2 DEF Spi!Start
  <2> QED
    BY <2>2, <2>3
<1>3. ASSUME NEW t \in Caller, Spi!Notified(t) PROVE SpiTurns'
    BY <1>3 DEF Spi!Notified
<1>4. ASSUME NEW t \in Caller, Spi!Return(t) PROVE SpiTurns'
    BY <1>4 DEF Spi!Return
<1>5. CASE Spi!RxMore
    BY <1>5 DEF Spi!RxMore, Spi!RxTake, Spi!RxIrq
<1>6. CASE Spi!RxRest
    BY <1>6 DEF Spi!RxRest, Spi!RxTake, Spi!RxIrq
<1>7. CASE Spi!RxDone
  <2>1. sRxie /\ sRxFifo # <<>>
    BY <1>7 DEF Spi!RxDone, Spi!RxTake, Spi!RxIrq
  <2>2. Len(sRxFifo) + InShift + Len(sTxFifo) = 1
    BY <2>1 DEF SpiCounts, SpiInv
  <2>3. Len(sRxFifo) \in Nat \ {0} /\ Len(sTxFifo) \in Nat
    BY <2>1, HeadAndTail DEF SpiInv, SpiTyped
  <2>4. InShift = 0 /\ Len(sTxFifo) = 0
    BY <2>2, <2>3 DEF InShift
  <2>5. sTxFifo \in Seq(Nat)
    BY DEF SpiInv, SpiTyped
  <2>6. sShift = None /\ sTxFifo = <<>>
    BY <2>4, <2>5 DEF InShift
  <2> QED
    BY <1>7, <2>1, <2>6 DEF Spi!RxDone, Spi!RxTake, Spi!RxIrq
<1>8. CASE Spi!TxMore
    BY <1>8 DEF Spi!TxMore, Spi!TxIrq
<1>9. CASE Spi!TxDone
    BY <1>9 DEF Spi!TxDone, Spi!TxIrq
<1>10. CASE Spi!Load
    BY <1>10 DEF Spi!Load
<1>11. CASE Spi!Shifted
    BY <1>11 DEF Spi!Shifted
<1> QED
    BY <1>1, <1>2, <1>3, <1>4, <1>5, <1>6, <1>7, <1>8, <1>9, <1>10, <1>11
       DEF Spi!Next, Spi!Continue, Spi!Handles

(* The words keep up with the counters.                                     *)
LEMMA SpiBytesStep == SpiInv /\ Spi!Next => (SpiOut /\ SpiIn /\ SpiCounts /\ SpiOver)'
<1> DEFINE Goal == SpiOut /\ SpiIn /\ SpiCounts /\ SpiOver
<1> SUFFICES ASSUME SpiInv, Spi!Next PROVE Goal'
    OBVIOUS
<1>0. SpiTyped /\ SpiTurns /\ SpiOut /\ SpiIn /\ SpiCounts /\ SpiOver
    BY DEF SpiInv
<1>1. ASSUME UNCHANGED <<sSent, sShift, sTxFifo, sTxSize, sRxSize, sTxCount, sRxCount,
                         sRxBuffer, sRxFifo, sDummySize, sRxie, sTxie, sBusy>>,
             \A t \in Caller : sPc'[t] \in {"wait", "done"} => sPc[t] \in {"wait", "done"}
      PROVE  Goal'
  BY <1>0, <1>1 DEF SpiOut, SpiIn, SpiCounts, SpiOver, InShift, Written, SpiWord, SpiWords
<1>2. ASSUME NEW t \in Caller, Spi!Call(t) \/ Spi!Notified(t) \/ Spi!Return(t) PROVE Goal'
  <2>1. \A u \in Caller : sPc'[u] \in {"wait", "done"} => sPc[u] \in {"wait", "done"}
    BY <1>2, <1>0 DEF Spi!Call, Spi!Notified, Spi!Return, SpiTyped
  <2> QED
    BY <1>1, <1>2, <2>1 DEF Spi!Call, Spi!Notified, Spi!Return, Spi!sizes, Spi!enables
<1>3. /\ Len(sSent) \in Nat /\ Len(sTxFifo) \in Nat /\ Len(sRxFifo) \in Nat
      /\ InShift \in 0 .. 1 /\ (InShift = 0 <=> sShift = None)
      /\ (Len(sTxFifo) = 0 <=> sTxFifo = <<>>) /\ (Len(sRxFifo) = 0 <=> sRxFifo = <<>>)
      /\ sTxSize \in Nat /\ sRxSize \in Nat /\ sTxCount \in Nat /\ sRxCount \in Nat
      /\ sDummySize \in Int /\ None \notin Nat
  BY <1>0, SpiConstants DEF SpiTyped, InShift
<1>4. ASSUME NEW t \in Caller, Spi!Start(t) PROVE Goal'
  <2>1. PICK n \in TxSizes, m \in RxSizes :
              /\ n + m > 0
              /\ sTxSize' = n /\ sRxSize' = m
              /\ sTxFifo' = Append(sTxFifo, IF n > 0 THEN 1 ELSE 0)
              /\ sTxCount' = IF n > 0 THEN 1 ELSE 0
              /\ sDummySize' = Spi!Max2(m - n, 0) - IF n > 0 THEN 0 ELSE 1
              /\ sRxie' = (m > 0) /\ sTxie' = (m = 0)
    BY <1>4 DEF Spi!Start, Spi!Request
  <2>2. /\ sShift = None /\ sTxFifo = <<>> /\ sSent' = <<>> /\ sShift' = sShift
        /\ sRxCount' = 0 /\ sRxBuffer' = <<>> /\ sRxFifo' = <<>> /\ sBusy' = TRUE
    BY <1>4, <1>0 DEF Spi!Start, SpiTurns
  <2>3. n \in Nat /\ m \in Nat
    BY SpiConstants
  <2>4. sTxFifo' = <<IF n > 0 THEN 1 ELSE 0>>
    BY <2>1, <2>2
  <2>5. InShift' = 0 /\ Written' = 1 /\ SpiWords' = IF n > m THEN n ELSE m
    BY <2>1, <2>2, <2>4 DEF InShift, Written, SpiWords, Spi!Max2
  <2>6. SpiOut'
    BY <2>1, <2>2, <2>3, <2>4, <2>5 DEF SpiOut, SpiWord
  <2>7. SpiIn'
    BY <2>2 DEF SpiIn
  <2>8. Len(sTxFifo') = 1 /\ Len(sRxFifo') = 0
    BY <2>2, <2>4
  <2>11. (sRxie' => m > 0) /\ (sTxie' => m = 0)
    BY <2>1, Zenon
  <2>12. /\ (sTxCount <= sTxSize)' /\ (sTxCount <= Written)' /\ (Written <= SpiWords)'
         /\ (sTxCount < sTxSize => Written = sTxCount)'
    BY <2>1, <2>3, <2>5
  <2>13. m > 0 => /\ (sDummySize = (SpiWords - sTxSize) - (Written - sTxCount))'
                  /\ (sRxCount < sRxSize)' /\ (Written = sRxCount + 1)'
                  /\ (Len(sRxFifo) + InShift + Len(sTxFifo) = 1)'
    BY <2>1, <2>2, <2>3, <2>5, <2>8 DEF Spi!Max2
  <2>14. m = 0 => (sRxCount = sRxSize)' /\ (Written = sTxCount)' /\ (sRxSize <= sTxCount)'
    BY <2>1, <2>2, <2>3, <2>5
  <2>9. SpiCounts'
    BY <2>2, <2>11, <2>12, <2>13, <2>14 DEF SpiCounts
  <2>10. SpiOver'
    BY <2>2 DEF SpiOver
  <2> QED
    BY <2>6, <2>7, <2>9, <2>10
<1>5. ASSUME Spi!RxTake
      PROVE  /\ sRxFifo # <<>> /\ Len(sRxFifo) = 1 /\ InShift = 0 /\ sTxFifo = <<>>
             /\ sRxFifo' = <<>> /\ sRxCount' = sRxCount + 1 /\ SpiIn'
             /\ sShift = None /\ Written = Len(sSent) /\ Written = sRxCount + 1
             /\ sRxCount < sRxSize /\ sRxie /\ Len(sTxFifo) = 0
             /\ sDummySize = (SpiWords - sTxSize) - (Written - sTxCount)
  <2>1. sRxie /\ sRxFifo # <<>> /\ sRxFifo' = Tail(sRxFifo)
    BY <1>5 DEF Spi!RxTake, Spi!RxIrq
  <2>2. /\ Len(sRxFifo) + InShift + Len(sTxFifo) = 1 /\ sRxCount < sRxSize
        /\ Written = sRxCount + 1 /\ sRxFifo[1] = sRxCount + 1
        /\ sDummySize = (SpiWords - sTxSize) - (Written - sTxCount)
    BY <2>1, <1>0 DEF SpiCounts
  <2>3. Len(sRxFifo) = 1 /\ InShift = 0 /\ Len(sTxFifo) = 0
    <3>1. Len(sRxFifo) # 0
      BY <2>1, <1>3
    <3>2. Len(sRxFifo) \in Nat /\ InShift \in Nat /\ Len(sTxFifo) \in Nat
      BY <1>3
    <3>3. Len(sRxFifo) + InShift + Len(sTxFifo) = 1
      BY <2>2
    <3> HIDE DEF InShift
    <3> QED
      BY <3>1, <3>2, <3>3
  <2>4. sRxCount' = sRxCount + 1 /\ sRxBuffer' = Append(sRxBuffer, Head(sRxFifo))
    BY <2>2, <1>5 DEF Spi!RxTake
  <2>5. sRxFifo \in Seq(Nat)
    BY <1>0 DEF SpiTyped
  <2>6. Head(sRxFifo) = sRxCount + 1
    BY <2>2, <2>5, <2>1, HeadAndTail
  <2>7. Tail(sRxFifo) = <<>>
    BY <2>3, <2>5, <2>1, HeadAndTail
  <2>8. SpiIn'
    BY <2>4, <2>6, <1>0, <1>3, AppendNext DEF SpiIn
  <2>9. Written = Len(sSent)
    BY <2>3, <1>3 DEF Written
  <2> QED
    BY <2>1, <2>2, <2>3, <2>4, <2>7, <2>8, <2>9, <1>3
<1>6. CASE Spi!RxMore
  <2>1. /\ Spi!RxTake /\ sRxCount + 1 < sRxSize
        /\ UNCHANGED <<sTxSize, sRxSize, sTxie, sRxie, sBusy, sShift, sSent>>
    BY <1>6 DEF Spi!RxMore, Spi!sizes, Spi!enables
  <2>2. \/ sTxCount < sTxSize /\ sTxCount' = sTxCount + 1 /\ sDummySize' = sDummySize
           /\ sTxFifo' = Append(sTxFifo, sTxCount + 1)
        \/ sTxCount = sTxSize /\ sTxCount' = sTxCount /\ sDummySize' = sDummySize - 1
           /\ sTxFifo' = Append(sTxFifo, 0)
        \/ sTxCount = sTxSize /\ sDummySize = 0
    BY <1>6 DEF Spi!RxMore
  <2>3. sTxCount <= sTxSize /\ sTxCount <= Written /\ Written <= SpiWords
        /\ (sTxCount < sTxSize => Written = sTxCount)
    BY <1>0 DEF SpiCounts
  <2>4. SpiWords >= sRxSize /\ SpiWords \in Nat /\ SpiWords' = SpiWords
    BY <2>1, <1>3 DEF SpiWords, Spi!Max2
  <2>5. ~ (sTxCount = sTxSize /\ sDummySize = 0)
    BY <2>1, <2>3, <2>4, <1>5, <1>3
  <2>6. sTxFifo' = <<SpiWord(Len(sSent) + 1)>>
    <3>1. sTxCount < sTxSize => SpiWord(Len(sSent) + 1) = sTxCount + 1
      BY <2>1, <2>3, <1>5, <1>3 DEF SpiWord
    <3>2. sTxCount = sTxSize => SpiWord(Len(sSent) + 1) = 0
      BY <2>1, <2>3, <1>5, <1>3 DEF SpiWord
    <3>3. sTxFifo = <<>>
      BY <2>1, <1>5
    <3>4. \/ sTxFifo' = <<sTxCount + 1>> /\ sTxCount < sTxSize
          \/ sTxFifo' = <<0>> /\ sTxCount = sTxSize
      <4>1. CASE sTxCount = sTxSize
        <5>1. sTxFifo' = Append(sTxFifo, 0)
          BY <4>1, <2>2, <2>5, <1>3
        <5> QED
          BY <5>1, <4>1, <3>3
      <4>2. CASE sTxCount < sTxSize
        <5>1. sTxCount # sTxSize
          BY <4>2, <1>3
        <5>2. sTxFifo' = Append(sTxFifo, sTxCount + 1)
          BY <5>1, <2>2
        <5>3. sTxFifo' = <<sTxCount + 1>>
          BY <5>2, <3>3
        <5> QED
          BY <5>3, <4>2
      <4> QED
        BY <4>1, <4>2, <2>3, <1>3
    <3> QED
      BY <3>1, <3>2, <3>4
  <2>7. InShift' = 0 /\ Written' = Written + 1 /\ Len(sTxFifo') = 1
    BY <2>1, <2>6, <1>5, <1>3 DEF InShift, Written
  <2>8. SpiOut'
    BY <2>1, <2>6, <2>7, <1>0, <1>5 DEF SpiOut, SpiWord
  <2>9. \/ sTxCount < sTxSize /\ sTxCount' = sTxCount + 1 /\ sDummySize' = sDummySize
        \/ sTxCount = sTxSize /\ sTxCount' = sTxCount /\ sDummySize' = sDummySize - 1
    BY <2>2, <2>5
  <2>10. ~sTxie /\ sRxie /\ sBusy
    BY <1>5, <2>1, <1>0 DEF SpiTurns
  <2>11. /\ sRxCount' = sRxCount + 1 /\ sRxFifo' = <<>> /\ Len(sRxFifo') = 0
         /\ Written = sRxCount + 1
         /\ sDummySize = (SpiWords - sTxSize) - (Written - sTxCount)
    BY <2>1, <1>5
  <2>12. SpiCounts'
    BY <2>1, <2>3, <2>4, <2>7, <2>9, <2>10, <2>11, <1>3 DEF SpiCounts
  <2>13. SpiOver'
    BY <2>10, <2>1 DEF SpiOver
  <2> QED
    BY <2>8, <2>12, <2>13, <2>1, <1>5
<1>7. CASE Spi!RxRest
  <2>1. /\ Spi!RxTake /\ sRxCount + 1 = sRxSize /\ sTxCount < sTxSize
        /\ UNCHANGED <<sTxSize, sRxSize, sTxCount, sTxFifo, sBusy, sShift, sSent>>
        /\ sRxie' = FALSE
    BY <1>7 DEF Spi!RxRest, Spi!sizes
  <2>2. sTxCount <= sTxSize /\ sTxCount <= Written /\ Written <= SpiWords
        /\ (sTxCount < sTxSize => Written = sTxCount)
    BY <1>0 DEF SpiCounts
  <2>3. InShift' = InShift /\ Written' = Written /\ SpiWords' = SpiWords
    BY <2>1 DEF InShift, Written, SpiWords
  <2>4. SpiOut'
    BY <2>1, <2>3, <1>0 DEF SpiOut, SpiWord
  <2>5. SpiCounts'
    BY <2>1, <2>2, <2>3, <1>3, <1>5 DEF SpiCounts
  <2>6. SpiOver'
    BY <2>1, <1>0, <1>5 DEF SpiOver, SpiTurns
  <2> QED
    BY <2>1, <1>5, <2>4, <2>5, <2>6
<1>8. CASE Spi!RxDone
  <2>1. /\ Spi!RxTake /\ sRxCount + 1 >= sRxSize /\ sTxCount = sTxSize
        /\ UNCHANGED <<sTxSize, sRxSize, sTxCount, sTxFifo, sTxie, sShift, sSent>>
        /\ sRxie' = FALSE
    BY <1>8 DEF Spi!RxDone, Spi!sizes
  <2>2. sTxCount <= Written /\ Written <= SpiWords
    BY <1>0 DEF SpiCounts
  <2>3. InShift' = InShift /\ Written' = Written /\ SpiWords' = SpiWords
    BY <2>1 DEF InShift, Written, SpiWords
  <2>4. SpiOut'
    BY <2>1, <2>3, <1>0 DEF SpiOut, SpiWord
  <2>5. ~sTxie
    BY <2>1, <1>0, <1>5 DEF SpiTurns
  <2>6. SpiCounts'
    BY <2>1, <2>2, <2>3, <2>5, <1>3, <1>5, <1>0 DEF SpiCounts
  <2>7. sRxCount' = sRxSize /\ Written = SpiWords
    BY <2>1, <2>2, <1>3, <1>5 DEF SpiWords, Spi!Max2
  <2>8. SpiOver'
    BY <2>7, <2>3, <2>1 DEF SpiOver
  <2> QED
    BY <2>1, <1>5, <2>4, <2>6, <2>8
<1>9. CASE Spi!TxMore
  <2>1. /\ sTxie /\ sTxFifo = <<>> /\ sTxCount < sTxSize
        /\ sTxFifo' = Append(sTxFifo, sTxCount + 1) /\ sTxCount' = sTxCount + 1
        /\ UNCHANGED <<sTxie, sRxie, sBusy, sTxSize, sRxSize, sRxCount, sRxBuffer,
                       sShift, sRxFifo, sSent>>
    BY <1>9 DEF Spi!TxMore, Spi!TxIrq, Spi!sizes
  <2>2. /\ sRxCount = sRxSize /\ Written = sTxCount /\ sRxSize <= sTxCount
        /\ ~sRxie /\ sBusy
    BY <2>1, <1>0 DEF SpiCounts, SpiTurns
  <2>3. sTxFifo' = <<sTxCount + 1>> /\ Len(sTxFifo') = 1
    BY <2>1
  <2>4. InShift' = InShift /\ Written' = Written + 1 /\ SpiWords' = SpiWords
        /\ Written = Len(sSent) + InShift
    BY <2>1, <2>3, <1>3 DEF InShift, Written, SpiWords
  <2>5. SpiOut'
    BY <2>1, <2>2, <2>3, <2>4, <1>0, <1>3 DEF SpiOut, SpiWord
  <2>6. sTxSize <= SpiWords
    BY <1>3 DEF SpiWords, Spi!Max2
  <2>8. ~sRxie'
    BY <2>1, <2>2
  <2>9. Written' = sTxCount' /\ sTxCount' <= sTxSize'
    <3>1. Written' = sTxCount + 1 /\ sTxCount' = sTxCount + 1 /\ sTxSize' = sTxSize
      BY <2>1, <2>2, <2>4
    <3>2. sTxCount + 1 <= sTxSize
      BY <2>1, <1>3
    <3> QED
      BY <3>1, <3>2
  <2>10. sRxCount' = sRxSize' /\ sRxSize' <= sTxCount' /\ Written' <= SpiWords'
    <3>1. sRxCount' = sRxCount /\ sRxSize' = sRxSize /\ sTxCount' = sTxCount + 1
      BY <2>1
    <3>2. sRxCount' = sRxSize' /\ sRxSize' <= sTxCount'
      BY <3>1, <2>2, <1>3
    <3>3. Written' <= sTxSize /\ SpiWords \in Nat /\ Written' = sTxCount + 1
      BY <2>1, <2>9, <3>1, <1>3 DEF SpiWords, Spi!Max2
    <3> QED
      BY <3>2, <3>3, <2>4, <2>6, <1>3
  <2>7. SpiCounts'
    BY <2>8, <2>9, <2>10, <2>1, <1>3 DEF SpiCounts
  <2> QED
    BY <2>1, <2>2, <2>5, <2>7, <1>0 DEF SpiIn, SpiOver
<1>10. CASE Spi!TxDone
  <2>1. /\ sTxie /\ sTxFifo = <<>> /\ sTxCount = sTxSize /\ sTxie' = FALSE
        /\ UNCHANGED <<sRxie, sTxSize, sRxSize, sTxCount, sRxCount, sRxBuffer,
                       sTxFifo, sShift, sRxFifo, sSent>>
    BY <1>10 DEF Spi!TxDone, Spi!TxIrq, Spi!sizes
  <2>2. /\ sRxCount = sRxSize /\ Written = sTxCount /\ sRxSize <= sTxCount
        /\ ~sRxie
    BY <2>1, <1>0 DEF SpiCounts, SpiTurns
  <2>3. InShift' = InShift /\ Written' = Written /\ SpiWords' = SpiWords
    BY <2>1 DEF InShift, Written, SpiWords
  <2>4. SpiOut'
    BY <2>1, <2>3, <1>0 DEF SpiOut, SpiWord
  <2>5. Written = SpiWords
    BY <2>1, <2>2, <1>3 DEF SpiWords, Spi!Max2
  <2>6. SpiCounts'
    BY <2>1, <2>2, <2>3, <2>5, <1>3 DEF SpiCounts
  <2> QED
    BY <2>1, <2>2, <2>3, <2>4, <2>5, <2>6, <1>0 DEF SpiIn, SpiOver
<1>11. CASE Spi!Load
  <2>1. /\ sShift = None /\ sTxFifo # <<>> /\ sShift' = Head(sTxFifo)
        /\ sTxFifo' = Tail(sTxFifo)
        /\ UNCHANGED <<sBusy, sTxSize, sRxSize, sTxCount, sRxCount, sDummySize,
                       sRxBuffer, sTxie, sRxie, sRxFifo, sSent>>
    BY <1>11 DEF Spi!Load, Spi!sizes, Spi!enables
  <2>2. sTxFifo \in Seq(Nat)
    BY <1>0 DEF SpiTyped
  <2>3. /\ sShift' = sTxFifo[1] /\ sShift' \in Nat /\ Len(sTxFifo') = Len(sTxFifo) - 1
        /\ Len(sTxFifo) > 0
        /\ \A i \in 1 .. Len(sTxFifo) - 1 : sTxFifo'[i] = sTxFifo[i + 1]
    BY <2>1, <2>2, HeadAndTail
  <2>4. InShift = 0 /\ InShift' = 1
    BY <2>1, <2>3, <1>3 DEF InShift
  <2>5. Written' = Written /\ SpiWords' = SpiWords
    BY <2>1, <2>3, <2>4, <1>3 DEF Written, SpiWords
  <2>6. SpiOut'
    BY <2>1, <2>3, <2>4, <1>0, <1>3 DEF SpiOut, SpiWord
  <2>7. SpiCounts'
    BY <2>1, <2>3, <2>4, <2>5, <1>0, <1>3 DEF SpiCounts
  <2>8. ~(~sBusy)
    BY <2>1, <1>0 DEF SpiTurns
  <2> QED
    BY <2>1, <2>6, <2>7, <2>8, <1>0 DEF SpiIn, SpiOver
<1>12. CASE Spi!Shifted
  <2>1. /\ sShift # None /\ sSent' = Append(sSent, sShift) /\ sShift' = None
        /\ sRxFifo' = (IF Len(sRxFifo) < SpiFifo THEN Append(sRxFifo, Len(sSent) + 1)
                                                  ELSE sRxFifo)
        /\ UNCHANGED <<sBusy, sTxSize, sRxSize, sTxCount, sRxCount, sDummySize,
                       sRxBuffer, sTxie, sRxie, sTxFifo>>
    BY <1>12 DEF Spi!Shifted, Spi!sizes, Spi!enables
  <2>2. sShift \in Nat /\ sSent \in Seq(Nat) /\ sRxFifo \in Seq(Nat)
    BY <2>1, <1>0 DEF SpiTyped
  <2>3. /\ Len(sSent') = Len(sSent) + 1 /\ sSent'[Len(sSent) + 1] = sShift
        /\ \A i \in 1 .. Len(sSent) : sSent'[i] = sSent[i]
    BY <2>1, <2>2, OneMore
  <2>4. InShift = 1 /\ InShift' = 0
    BY <2>1, <1>3 DEF InShift
  <2>5. Written' = Written /\ SpiWords' = SpiWords
    BY <2>1, <2>3, <2>4, <1>3 DEF Written, SpiWords
  <2>6. SpiOut'
    BY <2>1, <2>3, <2>4, <1>0, <1>3 DEF SpiOut, SpiWord
  <2>7. ASSUME sRxie
        PROVE Len(sRxFifo') = 1 /\ sRxFifo'[1] = sRxCount + 1
              /\ Len(sRxFifo) = 0 /\ Len(sTxFifo) = 0
    <3>1. Len(sRxFifo) + InShift + Len(sTxFifo) = 1 /\ Written = sRxCount + 1
      BY <2>7, <1>0 DEF SpiCounts
    <3>2. Len(sRxFifo) = 0 /\ Len(sTxFifo) = 0
      BY <3>1, <2>4, <1>3
    <3>3. Len(sSent) + 1 = sRxCount + 1
      BY <3>1, <3>2, <2>4, <1>3 DEF Written
    <3>4. sRxFifo' = Append(sRxFifo, Len(sSent) + 1)
      BY <3>2, <2>1, SpiConstants
    <3> QED
      BY <3>2, <3>3, <3>4, <2>2, <1>3, OneMore
  <2>8. SpiCounts'
    BY <2>1, <2>4, <2>5, <2>7, <1>0, <1>3 DEF SpiCounts
  <2>9. ~(~sBusy)
    BY <2>1, <1>0 DEF SpiTurns
  <2> QED
    BY <2>1, <2>6, <2>8, <2>9, <1>0 DEF SpiIn, SpiOver
<1> QED
  BY <1>2, <1>4, <1>6, <1>7, <1>8, <1>9, <1>10, <1>11, <1>12
     DEF Spi!Next, Spi!Continue, Spi!Handles

(* A call that returns has what it asked for, and a notice has its waiter.  *)
LEMMA SpiShows == SpiInv => Spi!Complete /\ Spi!OneNotice
<1> SUFFICES ASSUME SpiInv PROVE Spi!Complete /\ Spi!OneNotice
    OBVIOUS
<1>0. SpiTyped /\ SpiTurns /\ SpiOut /\ SpiIn /\ SpiCounts /\ SpiOver
    BY DEF SpiInv
<1>1. Spi!OneNotice
    BY <1>0, SpiConstants DEF SpiTurns, Spi!OneNotice
<1>2. ASSUME NEW t \in Caller, sPc[t] = "done"
      PROVE  /\ sSent = [i \in 1 .. SpiWords |-> SpiWord(i)]
             /\ sRxBuffer = [i \in 1 .. sRxSize |-> i]
             /\ sShift = None /\ sTxFifo = <<>>
  <2>1. ~sBusy
    BY <1>0, <1>2 DEF SpiTurns
  <2>2. sShift = None /\ sTxFifo = <<>> /\ sRxCount = sRxSize /\ Written = SpiWords
    BY <2>1, <1>0, <1>2 DEF SpiTurns, SpiOver
  <2>3. Len(sSent) = SpiWords /\ sSent \in Seq(Nat)
    BY <2>2, <1>0 DEF Written, InShift, SpiTyped
  <2>4. sSent = [i \in 1 .. SpiWords |-> sSent[i]]
    BY <2>3
  <2> QED
    BY <2>2, <2>3, <2>4, <1>0 DEF SpiOut, SpiIn
<1> QED
    BY <1>1, <1>2 DEF Spi!Complete, SpiWord, SpiWords

-----------------------------------------------------------------------------
(* Encoder and sensors.                                                     *)

(* At first the handler knows no place.                                     *)
LEMMA EncoderInit == Encoder!Init => EncoderInv
BY DEF Encoder!Init, EncoderInv

(* What the handler reads from the pins.                                    *)
LEMMA PinsValue ==
    ASSUME NEW x \in Int
    PROVE  /\ (IF x % 4 \in {1, 2} THEN 1 ELSE 0) + 2 * (IF x % 4 \in {2, 3} THEN 1 ELSE 0)
                = EncPins(x)
           /\ EncPins(x) \in 0 .. 3
BY DEF EncPins

(* The pins at the two places between edges of b, and next to them.         *)
LEMMA PinsOf ==
    ASSUME NEW k \in Int
    PROVE  /\ k % 2 = 0 => /\ EncPins(2 * k) = 0 /\ EncPins(2 * k + 1) = 1
                           /\ EncPins(2 * k + 2) = 3 /\ EncPins(2 * k - 1) = 2
           /\ k % 2 # 0 => /\ EncPins(2 * k) = 3 /\ EncPins(2 * k + 1) = 2
                           /\ EncPins(2 * k + 2) = 0 /\ EncPins(2 * k - 1) = 1
BY DEF EncPins

(* Whichever way the shaft goes, the handler counts it.                     *)
LEMMA EncoderStep == EncoderInv /\ Encoder!Next => EncoderInv'
<1> SUFFICES ASSUME EncoderInv, Encoder!Next PROVE EncoderInv'
    OBVIOUS
<1>0. eShaft \in Int /\ eSeen \in Int /\ ePosition \in Int /\ eZero \in Int
    BY DEF EncoderInv
<1> USE <1>0
<1>1. CASE Encoder!ResetPosition
    BY <1>1 DEF Encoder!ResetPosition, EncoderInv
<1>2. CASE Encoder!Notify
  <2>1. /\ eChanged /\ ~eChanged' /\ eSeen' = eShaft \div 2 /\ eShaft' = eShaft
        /\ ePrevState' = EncPins(eShaft)
    BY <1>2, PinsValue DEF Encoder!Notify, Encoder!PinA, Encoder!PinB, Encoder!Edges
  <2>2. eShaft \in {2 * eSeen', 2 * eSeen' + 1}
    BY <2>1
  <2>3. ePrevState' \in {EncPins(2 * eSeen'), EncPins(2 * eSeen' + 1)}
    BY <2>1, <2>2
  <2>4. ePosition' = eSeen' - eZero'
    <3>1. CASE ePrevState = Unknown
      <4>1. ePosition' = ePosition
        BY <2>1, <3>1, PinsValue, DriversAssumption, <1>2
           DEF Encoder!Notify, Encoder!PinA, Encoder!PinB, Encoder!Forward, Encoder!Backward
      <4>2. eZero' = eSeen' - ePosition
        BY <3>1, <1>2, <2>1 DEF Encoder!Notify, Encoder!Edges
      <4> QED
        BY <4>1, <4>2, <2>1
    <3>2. CASE ePrevState # Unknown
      <4>1. /\ ePrevState \in {EncPins(2 * eSeen), EncPins(2 * eSeen + 1)}
            /\ eShaft \in {2 * eSeen + 2, 2 * eSeen - 1}
            /\ ePosition = eSeen - eZero
        BY <3>2, <2>1 DEF EncoderInv
      <4>2. /\ eZero' = eZero
            /\ ePosition' = IF <<ePrevState, ePrevState'>> \in Encoder!Forward THEN ePosition + 1
                            ELSE IF <<ePrevState, ePrevState'>> \in Encoder!Backward
                                 THEN ePosition - 1 ELSE ePosition
        BY <3>2, <1>2 DEF Encoder!Notify
      <4>3. CASE eShaft = 2 * eSeen + 2
        <5>1. eSeen' = eSeen + 1
          BY <4>3, <2>1
        <5>2. <<ePrevState, ePrevState'>> \in Encoder!Forward
          BY <4>1, <4>3, <2>1, PinsOf DEF Encoder!Forward
        <5> QED
          BY <5>1, <5>2, <4>1, <4>2
      <4>4. CASE eShaft = 2 * eSeen - 1
        <5>1. eSeen' = eSeen - 1
          BY <4>4, <2>1
        <5>2. /\ <<ePrevState, ePrevState'>> \notin Encoder!Forward
              /\ <<ePrevState, ePrevState'>> \in Encoder!Backward
          BY <4>1, <4>4, <2>1, PinsOf DEF Encoder!Forward, Encoder!Backward
        <5> QED
          BY <5>1, <5>2, <4>1, <4>2
      <4> QED
        BY <4>1, <4>3, <4>4
    <3> QED
      BY <3>1, <3>2
  <2>5. eZero' \in Int
    BY <2>1, <1>2 DEF Encoder!Notify, Encoder!Edges
  <2> QED
    BY <2>1, <2>2, <2>3, <2>4, <2>5 DEF EncoderInv
<1>3. ASSUME NEW d \in {1, -1}, Encoder!Turn(d) PROVE EncoderInv'
  <2>1. /\ ~eChanged /\ eShaft' = eShaft + d
        /\ UNCHANGED <<ePrevState, ePosition, eSeen, eZero>>
        /\ eChanged' = (Encoder!PinB' # Encoder!PinB)
    BY <1>3 DEF Encoder!Turn
  <2>2. CASE ePrevState = Unknown
    BY <2>1, <2>2 DEF EncoderInv
  <2>3. CASE ePrevState # Unknown
    <3>1. eShaft \in {2 * eSeen, 2 * eSeen + 1}
      BY <2>1, <2>3 DEF EncoderInv
    <3>2. eShaft' \in {2 * eSeen, 2 * eSeen + 1} <=> Encoder!PinB' = Encoder!PinB
      BY <2>1, <3>1 DEF Encoder!PinB
    <3>3. eShaft' \in {2 * eSeen - 1, 2 * eSeen, 2 * eSeen + 1, 2 * eSeen + 2}
      BY <2>1, <3>1
    <3>4. ~eChanged' => eShaft' \in {2 * eSeen, 2 * eSeen + 1}
      BY <2>1, <3>2, Zenon
    <3>5. eChanged' => eShaft' \notin {2 * eSeen, 2 * eSeen + 1}
      BY <2>1, <3>2, Zenon
    <3>6. eChanged' => eShaft' \in {2 * eSeen + 2, 2 * eSeen - 1}
      BY <3>3, <3>5
    <3> QED
      BY <2>1, <2>3, <3>4, <3>6 DEF EncoderInv
  <2> QED
    BY <2>2, <2>3
<1> QED
    BY <1>1, <1>2, <1>3 DEF Encoder!Next

-----------------------------------------------------------------------------
(* At first nobody reads.                                                   *)
LEMMA SensorsStart == Sensors!Init => SensorsInv
<1> SUFFICES ASSUME Sensors!Init PROVE SensorsInv
    OBVIOUS
<1>1. SensorsTyped
    BY DriversAssumption DEF Sensors!Init, SensorsTyped, Sensors!NewMutex
<1> QED
    BY <1>1, DriversAssumption DEF Sensors!Init, SensorsInv, AtSensor, Beyond

(* A mutex that somebody holds is not lost by others that lock it.          *)
LEMMA LockKeeps ==
    ASSUME NEW m, NEW t, m = [owner |-> m.owner, waits |-> m.waits],
           m.waits \in Seq(Sensing), t \in Sensing
    PROVE  LET n == Sensors!Lock(m, t, None) IN
           /\ n = [owner |-> n.owner, waits |-> n.waits]
           /\ n.waits \in Seq(Sensing)
           /\ m.owner # None => n.owner = m.owner
<1>1. Append(m.waits, t) \in Seq(Sensing)
    OBVIOUS
<1> QED
    BY <1>1 DEF Sensors!Lock

(* A mutex that is given back stays one.                                    *)
LEMMA UnlockKeeps ==
    ASSUME NEW m, NEW t, m = [owner |-> m.owner, waits |-> m.waits],
           m.waits \in Seq(Sensing)
    PROVE  LET n == Sensors!Unlock(m, t, None) IN
           /\ n = [owner |-> n.owner, waits |-> n.waits]
           /\ n.waits \in Seq(Sensing)
<1>1. m.waits # <<>> => Tail(m.waits) \in Seq(Sensing)
    OBVIOUS
<1> QED
    BY <1>1 DEF Sensors!Unlock

(* What a return leaves.                                                     *)
LEMMA ReturnDoes ==
    ASSUME SensorsInv, NEW t \in Sensing, NEW rv \in BOOLEAN, Sensors!Return(t, rv)
    PROVE  /\ nLk' = [owner |-> nLk'.owner, waits |-> nLk'.waits] /\ nLk'.waits \in Seq(Sensing)
           /\ nProximityLk' = [owner |-> nProximityLk'.owner, waits |-> nProximityLk'.waits]
           /\ nProximityLk'.waits \in Seq(Sensing)
           /\ nStep' \in [Sensing -> 0 .. Setup]
           /\ \A u \in Sensing \ {t} : nPc'[u] = nPc[u] /\ nStep'[u] = nStep[u]
           /\ nPc' = [u \in Sensing |-> nPc'[u]]
           /\ \/ /\ nLine[t] # Proximity /\ nPc'[t] = "idle"
                 /\ UNCHANGED <<nProximityLk, nProximitySet, nStep>>
              \/ /\ nLine[t] = Proximity /\ rv /\ nStep[t] > 0 /\ nPc'[t] = "mux"
                 /\ nProximitySet' = (nStep[t] = Setup) /\ UNCHANGED nProximityLk
                 /\ nStep'[t] = IF nStep[t] = Setup THEN 0 ELSE nStep[t] + 1
              \/ /\ nLine[t] = Proximity /\ (~rv \/ nStep[t] = 0) /\ nPc'[t] = "idle"
                 /\ nProximitySet' = rv /\ UNCHANGED nStep
<1>0. SensorsTyped
    BY DEF SensorsInv
<1>t. nPc = [u \in Sensing |-> nPc[u]] /\ nStep \in [Sensing -> 0 .. Setup] /\ Setup \in Nat \ {0}
    BY <1>0, DriversAssumption DEF SensorsTyped
<1> DEFINE free == Sensors!Unlock(nLk, t, None)
<1>1. /\ free = [owner |-> free.owner, waits |-> free.waits] /\ free.waits \in Seq(Sensing)
      /\ nProximityLk = [owner |-> nProximityLk.owner, waits |-> nProximityLk.waits]
      /\ nProximityLk.waits \in Seq(Sensing)
    BY <1>0, UnlockKeeps DEF SensorsTyped
<1> HIDE DEF free
<1>2. CASE /\ nLine[t] # Proximity
           /\ nLk' = free /\ Sensors!Goto(t, "idle")
           /\ UNCHANGED <<nProximityLk, nProximitySet, nStep>>
    BY <1>1, <1>2, <1>t DEF Sensors!Goto
<1>3. CASE /\ nLine[t] = Proximity /\ rv /\ nStep[t] > 0
           /\ nLk' = Sensors!Lock(free, t, None) /\ Sensors!Goto(t, "mux")
           /\ nStep' = [nStep EXCEPT ![t] = (@ + 1) % (Setup + 1)]
           /\ nProximitySet' = (nStep[t] = Setup)
           /\ UNCHANGED nProximityLk
  <2>1. nLk' = [owner |-> nLk'.owner, waits |-> nLk'.waits] /\ nLk'.waits \in Seq(Sensing)
    BY <1>1, <1>3, LockKeeps
  <2>2. (nStep[t] + 1) % (Setup + 1) = IF nStep[t] = Setup THEN 0 ELSE nStep[t] + 1
    BY <1>t
  <2>3. /\ nStep' \in [Sensing -> 0 .. Setup]
        /\ \A u \in Sensing \ {t} : nStep'[u] = nStep[u]
        /\ nStep'[t] = IF nStep[t] = Setup THEN 0 ELSE nStep[t] + 1
    BY <1>3, <2>2, <1>t
  <2>4. /\ nPc' = [u \in Sensing |-> nPc'[u]] /\ nPc'[t] = "mux"
        /\ \A u \in Sensing \ {t} : nPc'[u] = nPc[u]
    BY <1>3, <1>t DEF Sensors!Goto
  <2> QED
    BY <2>1, <2>3, <2>4, <1>3, <1>1
<1>4. CASE /\ nLine[t] = Proximity /\ (~rv \/ nStep[t] = 0)
           /\ nLk' = free /\ Sensors!Goto(t, "idle")
           /\ nProximityLk' = Sensors!Unlock(nProximityLk, t, None)
           /\ nProximitySet' = rv
           /\ UNCHANGED nStep
  <2>1. /\ nProximityLk' = [owner |-> nProximityLk'.owner, waits |-> nProximityLk'.waits]
        /\ nProximityLk'.waits \in Seq(Sensing)
    BY <1>1, <1>4, UnlockKeeps
  <2>2. /\ nPc' = [u \in Sensing |-> nPc'[u]] /\ nPc'[t] = "idle"
        /\ \A u \in Sensing \ {t} : nPc'[u] = nPc[u]
    BY <1>4, <1>t DEF Sensors!Goto
  <2> QED
    BY <2>1, <2>2, <1>4, <1>1, <1>t
<1> QED
    BY <1>2, <1>3, <1>4 DEF Sensors!Return, free

(* After a return of a transfer that the sensor took, or that the driver     *)
(* reports as failed, everything stands as the next one needs it.            *)
LEMMA ReturnKeeps ==
    ASSUME SensorsInv, NEW t \in Sensing, NEW rv \in BOOLEAN, Sensors!Return(t, rv),
           nPc[t] \in {"mux"} \cup Beyond, nLk.owner = t,
           UNCHANGED <<nLine, nConfigured, nResult>>,
           rv => nPc[t] = "deselect" /\ nResult[t]
    PROVE  SensorsInv'
<1>0. SensorsTyped
    BY DEF SensorsInv
<1>1. /\ nLk' = [owner |-> nLk'.owner, waits |-> nLk'.waits] /\ nLk'.waits \in Seq(Sensing)
      /\ nProximityLk' = [owner |-> nProximityLk'.owner, waits |-> nProximityLk'.waits]
      /\ nProximityLk'.waits \in Seq(Sensing)
      /\ nStep' \in [Sensing -> 0 .. Setup]
      /\ \A u \in Sensing \ {t} : nPc'[u] = nPc[u] /\ nStep'[u] = nStep[u]
      /\ nPc' = [u \in Sensing |-> nPc'[u]]
    BY ReturnDoes
<1>2. SensorsTyped'
    BY <1>0, <1>1 DEF SensorsTyped
<1>3. nPc'[t] \in {"idle", "mux"}
    BY ReturnDoes
<1>4. \A u \in Sensing \ {t} : nPc[u] \notin Beyond
    BY DEF SensorsInv
<1>5. \A u \in Sensing : nPc'[u] \notin Beyond
    BY <1>1, <1>3, <1>4 DEF Beyond
<1>6. \A u \in Sensing : nLine[u] # Proximity => nStep[u] = 0
    BY DEF SensorsInv
<1>13. \A u \in Sensing : nPc'[u] = "sensor" => nLine'[u] = Proximity
    BY <1>1, <1>3 DEF SensorsInv
<1>7. \A u \in Sensing \ {t} : AtSensor(u)' => AtSensor(u) /\ nPc'[u] = "mux"
    BY <1>1, <1>5 DEF AtSensor
<1>8. \A u \in Sensing : AtSensor(u) => nProximityLk.owner = u
    BY DEF SensorsInv
<1>9. CASE /\ nLine[t] # Proximity /\ nPc'[t] = "idle"
           /\ UNCHANGED <<nProximityLk, nProximitySet, nStep>>
  <2>1. ~AtSensor(t) /\ ~AtSensor(t)'
    BY <1>9 DEF AtSensor
  <2>2. \A u \in Sensing : AtSensor(u)' => AtSensor(u) /\ nPc'[u] = "mux" /\ u # t
    BY <1>7, <2>1
  <2>3. \A u \in Sensing : AtSensor(u)' => /\ nStep'[u] > 0 => ~nProximitySet'
                                           /\ nStep'[u] = 0 => nConfigured' = Setup
    <3> SUFFICES ASSUME NEW u \in Sensing, AtSensor(u)'
                 PROVE  /\ nStep'[u] > 0 => ~nProximitySet'
                        /\ nStep'[u] = 0 => nConfigured' = Setup
      OBVIOUS
    <3>1. AtSensor(u) /\ nPc[u] # "deselect"
      BY <2>2, <1>4 DEF Beyond
    <3> QED
      BY <3>1, <1>9 DEF SensorsInv
  <2>4. nProximitySet => nConfigured = Setup
    <3>1. ASSUME NEW u \in Sensing PROVE ~(AtSensor(u) /\ nPc[u] = "deselect")
      BY <2>1, <1>4 DEF Beyond
    <3> QED
      BY <3>1 DEF SensorsInv
  <2> QED
    BY <1>2, <1>5, <1>6, <1>8, <1>9, <1>13, <2>2, <2>3, <2>4 DEF SensorsInv, Beyond
<1>10. ASSUME nLine[t] = Proximity PROVE \A u \in Sensing \ {t} : ~AtSensor(u) /\ ~AtSensor(u)'
    BY <1>10, <1>7, <1>8 DEF AtSensor
<1>11. CASE /\ nLine[t] = Proximity /\ rv /\ nStep[t] > 0 /\ nPc'[t] = "mux"
            /\ nProximitySet' = (nStep[t] = Setup) /\ UNCHANGED nProximityLk
            /\ nStep'[t] = IF nStep[t] = Setup THEN 0 ELSE nStep[t] + 1
  <2>1. AtSensor(t) /\ nConfigured = nStep[t]
    BY <1>11 DEF SensorsInv, AtSensor, Beyond
  <2>2. nStep'[t] > 0 => nStep[t] # Setup
    BY <1>11
  <2>3. nStep'[t] = 0 => nStep[t] = Setup
    BY <1>11, <1>0 DEF SensorsTyped
  <2>4. nProximitySet' => nStep[t] = Setup
    BY <1>11, Zenon
  <2>5. \A u \in Sensing : nLine'[u] # Proximity => nStep'[u] = 0
    BY <1>6, <1>1, <1>11
  <2>6. \A u \in Sensing : AtSensor(u)' => u = t
    BY <1>10, <1>11
  <2> QED
    BY <1>2, <1>5, <1>8, <1>11, <1>13, <2>1, <2>2, <2>3, <2>4, <2>5, <2>6
       DEF SensorsInv, Beyond
<1>12. CASE /\ nLine[t] = Proximity /\ (~rv \/ nStep[t] = 0) /\ nPc'[t] = "idle"
            /\ nProximitySet' = rv /\ UNCHANGED nStep
  <2>1. AtSensor(t)
    BY <1>12 DEF AtSensor
  <2>2. rv => nConfigured = Setup
    BY <1>12, <2>1 DEF SensorsInv
  <2>3. \A u \in Sensing : ~AtSensor(u)'
    BY <1>10, <1>12 DEF AtSensor, Beyond
  <2>4. nProximitySet' => nConfigured = Setup
    BY <1>12, <2>2, Zenon
  <2> QED
    BY <1>2, <1>5, <1>6, <1>12, <1>13, <2>3, <2>4 DEF SensorsInv, Beyond
<1> QED
    BY <1>9, <1>11, <1>12, ReturnDoes

(* Threads, failed transfers and the setup keep the invariant.              *)
LEMMA SensorsStep == SensorsInv /\ Sensors!Next => SensorsInv'
<1> SUFFICES ASSUME SensorsInv, NEW t \in Sensing,
                    \/ Sensors!Continue(t)
                    \/ \E l \in Line : Sensors!Read(t, l)
             PROVE  SensorsInv'
    BY DEF Sensors!Next
<1>0. /\ SensorsTyped
      /\ \A u \in Sensing : nPc[u] \in Beyond => nLk.owner = u
      /\ \A u \in Sensing : AtSensor(u) => nProximityLk.owner = u
      /\ \A u \in Sensing : nLine[u] # Proximity => nStep[u] = 0
      /\ \A u \in Sensing : nPc[u] = "transfer" => nSelected = {nLine[u]}
    BY DEF SensorsInv
<1>t. nPc = [u \in Sensing |-> nPc[u]] /\ nLine = [u \in Sensing |-> nLine[u]]
      /\ nStep \in [Sensing -> 0 .. Setup] /\ nResult \in [Sensing -> BOOLEAN]
      /\ Setup \in Nat \ {0} /\ None \notin Sensing
    BY <1>0, DriversAssumption DEF SensorsTyped
<1>1. CASE Sensors!ClearFails(t)
    BY <1>1, ReturnKeeps DEF Sensors!ClearFails, Sensors!Has
<1>2. CASE Sensors!SelectFails(t)
    BY <1>2, ReturnKeeps DEF Sensors!SelectFails, Sensors!Has, Beyond
<1>3. CASE Sensors!Deselect(t)
    BY <1>3, <1>t, ReturnKeeps DEF Sensors!Deselect, Sensors!Has, Beyond
<1>4. CASE Sensors!DeselectFails(t)
    BY <1>4, <1>t, ReturnKeeps DEF Sensors!DeselectFails, Sensors!Has, Beyond
<1> USE DEF Sensors!Has, Sensors!Goto, Sensors!sensor, Sensors!mux
<1>5. CASE Sensors!InitDone(t)
    BY <1>5, <1>t DEF Sensors!InitDone, SensorsInv, SensorsTyped, AtSensor, Beyond
<1>6. CASE Sensors!Clear(t)
    BY <1>6, <1>t DEF Sensors!Clear, SensorsInv, SensorsTyped, AtSensor, Beyond
<1>7. CASE Sensors!Select(t)
    BY <1>7, <1>t DEF Sensors!Select, SensorsInv, SensorsTyped, AtSensor, Beyond
<1>8. CASE Sensors!Transfer(t)
  <2>1. /\ nPc[t] = "transfer" /\ nLk.owner = t
        /\ nConfigured' = (IF nStep[t] > 0 THEN nStep[t] ELSE nConfigured)
        /\ nResult' = [nResult EXCEPT ![t] = TRUE] /\ nPc' = [nPc EXCEPT ![t] = "deselect"]
        /\ UNCHANGED <<nSelected, nLk, nInitialized, nProximityLk, nProximitySet, nLine, nStep>>
    BY <1>8 DEF Sensors!Transfer
  <2>2. SensorsTyped'
    BY <2>1, <1>0, <1>t DEF SensorsTyped
  <2>3. \A u \in Sensing : AtSensor(u)' <=> AtSensor(u)
    BY <2>1, <1>t DEF AtSensor, Beyond
  <2>4. AtSensor(t) <=> nLine[t] = Proximity
    BY <2>1 DEF AtSensor, Beyond
  <2>5. \A u \in Sensing : AtSensor(u) => (nPc'[u] = "deselect" <=> u = t \/ nPc[u] = "deselect")
    BY <2>1, <1>t
  <2>6. AtSensor(t) => \A u \in Sensing : AtSensor(u) => u = t
    BY <1>0
  <2>7. ~AtSensor(t) => nConfigured' = nConfigured
    BY <2>1, <2>4, <1>0
  <2>8. AtSensor(t) => /\ nStep[t] > 0 => ~nProximitySet
                       /\ nStep[t] = 0 => nConfigured = Setup
    BY <2>1 DEF SensorsInv
  <2>9. AtSensor(t) => nConfigured' = (IF nStep[t] > 0 THEN nStep[t] ELSE Setup)
    BY <2>1, <2>8, <1>t
  <2>10. \A u \in Sensing : u # t => nResult'[u] = nResult[u] /\ nPc'[u] = nPc[u]
    BY <2>1, <1>t
  <2>11. CASE AtSensor(t)
    <3>1. nStep[t] > 0 \/ nConfigured' = Setup
      BY <2>11, <2>9
    <3>2. nProximitySet' => nConfigured' = Setup
      BY <3>1, <2>1, <2>8, <2>11
    <3>3. \A u \in Sensing : nPc'[u] \in Beyond => nPc[u] \in Beyond
      BY <2>1, <1>t DEF Beyond
    <3>4. \A u \in Sensing : nPc'[u] = "transfer" => nPc[u] = "transfer"
      BY <2>1, <1>t
    <3>5. nPc'[t] = "deselect"
      BY <2>1, <1>t
    <3> QED
      BY <2>1, <2>2, <2>3, <2>6, <2>8, <2>9, <2>11, <3>2, <3>3, <3>4, <3>5, <1>0
         DEF SensorsInv
  <2>12. CASE ~AtSensor(t)
    <3>1. \A u \in Sensing : AtSensor(u) => u # t
      BY <2>12
    <3>3. \A u \in Sensing : nPc'[u] \in Beyond => nPc[u] \in Beyond
      BY <2>1, <1>t DEF Beyond
    <3>4. \A u \in Sensing : nPc'[u] = "transfer" => nPc[u] = "transfer"
      BY <2>1, <1>t
    <3> QED
      BY <2>1, <2>2, <2>3, <2>7, <2>10, <2>12, <3>1, <3>3, <3>4 DEF SensorsInv
  <2> QED
    BY <2>11, <2>12
<1>9. CASE Sensors!TransferFails(t)
    BY <1>9, <1>t DEF Sensors!TransferFails, SensorsInv, SensorsTyped, AtSensor, Beyond
<1>10. CASE Sensors!ReadProximity(t)
  <2>1. /\ nPc[t] = "sensor" /\ nProximityLk.owner = t
        /\ nStep' = [nStep EXCEPT ![t] = IF nProximitySet THEN 0 ELSE 1]
        /\ nLk' = Sensors!Lock(nLk, t, None) /\ nPc' = [nPc EXCEPT ![t] = "mux"]
        /\ UNCHANGED <<nSelected, nInitialized, nProximityLk, nProximitySet, nConfigured,
                       nLine, nResult>>
    BY <1>10 DEF Sensors!ReadProximity
  <2>2. /\ nLk' = [owner |-> nLk'.owner, waits |-> nLk'.waits] /\ nLk'.waits \in Seq(Sensing)
        /\ (nLk.owner # None => nLk'.owner = nLk.owner)
    BY <2>1, <1>0, LockKeeps DEF SensorsTyped
  <2>3. SensorsTyped'
    <3>1. nStep' \in [Sensing -> 0 .. Setup]
      BY <2>1, <1>t
    <3>2. nPc' = [u \in Sensing |-> nPc'[u]] /\ nLine' = [u \in Sensing |-> nLine'[u]]
      BY <2>1, <1>t
    <3> QED
      BY <3>1, <3>2, <2>1, <2>2, <1>0 DEF SensorsTyped
  <2>4. \A u \in Sensing : AtSensor(u) => u # t
    BY <2>1 DEF AtSensor, Beyond
  <2>5. \A u \in Sensing : ~AtSensor(u)
    BY <2>1, <2>4, <1>0
  <2>6. \A u \in Sensing : u # t => ~AtSensor(u)'
    BY <2>1, <2>5, <1>t DEF AtSensor
  <2>7. nProximitySet => nConfigured = Setup
    BY <2>5 DEF SensorsInv
  <2>8. /\ nStep'[t] > 0 => ~nProximitySet
        /\ nStep'[t] = 0 => nConfigured = Setup
    <3>1. CASE nProximitySet
      BY <3>1, <2>1, <2>7, <1>t
    <3>2. CASE ~nProximitySet
      BY <3>2, <2>1, <1>t
    <3> QED
      BY <3>1, <3>2
  <2>9. \A u \in Sensing : nPc'[u] \in Beyond => nPc[u] \in Beyond /\ nPc'[u] = nPc[u]
    BY <2>1, <1>t DEF Beyond
  <2>10. nPc'[t] = "mux"
    BY <2>1, <1>t
  <2>p. CASE nLine[t] = Proximity
    <3>1. \A u \in Sensing : nLine'[u] # Proximity => nStep'[u] = 0
      BY <2>1, <2>p, <1>0, <1>t
    <3>2. \A u \in Sensing : AtSensor(u)' => u = t
      BY <2>6
    <3> QED
      BY <2>1, <2>2, <2>3, <3>2, <2>7, <2>8, <2>9, <2>10, <3>1, <1>0, <1>t
         DEF SensorsInv, Beyond
  <2> QED
    BY <2>p, <2>1 DEF SensorsInv
<1>11. ASSUME NEW l \in Line, Sensors!Read(t, l) PROVE SensorsInv'
  <2>1. /\ nPc[t] = "idle" /\ nLine' = [nLine EXCEPT ![t] = l]
        /\ nStep' = [nStep EXCEPT ![t] = 0]
        /\ \/ /\ l = Proximity /\ nProximityLk' = Sensors!Lock(nProximityLk, t, None)
              /\ nPc' = [nPc EXCEPT ![t] = "sensor"] /\ nLk' = nLk
           \/ /\ l # Proximity /\ nLk' = Sensors!Lock(nLk, t, None)
              /\ nPc' = [nPc EXCEPT ![t] = "mux"] /\ nProximityLk' = nProximityLk
        /\ UNCHANGED <<nSelected, nInitialized, nProximitySet, nConfigured, nResult>>
    BY <1>11 DEF Sensors!Read
  <2>2. /\ nLk' = [owner |-> nLk'.owner, waits |-> nLk'.waits] /\ nLk'.waits \in Seq(Sensing)
        /\ (nLk.owner # None => nLk'.owner = nLk.owner)
        /\ nProximityLk' = [owner |-> nProximityLk'.owner, waits |-> nProximityLk'.waits]
        /\ nProximityLk'.waits \in Seq(Sensing)
        /\ (nProximityLk.owner # None => nProximityLk'.owner = nProximityLk.owner)
    <3>1. /\ nLk = [owner |-> nLk.owner, waits |-> nLk.waits] /\ nLk.waits \in Seq(Sensing)
          /\ nProximityLk = [owner |-> nProximityLk.owner, waits |-> nProximityLk.waits]
          /\ nProximityLk.waits \in Seq(Sensing)
      BY <1>0 DEF SensorsTyped
    <3>2. CASE l = Proximity
      <4>1. nProximityLk' = Sensors!Lock(nProximityLk, t, None) /\ nLk' = nLk
        BY <3>2, <2>1
      <4> QED
        BY <3>1, <4>1, LockKeeps
    <3>3. CASE l # Proximity
      <4>1. nLk' = Sensors!Lock(nLk, t, None) /\ nProximityLk' = nProximityLk
        BY <3>3, <2>1
      <4> QED
        BY <3>1, <4>1, LockKeeps
    <3> QED
      BY <3>2, <3>3
  <2>3. SensorsTyped'
    <3>1. nStep' \in [Sensing -> 0 .. Setup]
      BY <2>1, <1>t
    <3>2. nPc' = [u \in Sensing |-> nPc'[u]] /\ nLine' = [u \in Sensing |-> nLine'[u]]
      BY <2>1, <1>t
    <3> QED
      BY <3>1, <3>2, <2>1, <2>2, <1>0 DEF SensorsTyped
  <2>4. ~AtSensor(t)
    BY <2>1 DEF AtSensor, Beyond
  <2>5. /\ \/ nPc'[t] = "sensor" /\ nLine'[t] = Proximity
           \/ nPc'[t] = "mux" /\ nLine'[t] # Proximity
        /\ nStep'[t] = 0
    BY <2>1, <1>t
  <2>6. \A u \in Sensing : u # t => nPc'[u] = nPc[u] /\ nLine'[u] = nLine[u] /\ nStep'[u] = nStep[u]
    BY <2>1, <1>t
  <2>7. ~AtSensor(t)'
    BY <2>5 DEF AtSensor, Beyond
  <2>8. \A u \in Sensing : AtSensor(u)' <=> AtSensor(u)
    BY <2>4, <2>6, <2>7 DEF AtSensor
  <2>9. \A u \in Sensing : AtSensor(u) => u # t
    BY <2>4
  <2>10. nPc'[t] \notin Beyond
    BY <2>5 DEF Beyond
  <2>11. \A u \in Sensing : nPc'[u] \in Beyond => nLk'.owner = u
    BY <2>2, <2>6, <2>10, <1>0, <1>t
  <2>12. \A u \in Sensing : AtSensor(u)' => nProximityLk'.owner = u
    BY <2>2, <2>8, <1>0, <1>t
  <2>13. \A u \in Sensing : nPc'[u] = "transfer" => nSelected' = {nLine'[u]}
    BY <2>1, <2>5, <2>6, <1>0
  <2>14. /\ \A u \in Sensing : nLine'[u] # Proximity => nStep'[u] = 0
         /\ \A u \in Sensing : nPc'[u] = "sensor" => nLine'[u] = Proximity
    BY <2>5, <2>6 DEF SensorsInv
  <2> QED
    BY <2>1, <2>3, <2>6, <2>8, <2>9, <2>11, <2>12, <2>13, <2>14 DEF SensorsInv
<1> QED
    BY <1>1, <1>2, <1>3, <1>4, <1>5, <1>6, <1>7, <1>8, <1>9, <1>10, <1>11
       DEF Sensors!Continue

(* A reading is of its own sensor, set up.                                  *)
LEMMA SensorsShow == SensorsInv => Sensors!Addressed
BY DEF SensorsInv, Sensors!Addressed, AtSensor, Beyond

-----------------------------------------------------------------------------
(* The UART: what is on its way as one line.                                *)

(* What the constants are to the UART.                                      *)
LEMMA UartConstants ==
    /\ None \notin Driver /\ Ring \in Nat \ {0} /\ UartFifo \in Nat \ {0}
    /\ \A n \in UartSizes : n \in Nat \ {0} /\ n # RequestSize
    /\ RequestSize \in Nat \ {0} /\ ReplySize \in Nat \ {0}
    /\ Heard \in Nat /\ Heard >= RequestSize + ReplySize
    /\ Reader \in Driver /\ Before \in Nat /\ Before >= 2 /\ Numbers \in Nat \ {0}
BY DriversAssumption

(* Around the ring once. *)
LEMMA Around ==
    ASSUME NEW x \in 0 .. 2 * Ring - 1
    PROVE  /\ x < Ring => x % Ring = x
           /\ ~(x < Ring) => x % Ring = x - Ring
<1>1. Ring \in Nat \ {0}
    BY UartConstants
<1>2. CASE x < Ring
    BY <1>1, <1>2
<1>3. CASE x >= Ring
  <2>1. x - Ring \in 0 .. Ring - 1
    BY <1>1, <1>3
  <2>2. x = Ring * 1 + (x - Ring)
    BY <1>1
  <2>3. \A q \in Int, r \in 0 .. Ring - 1 : (Ring * q + r) % Ring = r
    BY <1>1
  <2>4. (Ring * 1 + (x - Ring)) % Ring = x - Ring
    <3>1. 1 \in Int
      OBVIOUS
    <3> QED
      BY <2>1, <2>3, <3>1, Zenon
  <2>5. x % Ring = x - Ring
    BY <2>2, <2>4, Zenon
  <2>6. ~(x < Ring)
    BY <1>1, <1>3
  <2> QED
    BY <2>5, <2>6
<1> QED
    BY <1>2, <1>3, <1>1

(* How many bytes are on the ring.                                          *)
LEMMA PendIs ==
    ASSUME UTyped
    PROVE  /\ Pend = IF uIn >= uOut THEN uIn - uOut ELSE uIn - uOut + Ring
           /\ Pend \in 0 .. Ring - 1
<1>1. uIn \in 0 .. Ring - 1 /\ uOut \in 0 .. Ring - 1 /\ Ring \in Nat \ {0}
    BY UartConstants DEF UTyped, URing
<1>2. uIn - uOut + Ring \in 0 .. 2 * Ring - 1
    BY <1>1
<1> DEFINE p == uIn - uOut + Ring
<1>3. /\ p < Ring => Pend = p
      /\ ~(p < Ring) => Pend = p - Ring
  <2>1. p \in 0 .. 2 * Ring - 1 /\ Pend = p % Ring
    BY <1>2 DEF Pend, Uart!PendingBytes
  <2> HIDE DEF p
  <2> QED
    BY <2>1, Around, Zenon
<1> QED
    BY <1>1, <1>3

(* The line of bytes begins with the one clocked out last.                  *)
LEMMA FlyingIs ==
    ASSUME UTyped
    PROVE  /\ Flying \in Nat /\ Len(uFifo) \in Nat /\ Pend \in Nat
           /\ (Flying = 0 <=> uFifo = <<>> /\ Pend = 0)
           /\ Flight[0] = uWire
           /\ \A j \in 0 .. Flying : Flight[j] \in UByte
<1>1. Pend \in 0 .. Ring - 1 /\ Ring \in Nat \ {0}
    BY PendIs, UartConstants
<1>2. uFifo \in Seq(UByte) /\ Len(uFifo) \in Nat
    BY DEF UTyped, URing
<1>3. /\ Flying \in Nat /\ Len(uFifo) \in Nat /\ Pend \in Nat
      /\ (Flying = 0 <=> uFifo = <<>> /\ Pend = 0)
    BY <1>1, <1>2 DEF Flying
<1>4. Flight[0] = uWire
    BY <1>3 DEF Flight
<1>5. ASSUME NEW j \in 0 .. Flying PROVE Flight[j] \in UByte
  <2>1. CASE j = 0
    BY <2>1, <1>4 DEF UTyped, URing
  <2>2. CASE j # 0 /\ j <= Len(uFifo)
    <3>1. Flight[j] = uFifo[j]
      BY <2>2, <1>3 DEF Flight
    <3> QED
      BY <3>1, <2>2, <1>2, <1>3
  <2>3. CASE j > Len(uFifo)
    <3>1. uOut + (j - Len(uFifo) - 1) \in 0 .. 2 * Ring - 1
      <4>1. uOut \in 0 .. Ring - 1 /\ j <= Len(uFifo) + Pend
        BY DEF UTyped, URing, Flying
      <4> QED
        BY <4>1, <2>3, <1>1, <1>2
    <3> DEFINE p == uOut + (j - Len(uFifo) - 1)
    <3>4. (p < Ring => p % Ring = p) /\ (~(p < Ring) => p % Ring = p - Ring)
      BY <3>1, Around, Zenon
    <3>2. (uOut + (j - Len(uFifo) - 1)) % Ring \in 0 .. Ring - 1
      BY <3>1, <3>4, <1>1
    <3>3. Flight[j] = uBuffer[(uOut + (j - Len(uFifo) - 1)) % Ring]
      BY <2>3, <1>2, <1>3 DEF Flight
    <3> QED
      BY <3>2, <3>3 DEF UTyped, URing
  <2> QED
    BY <2>1, <2>2, <2>3, <1>3
<1> QED
    BY <1>3, <1>4, <1>5

(* It is a function of ring, fifo and wire.                                 *)
LEMMA FlightSame ==
    ASSUME UNCHANGED <<uBuffer, uIn, uOut, uFifo, uWire>>
    PROVE  Pend' = Pend /\ Flying' = Flying /\ Flight' = Flight
BY DEF Pend, Flying, Flight, Uart!PendingBytes

(* A byte is clocked out. *)
LEMMA FlightShift ==
    ASSUME UTyped, uFifo # <<>>, uWire' = Head(uFifo), uFifo' = Tail(uFifo),
           UNCHANGED <<uBuffer, uIn, uOut>>
    PROVE  /\ Flying > 0 /\ Flying' = Flying - 1 /\ Pend' = Pend
           /\ \A j \in 0 .. Flying - 1 : Flight'[j] = Flight[j + 1]
<1>1. /\ Pend \in Nat /\ Len(uFifo) \in Nat \ {0} /\ Len(uFifo') = Len(uFifo) - 1
      /\ Head(uFifo) = uFifo[1] /\ \A i \in 1 .. Len(uFifo) - 1 : Tail(uFifo)[i] = uFifo[i + 1]
  <2>1. uFifo \in Seq(UByte)
    BY DEF UTyped, URing
  <2> QED
    BY <2>1, FlyingIs
<1>2. Pend' = Pend
    BY DEF Pend, Uart!PendingBytes
<1>3. Flying > 0 /\ Flying' = Flying - 1 /\ Flying \in Nat
    BY <1>1, <1>2 DEF Flying
<1>4. ASSUME NEW j \in 0 .. Flying - 1 PROVE Flight'[j] = Flight[j + 1]
  <2>1. Flight'[j] = IF j = 0 THEN uWire' ELSE IF j <= Len(uFifo') THEN uFifo'[j]
                     ELSE uBuffer'[(uOut' + (j - Len(uFifo') - 1)) % Ring]
    BY <1>3 DEF Flight
  <2>2. Flight[j + 1] = IF j + 1 <= Len(uFifo) THEN uFifo[j + 1]
                        ELSE uBuffer[(uOut + (j + 1 - Len(uFifo) - 1)) % Ring]
    BY <1>3 DEF Flight
  <2>3. CASE j = 0
    BY <2>1, <2>2, <2>3, <1>1
  <2>4. CASE j # 0 /\ j + 1 <= Len(uFifo)
    BY <2>1, <2>2, <2>4, <1>1
  <2>5. CASE j + 1 > Len(uFifo)
    <3>1. j - Len(uFifo') - 1 = j + 1 - Len(uFifo) - 1
      BY <1>1
    <3>2. j # 0 /\ ~(j <= Len(uFifo'))
      BY <2>5, <1>1
    <3>3. ~(j + 1 <= Len(uFifo))
      BY <2>5, <1>1
    <3> QED
      BY <2>1, <2>2, <3>1, <3>2, <3>3
  <2> QED
    BY <2>3, <2>4, <2>5, <1>1
<1> QED
    BY <1>2, <1>3, <1>4

(* The handler moves a byte from the ring to the fifo. *)
LEMMA FlightPull ==
    ASSUME UTyped, Pend > 0, uFifo' = Append(uFifo, uBuffer[uOut]),
           uOut' = (uOut + 1) % Ring, UNCHANGED <<uBuffer, uIn, uWire>>
    PROVE  /\ Flying' = Flying /\ Pend' = Pend - 1
           /\ \A j \in 0 .. Flying : Flight'[j] = Flight[j]
<1>0. /\ uIn \in 0 .. Ring - 1 /\ uOut \in 0 .. Ring - 1 /\ Ring \in Nat \ {0}
      /\ uFifo \in Seq(UByte) /\ uBuffer[uOut] \in UByte /\ Pend \in 0 .. Ring - 1
      /\ Flying \in Nat /\ Len(uFifo) \in Nat
    BY UartConstants, PendIs, FlyingIs DEF UTyped, URing
<1>1. uOut' = IF uOut + 1 < Ring THEN uOut + 1 ELSE 0
  <2>1. uOut + 1 \in 0 .. 2 * Ring - 1
    BY <1>0
  <2> DEFINE p == uOut + 1
  <2>2. /\ p < Ring => p % Ring = p
        /\ ~(p < Ring) => p % Ring = p - Ring
    <3>1. p \in 0 .. 2 * Ring - 1
      BY <2>1
    <3> HIDE DEF p
    <3> QED
      BY <3>1, Around, Zenon
  <2> QED
    BY <2>1, <2>2, <1>0
<1>2. Pend' = Pend - 1
  <2>1. Pend = IF uIn >= uOut THEN uIn - uOut ELSE uIn - uOut + Ring
    BY PendIs
  <2>2. uIn' - uOut' + Ring \in 0 .. 2 * Ring - 1
    BY <1>0, <1>1
  <2> DEFINE p == uIn' - uOut' + Ring
  <2>3. /\ p < Ring => Pend' = p
        /\ ~(p < Ring) => Pend' = p - Ring
    <3>1. p \in 0 .. 2 * Ring - 1 /\ Pend' = p % Ring
      BY <2>2 DEF Pend, Uart!PendingBytes
    <3> HIDE DEF p
    <3> QED
      BY <3>1, Around, Zenon
  <2> QED
    BY <2>1, <2>3, <1>0, <1>1
<1>3. /\ Len(uFifo') = Len(uFifo) + 1 /\ uFifo'[Len(uFifo) + 1] = uBuffer[uOut]
      /\ \A i \in 1 .. Len(uFifo) : uFifo'[i] = uFifo[i]
    BY <1>0
<1>4. Flying' = Flying
    BY <1>0, <1>2, <1>3 DEF Flying
<1>5. ASSUME NEW j \in 0 .. Flying PROVE Flight'[j] = Flight[j]
  <2>1. Flight'[j] = IF j = 0 THEN uWire' ELSE IF j <= Len(uFifo') THEN uFifo'[j]
                     ELSE uBuffer'[(uOut' + (j - Len(uFifo') - 1)) % Ring]
    BY <1>4 DEF Flight
  <2>2. Flight[j] = IF j = 0 THEN uWire ELSE IF j <= Len(uFifo) THEN uFifo[j]
                        ELSE uBuffer[(uOut + (j - Len(uFifo) - 1)) % Ring]
    BY DEF Flight
  <2>3. CASE j <= Len(uFifo)
    BY <2>1, <2>2, <2>3, <1>3, <1>0
  <2>4. CASE j = Len(uFifo) + 1
    <3>1. (uOut + (j - Len(uFifo) - 1)) % Ring = uOut
      <4>1. uOut + (j - Len(uFifo) - 1) = uOut
        BY <2>4, <1>0
      <4>2. uOut \in 0 .. 2 * Ring - 1 /\ uOut < Ring
        BY <1>0
      <4>3. uOut % Ring = uOut
        BY <4>2, Around
      <4> QED
        BY <4>1, <4>3
    <3> QED
      BY <2>1, <2>2, <2>4, <3>1, <1>3, <1>0
  <2>5. CASE j > Len(uFifo) + 1
    <3> DEFINE k == j - Len(uFifo) - 1
    <3>1. k \in 1 .. Pend - 1
      BY <2>5, <1>0 DEF Flying
    <3>2. uOut + k \in 0 .. 2 * Ring - 1 /\ uOut' + (k - 1) \in 0 .. 2 * Ring - 1
      BY <3>1, <1>0, <1>1
    <3>3. (uOut + k) % Ring = (uOut' + (k - 1)) % Ring
      <4> DEFINE p == uOut + k
                 q == uOut' + (k - 1)
      <4>1. /\ p < Ring => p % Ring = p
            /\ ~(p < Ring) => p % Ring = p - Ring
            /\ q < Ring => q % Ring = q
            /\ ~(q < Ring) => q % Ring = q - Ring
        <5>1. p \in 0 .. 2 * Ring - 1 /\ q \in 0 .. 2 * Ring - 1
          BY <3>2
        <5> HIDE DEF p, q
        <5> QED
          BY <5>1, Around, Zenon
      <4>3. p % Ring = q % Ring
        <5>1. CASE uOut + 1 < Ring
          <6>1. q = p
            BY <5>1, <1>0, <1>1, <3>1
          <6> HIDE DEF p, q
          <6> QED
            BY <6>1
        <5>2. CASE uOut + 1 >= Ring
          <6>1. q = p - Ring /\ q < Ring /\ ~(p < Ring)
            BY <5>2, <1>0, <1>1, <3>1
          <6> HIDE DEF p, q
          <6> QED
            BY <6>1, <4>1
        <5> QED
          BY <5>1, <5>2, <1>0
      <4> QED
        BY <4>3
    <3>4. j - Len(uFifo') - 1 = k - 1
      BY <1>3, <1>0
    <3>5. j # 0 /\ ~(j <= Len(uFifo')) /\ ~(j <= Len(uFifo))
      BY <2>5, <1>3, <1>0
    <3> QED
      BY <2>1, <2>2, <3>3, <3>4, <3>5
  <2> QED
    BY <2>3, <2>4, <2>5, <1>0
<1> QED
    BY <1>2, <1>4, <1>5

(* The place, from 1 on, of an index of the ring in what is pushed.          *)
PushPlace(i) == ((i - uIn + Ring) % Ring) + 1

(* It is counted from the incoming end of the ring.                         *)
LEMMA PushPlaceIs ==
    ASSUME UTyped, NEW i \in 0 .. Ring - 1
    PROVE  /\ i >= uIn => PushPlace(i) = i - uIn + 1
           /\ i < uIn => PushPlace(i) = i - uIn + Ring + 1
<1>1. uIn \in 0 .. Ring - 1 /\ Ring \in Nat \ {0}
    BY UartConstants DEF UTyped, URing
<1> DEFINE p == i - uIn + Ring
<1>2. (p < Ring => p % Ring = p) /\ (~(p < Ring) => p % Ring = p - Ring)
  <2>1. p \in 0 .. 2 * Ring - 1
    BY <1>1
  <2> HIDE DEF p
  <2> QED
    BY <2>1, Around, Zenon
<1>3. PushPlace(i) = (p % Ring) + 1
    BY DEF PushPlace
<1>4. (i < uIn <=> p < Ring) /\ (i >= uIn <=> ~(p < Ring))
    BY <1>1
<1>5. p = i - uIn + Ring /\ p - Ring = i - uIn
    BY <1>1
<1> HIDE DEF p
<1> QED
    BY <1>2, <1>3, <1>4, <1>5

(* Where the k-th byte from the outgoing end of the ring lies.               *)
LEMMA IndexIs ==
    ASSUME UTyped, NEW k \in 0 .. Ring - 1
    PROVE  /\ (uOut + k) % Ring \in 0 .. Ring - 1
           /\ uOut + k < Ring => (uOut + k) % Ring = uOut + k
           /\ uOut + k >= Ring => (uOut + k) % Ring = uOut + k - Ring
<1>1. uOut \in 0 .. Ring - 1 /\ Ring \in Nat \ {0}
    BY UartConstants DEF UTyped, URing
<1> DEFINE p == uOut + k
<1>2. (p < Ring => p % Ring = p) /\ (~(p < Ring) => p % Ring = p - Ring)
  <2>1. p \in 0 .. 2 * Ring - 1
    BY <1>1
  <2> HIDE DEF p
  <2> QED
    BY <2>1, Around, Zenon
<1>3. p \in 0 .. 2 * Ring - 1
    BY <1>1
<1>4. /\ p % Ring \in 0 .. Ring - 1
      /\ p < Ring => p % Ring = p
      /\ p >= Ring => p % Ring = p - Ring
  <2> HIDE DEF p
  <2> QED
    BY <1>1, <1>2, <1>3
<1> QED
    BY <1>1, <1>4

(* The place in what is pushed of the k-th byte from the outgoing end.      *)
LEMMA PlaceOfIndex ==
    ASSUME UTyped, NEW k \in 0 .. Ring - 1
    PROVE  PushPlace((uOut + k) % Ring) = IF k < Pend THEN k - Pend + Ring + 1 ELSE k - Pend + 1
<1>1. /\ uOut \in 0 .. Ring - 1 /\ uIn \in 0 .. Ring - 1 /\ Ring \in Nat \ {0}
      /\ Pend = (IF uIn >= uOut THEN uIn - uOut ELSE uIn - uOut + Ring)
      /\ Pend \in 0 .. Ring - 1
    BY UartConstants, PendIs DEF UTyped, URing
<1> DEFINE i == (uOut + k) % Ring
<1>2. /\ i \in 0 .. Ring - 1
      /\ uOut + k < Ring => i = uOut + k
      /\ uOut + k >= Ring => i = uOut + k - Ring
    BY IndexIs
<1> HIDE DEF i
<1>3. /\ i >= uIn => PushPlace(i) = i - uIn + 1
      /\ i < uIn => PushPlace(i) = i - uIn + Ring + 1
    BY <1>2, PushPlaceIs
<1>4. PushPlace(i) = IF k < Pend THEN k - Pend + Ring + 1 ELSE k - Pend + 1
    BY <1>1, <1>2, <1>3
<1> QED
    BY <1>4 DEF i

(* The ring holds what is pushed in addition.                               *)
LEMMA PushCount ==
    ASSUME UTyped, NEW n \in Nat, n <= Ring - 1 - Pend,
           uIn' = (uIn + n) % Ring, uOut' = uOut
    PROVE  Pend' = Pend + n
<1>1. /\ uOut \in 0 .. Ring - 1 /\ uIn \in 0 .. Ring - 1 /\ Ring \in Nat \ {0}
      /\ Pend = (IF uIn >= uOut THEN uIn - uOut ELSE uIn - uOut + Ring)
      /\ Pend \in 0 .. Ring - 1
    BY UartConstants, PendIs DEF UTyped, URing
<1>2. /\ uIn + n < Ring => uIn' = uIn + n
      /\ ~(uIn + n < Ring) => uIn' = uIn + n - Ring
  <2> DEFINE p == uIn + n
  <2>1. p \in 0 .. 2 * Ring - 1 /\ uIn' = p % Ring
    BY <1>1
  <2>2. (p < Ring => p % Ring = p) /\ (~(p < Ring) => p % Ring = p - Ring)
    <3> HIDE DEF p
    <3> QED
      BY <2>1, Around, Zenon
  <2>3. (p < Ring => uIn' = p) /\ (~(p < Ring) => uIn' = p - Ring)
    <3> HIDE DEF p
    <3> QED
      BY <2>1, <2>2, Zenon
  <2> QED
    BY <2>3, <1>1
<1>3. Pend' = Pend + n
  <2> DEFINE p == uIn' - uOut' + Ring
  <2>1. p \in 0 .. 2 * Ring - 1 /\ Pend' = p % Ring
    BY <1>1, <1>2 DEF Pend, Uart!PendingBytes
  <2>2. (p < Ring => Pend' = p) /\ (~(p < Ring) => Pend' = p - Ring)
    <3> HIDE DEF p
    <3> QED
      BY <2>1, Around, Zenon
  <2>3. Pend + n \in 0 .. Ring - 1
    BY <1>1
  <2>4. p = Pend + n \/ p = Pend + n + Ring
    BY <1>1, <1>2
  <2> HIDE DEF p
  <2>5. CASE p = Pend + n
    BY <2>5, <2>2, <2>3, <1>1
  <2>6. CASE p = Pend + n + Ring
    <3>1. ~(p < Ring) /\ p - Ring = Pend + n
      BY <2>6, <2>3, <1>1
    <3> QED
      BY <3>1, <2>2, Zenon
  <2> QED
    BY <2>4, <2>5, <2>6
<1> QED
    BY <1>3

(* A thread pushes n bytes of a datagram of z, of which a are on the ring.   *)
Pushes(n, d, a, z) ==
    /\ n <= Ring - 1 - Pend
    /\ uBuffer' = [i \in 0 .. Ring - 1 |->
           IF PushPlace(i) <= n THEN <<d, a + PushPlace(i), z>> ELSE uBuffer[i]]
    /\ uIn' = (uIn + n) % Ring /\ UNCHANGED <<uOut, uFifo, uWire>>

(* What is pushed comes behind what flies.                                  *)
LEMMA FlightPush ==
    ASSUME UTyped, NEW n \in Nat, NEW d \in Nat, NEW a \in Nat, NEW z \in Nat, Pushes(n, d, a, z)
    PROVE  /\ Pend' = Pend + n /\ Flying' = Flying + n
           /\ \A j \in 0 .. Flying : Flight'[j] = Flight[j]
           /\ \A i \in 1 .. n : Flight'[Flying + i] = <<d, a + i, z>>
<1>0. /\ n <= Ring - 1 - Pend
      /\ uBuffer' = [i \in 0 .. Ring - 1 |->
             IF PushPlace(i) <= n THEN <<d, a + PushPlace(i), z>> ELSE uBuffer[i]]
      /\ uIn' = (uIn + n) % Ring /\ UNCHANGED <<uOut, uFifo, uWire>>
    BY DEF Pushes
<1>1. /\ uOut \in 0 .. Ring - 1 /\ uIn \in 0 .. Ring - 1 /\ Ring \in Nat \ {0}
      /\ Pend = (IF uIn >= uOut THEN uIn - uOut ELSE uIn - uOut + Ring)
      /\ Pend \in 0 .. Ring - 1 /\ Len(uFifo) \in Nat /\ Flying \in Nat
      /\ n \in 0 .. Ring - 1 /\ n <= Ring - 1 - Pend
  <2>1. Pend \in 0 .. Ring - 1 /\ Ring \in Nat \ {0}
    BY PendIs, UartConstants
  <2>2. n \in 0 .. Ring - 1
    BY <2>1, <1>0
  <2> QED
    BY <1>0, <2>1, <2>2, PendIs, FlyingIs DEF UTyped, URing
<1>3. Pend' = Pend + n
  <2>1. n <= Ring - 1 - Pend /\ uIn' = (uIn + n) % Ring /\ uOut' = uOut
    BY <1>0
  <2> QED
    BY <2>1, PushCount
<1>4. Flying' = Flying + n
    BY <1>0, <1>1, <1>3 DEF Flying
<1>5. ASSUME NEW j \in 0 .. Flying + n
      PROVE  Flight'[j] = IF j <= Flying THEN Flight[j] ELSE <<d, a + (j - Flying), z>>
  <2>1. Flight'[j] = IF j = 0 THEN uWire ELSE IF j <= Len(uFifo) THEN uFifo[j]
                     ELSE uBuffer'[(uOut + (j - Len(uFifo) - 1)) % Ring]
    BY <1>0, <1>4 DEF Flight
  <2>2. j <= Flying => Flight[j] = IF j = 0 THEN uWire ELSE IF j <= Len(uFifo) THEN uFifo[j]
                        ELSE uBuffer[(uOut + (j - Len(uFifo) - 1)) % Ring]
    BY <1>1 DEF Flight
  <2>3. CASE j <= Len(uFifo)
    <3>1. j <= Flying
      BY <2>3, <1>1 DEF Flying
    <3> QED
      BY <2>1, <2>2, <2>3, <3>1
  <2>4. CASE j > Len(uFifo)
    <3> DEFINE k == j - Len(uFifo) - 1
               i == (uOut + k) % Ring
    <3>1. k \in 0 .. Ring - 1 /\ k < Pend + n
      BY <2>4, <1>1 DEF Flying
    <3>2. (k < Pend <=> j <= Flying) /\ (k >= Pend => k - Pend + 1 = j - Flying)
      BY <2>4, <1>1 DEF Flying
    <3>3. j # 0 /\ ~(j <= Len(uFifo))
      BY <2>4, <1>1
    <3> HIDE DEF k
    <3>4. i \in 0 .. Ring - 1
      BY <3>1, IndexIs
    <3>5. PushPlace(i) = IF k < Pend THEN k - Pend + Ring + 1 ELSE k - Pend + 1
      BY <3>1, PlaceOfIndex
    <3> HIDE DEF i
    <3>6. uBuffer'[i] = IF PushPlace(i) <= n THEN <<d, a + PushPlace(i), z>> ELSE uBuffer[i]
      BY <1>0, <3>4
    <3>7. Flight'[j] = uBuffer'[i]
      BY <2>1, <3>3 DEF i, k
    <3>8. j <= Flying => Flight[j] = uBuffer[i]
      BY <2>2, <3>3 DEF i, k
    <3>9. CASE k < Pend
      <4>1. ~(PushPlace(i) <= n)
        BY <3>9, <3>5, <3>1, <1>1
      <4> QED
        BY <4>1, <3>9, <3>2, <3>6, <3>7, <3>8
    <3>10. CASE ~(k < Pend)
      <4>1. PushPlace(i) = j - Flying /\ PushPlace(i) <= n
        BY <3>10, <3>5, <3>1, <3>2, <1>1
      <4> QED
        BY <4>1, <3>10, <3>2, <3>6, <3>7
    <3> QED
      BY <3>9, <3>10
  <2> QED
    BY <2>3, <2>4, <1>1
<1>6. \A i \in 1 .. n : Flight'[Flying + i] = <<d, a + i, z>>
  <2> SUFFICES ASSUME NEW i \in 1 .. n PROVE Flight'[Flying + i] = <<d, a + i, z>>
    OBVIOUS
  <2> DEFINE j == Flying + i
  <2>1. j \in 0 .. Flying + n /\ ~(j <= Flying) /\ j - Flying = i
    BY <1>1
  <2> HIDE DEF j
  <2>2. Flight'[j] = <<d, a + (j - Flying), z>>
    BY <2>1, <1>5
  <2>3. Flight'[j] = <<d, a + i, z>>
    BY <2>1, <2>2
  <2> QED
    BY <2>3 DEF j
<1>7. \A j \in 0 .. Flying : Flight'[j] = Flight[j]
  <2> SUFFICES ASSUME NEW j \in 0 .. Flying PROVE Flight'[j] = Flight[j]
    OBVIOUS
  <2>1. j \in 0 .. Flying + n /\ j <= Flying
    BY <1>1
  <2> QED
    BY <2>1, <1>5
<1> QED
    BY <1>3, <1>4, <1>6, <1>7

(* One more byte in the fifo, ...                                           *)
LEMMA OneByteMore ==
    ASSUME NEW s \in Seq(UByte), NEW b \in UByte
    PROVE  Append(s, b) \in Seq(UByte)
OBVIOUS

(* ... and one less.                                                        *)
LEMMA OneByteLess ==
    ASSUME NEW s \in Seq(UByte), s # <<>>
    PROVE  Tail(s) \in Seq(UByte) /\ Head(s) \in UByte
OBVIOUS

(* Threads but push.                                                         *)
LEMMA ThreadLine ==
    ASSUME NEW t \in Driver, Uart!Write(t) \/ Uart!Request \/ Uart!Continue(t), ~Uart!WritePush(t)
    PROVE  UNCHANGED <<uBuffer, uIn, uOut, uFifo, uWire>>
<1>1. ASSUME Uart!Write(t) \/ Uart!Request
      PROVE  UNCHANGED <<uBuffer, uIn, uOut, uFifo, uWire>>
    BY <1>1 DEF Uart!Write, Uart!Request, Uart!Begin, Uart!ring
<1>2. ASSUME Uart!Continue(t)
      PROVE  UNCHANGED <<uBuffer, uIn, uOut, uFifo, uWire>>
    BY <1>2 DEF Uart!Continue, Uart!ring, Uart!FlushLook, Uart!FlushGet, Uart!WriteStart,
       Uart!WriteFull, Uart!WriteRoom, Uart!WriteEnd, Uart!Sent, Uart!ClearLook,
       Uart!ClearRead, Uart!EchoWait, Uart!EchoRead, Uart!EchoLast, Uart!ReplyWait,
       Uart!ReplyTimeout, Uart!ReplyRead, Uart!ReplyLast
<1> QED
    BY <1>1, <1>2

(* Only pushes, the handler and the peripheral move bytes.                  *)
LEMMA LineStep ==
    ASSUME Uart!Next
    PROVE  \/ UNCHANGED <<uBuffer, uIn, uOut, uFifo, uWire>>
           \/ \E t \in Driver : Uart!WritePush(t)
           \/ Uart!TxPull
           \/ Uart!Shift
<1>1. ASSUME NEW t \in Driver, Uart!Write(t) \/ Uart!Request \/ Uart!Continue(t), ~Uart!WritePush(t)
      PROVE  UNCHANGED <<uBuffer, uIn, uOut, uFifo, uWire>>
    BY <1>1, ThreadLine
<1>3. ASSUME Uart!Handles, ~Uart!TxPull
      PROVE  UNCHANGED <<uBuffer, uIn, uOut, uFifo, uWire>>
    BY <1>3 DEF Uart!Handles, Uart!ring, Uart!TxInterrupt, Uart!TxNothing, Uart!TxEmpty,
       Uart!TxFull
<1>4. ASSUME Uart!Reply
      PROVE  UNCHANGED <<uBuffer, uIn, uOut, uFifo, uWire>>
    BY <1>4 DEF Uart!Reply, Uart!ring
<1> QED
    BY <1>1, <1>3, <1>4, UartConstants DEF Uart!Next

(* The ring stays a ring, the fifo a sequence of bytes.                     *)
LEMMA URingStep ==
    ASSUME UTyped, Uart!Next
    PROVE  URing'
<1>0. URing /\ Ring \in Nat \ {0}
    BY UartConstants DEF UTyped
<1>1. CASE UNCHANGED <<uBuffer, uIn, uOut, uFifo, uWire>>
    BY <1>0, <1>1 DEF URing
<1>2. ASSUME NEW t \in Driver, Uart!WritePush(t) PROVE URing'
  <2> DEFINE n == Uart!Less(Uart!FreeCount, uSize[t] - uPushed[t])
  <2>1. Pend \in 0 .. Ring - 1 /\ Uart!FreeCount = Ring - 1 - Pend
    BY PendIs DEF Uart!FreeCount, Pend
  <2>2. uSize[t] \in Nat /\ uPushed[t] \in Nat /\ uDatagrams \in Nat
    BY <1>2 DEF UTyped, UThreads
  <2>3. n \in Int
    BY <2>1, <2>2, <1>0 DEF Uart!Less
  <2>4. /\ uBuffer' = [i \in 0 .. Ring - 1 |->
               IF PushPlace(i) <= n THEN <<uDatagrams, uPushed[t] + PushPlace(i), uSize[t]>>
               ELSE uBuffer[i]]
        /\ uIn' = (uIn + n) % Ring /\ UNCHANGED <<uOut, uFifo, uWire>>
    BY <1>2 DEF Uart!WritePush, PushPlace
  <2> HIDE DEF n
  <2>5. \A i \in 0 .. Ring - 1 : PushPlace(i) \in Nat
    BY PushPlaceIs, <1>0 DEF URing
  <2>6. \A i \in 0 .. Ring - 1 : <<uDatagrams, uPushed[t] + PushPlace(i), uSize[t]>> \in UByte
    BY <2>2, <2>5 DEF UByte
  <2>7. uBuffer' \in [0 .. Ring - 1 -> UByte]
    BY <2>4, <2>6, <1>0 DEF URing
  <2>8. uIn' \in 0 .. Ring - 1
    <3>1. uIn + n \in Int
      BY <2>3, <1>0 DEF URing
    <3> DEFINE p == uIn + n
    <3>2. p \in Int
      BY <3>1
    <3>3. uIn' = p % Ring
      BY <2>4
    <3> HIDE DEF p
    <3> QED
      BY <3>2, <3>3, <1>0
  <2> QED
    BY <2>4, <2>7, <2>8, <1>0 DEF URing
<1>3. CASE Uart!TxPull
  <2>1. /\ uFifo' = Append(uFifo, uBuffer[uOut])
        /\ uOut' = (uOut + 1) % Ring /\ UNCHANGED <<uBuffer, uIn, uWire>>
    BY <1>3 DEF Uart!TxPull
  <2>2. uBuffer[uOut] \in UByte
    BY <1>0 DEF URing
  <2>3. uFifo' \in Seq(UByte)
    BY <1>0, <2>1, <2>2, OneByteMore DEF URing
  <2>4. uOut' \in 0 .. Ring - 1
    BY <1>0, <2>1 DEF URing
  <2> QED
    BY <1>0, <2>1, <2>3, <2>4 DEF URing
<1>4. CASE Uart!Shift
  <2>1. /\ uFifo # <<>> /\ uFifo' = Tail(uFifo) /\ uWire' = Head(uFifo)
        /\ UNCHANGED <<uBuffer, uIn, uOut>>
    BY <1>4 DEF Uart!Shift, Uart!ring
  <2>2. uFifo' \in Seq(UByte) /\ uWire' \in UByte
    BY <1>0, <2>1, OneByteLess DEF URing
  <2> QED
    BY <1>0, <2>1, <2>2 DEF URing
<1> QED
    BY <1>1, <1>2, <1>3, <1>4, LineStep

(* What a read leaves on the receive ring.                                  *)
LEMMA ReadRest ==
    ASSUME NEW s \in Seq(Nat), NEW r, r = SubSeq(s, 2, Len(s))
    PROVE  /\ r \in Seq(Nat)
           /\ s # <<>> => Len(r) = Len(s) - 1 /\ \A i \in 1 .. Len(s) - 1 : r[i] = s[i + 1]
           /\ s = <<>> => r = <<>>
<1>1. Len(s) \in Nat
    OBVIOUS
<1>2. CASE s = <<>>
  <2>1. r = <<>>
    BY <1>2
  <2> QED
    BY <2>1, <1>2
<1>3. CASE s # <<>>
  <2>1. \A i \in 2 .. Len(s) : s[i] \in Nat
    OBVIOUS
  <2>2. r = [i \in 1 .. Len(s) - 1 |-> s[i + 1]]
    BY <1>1, <1>3
  <2>3. Len(s) - 1 \in Nat
    BY <1>1, <1>3
  <2>4. \A i \in 1 .. Len(s) - 1 : s[i + 1] \in Nat
    BY <2>1, <1>1
  <2>5. r \in Seq(Nat)
    BY <2>2, <2>3, <2>4
  <2>6. Len(r) = Len(s) - 1
    <3> DEFINE n == Len(s) - 1
    <3>1. n \in Nat /\ DOMAIN r = 1 .. n /\ DOMAIN r = 1 .. Len(r) /\ Len(r) \in Nat
      BY <2>2, <2>3, <2>5
    <3> HIDE DEF n
    <3>2. Len(r) = n
      BY <3>1
    <3> QED
      BY <3>2 DEF n
  <2>7. \A i \in 1 .. Len(s) - 1 : r[i] = s[i + 1]
    BY <2>2
  <2> QED
    BY <2>5, <2>6, <2>7, <1>3
<1> QED
    BY <1>2, <1>3

-----------------------------------------------------------------------------
(* Threads and the mutex.                                                   *)

(* A step of a thread leaves the others where they are.                      *)
Acted(t) ==
    /\ UThreads'
    /\ \A u \in Driver \ {t} : uPc'[u] = uPc[u] /\ uSize'[u] = uSize[u] /\ uPushed'[u] = uPushed[u]
    /\ Local(t)' /\ (Held(t)' => uMutex'.owner = t)
    /\ uMutex'.owner = uMutex.owner \/ uMutex.owner \in {None, t}

(* A mutex changes hands by its owner only, or from nobody.                 *)
LEMMA UartLocks ==
    ASSUME NEW m, NEW t, m = [owner |-> m.owner, waits |-> m.waits]
    PROVE  /\ LET n == Uart!Lock(m, t, None) IN
              /\ n = [owner |-> n.owner, waits |-> n.waits]
              /\ n.owner = m.owner \/ m.owner = None
           /\ LET n == Uart!Unlock(m, t, None) IN
              /\ n = [owner |-> n.owner, waits |-> n.waits]
              /\ n.owner = m.owner \/ m.owner = t
BY DEF Uart!Lock, Uart!Unlock

(* A step that moves one thread and leaves the mutex and the sizes.         *)
LEMMA UartUnmoved ==
    ASSUME UTyped, UHolds, NEW t \in Driver, NEW at,
           uPc' = [uPc EXCEPT ![t] = at], UNCHANGED <<uSize, uPushed, uMutex>>, uDatagrams' \in Nat
    PROVE  /\ UThreads'
           /\ uPc'[t] = at /\ uSize'[t] = uSize[t] /\ uPushed'[t] = uPushed[t]
           /\ \A u \in Driver \ {t} : uPc'[u] = uPc[u] /\ uSize'[u] = uSize[u] /\ uPushed'[u] = uPushed[u]
           /\ uMutex'.owner = uMutex.owner
           /\ Local(t) /\ (Held(t) => uMutex.owner = t)
           /\ uSize[t] \in Nat /\ uPushed[t] \in Nat
           /\ RequestSize \in Nat \ {0}
           /\ uSize[t] # 0 => uSize[t] \in Nat \ {0}
<1>1. UThreads
    BY DEF UTyped
<1>2. UThreads'
    BY <1>1 DEF UThreads
<1>3. uPc'[t] = at /\ \A u \in Driver \ {t} : uPc'[u] = uPc[u]
    BY <1>1 DEF UThreads
<1> QED
    BY <1>1, <1>2, <1>3, UartConstants DEF UThreads, UHolds

(* The steps of a thread, one after the other.                              *)
LEMMA FlushLookActs ==
    ASSUME UTyped, UHolds, NEW t \in Driver, Uart!FlushLook(t)
    PROVE  Acted(t)
<1> DEFINE at == IF Uart!PendingBytes = 0 THEN Uart!After(t) ELSE "empty"
<1>1. /\ uPc' = [uPc EXCEPT ![t] = at] /\ UNCHANGED <<uSize, uPushed, uMutex>>
      /\ uDatagrams' \in Nat /\ uPc[t] = "flush" /\ uMutex.owner = t
    BY UartConstants DEF Uart!FlushLook, Uart!Has, Uart!Runs, Uart!Goto, Uart!call, UTyped, UThreads
<1>2. at \in {"clear", "echo", "empty"}
    BY DEF Uart!After
<1>3. /\ at = "clear" => uPushed[t] = 0
      /\ at = "echo" => uPushed[t] # 0
    BY DEF Uart!After
<1> HIDE DEF at
<1>4. Local(t)'
    BY <1>1, <1>2, <1>3, UartUnmoved DEF Local, Pushing
<1>5. Held(t)' => uMutex'.owner = t
    BY <1>1, <1>2, <1>3, UartUnmoved DEF Local, Held, Holding, Pushing
<1> QED
    BY <1>1, <1>4, <1>5, UartUnmoved DEF Acted

(* The flush is woken.                                                      *)
LEMMA FlushGetActs ==
    ASSUME UTyped, UHolds, NEW t \in Driver, Uart!FlushGet(t)
    PROVE  Acted(t)
<1> DEFINE at == Uart!After(t)
<1>1. /\ uPc' = [uPc EXCEPT ![t] = at] /\ UNCHANGED <<uSize, uPushed, uMutex>>
      /\ uDatagrams' \in Nat /\ uPc[t] = "empty" /\ uMutex.owner = t
    BY UartConstants DEF Uart!FlushGet, Uart!Has, Uart!Runs, Uart!Goto, Uart!call, UTyped, UThreads
<1>2. at \in {"clear", "echo"}
    BY DEF Uart!After
<1>3. /\ at = "clear" => uPushed[t] = 0
      /\ at = "echo" => uPushed[t] # 0
    BY DEF Uart!After
<1> HIDE DEF at
<1>4. Local(t)'
    BY <1>1, <1>2, <1>3, UartUnmoved DEF Local, Pushing
<1>5. Held(t)' => uMutex'.owner = t
    BY <1>1, <1>2, <1>3, UartUnmoved DEF Local, Held, Holding, Pushing
<1> QED
    BY <1>1, <1>4, <1>5, UartUnmoved DEF Acted

(* A write begins.                                                          *)
LEMMA WriteStartActs ==
    ASSUME UTyped, UHolds, NEW t \in Driver, Uart!WriteStart(t)
    PROVE  Acted(t)
<1> DEFINE at == "push"
<1>1. /\ uPc' = [uPc EXCEPT ![t] = at] /\ UNCHANGED <<uSize, uPushed, uMutex>>
      /\ uDatagrams' \in Nat /\ uPc[t] = "sleep" /\ uMutex.owner = t
    BY UartConstants, SMTT(30) DEF Uart!WriteStart, Uart!Has, Uart!Runs, Uart!Goto, Uart!call, UTyped, UThreads
<1>2. at \in {"push"}
    BY DEF Uart!After
<1> HIDE DEF at
<1> QED
    BY <1>1, <1>2, UartUnmoved DEF Acted, Local, Held, Pushing, Holding

(* The ring is full.                                                        *)
LEMMA WriteFullActs ==
    ASSUME UTyped, UHolds, NEW t \in Driver, Uart!WriteFull(t)
    PROVE  Acted(t)
<1> DEFINE at == "room"
<1>1. /\ uPc' = [uPc EXCEPT ![t] = at] /\ UNCHANGED <<uSize, uPushed, uMutex>>
      /\ uDatagrams' \in Nat /\ uPc[t] = "full" /\ uMutex.owner = t
    BY UartConstants DEF Uart!WriteFull, Uart!Has, Uart!Runs, Uart!Goto, Uart!call, UTyped, UThreads
<1>2. at \in {"room"}
    BY DEF Uart!After
<1> HIDE DEF at
<1> QED
    BY <1>1, <1>2, UartUnmoved DEF Acted, Local, Held, Pushing, Holding

(* There is room again.                                                     *)
LEMMA WriteRoomActs ==
    ASSUME UTyped, UHolds, NEW t \in Driver, Uart!WriteRoom(t)
    PROVE  Acted(t)
<1> DEFINE at == "push"
<1>1. /\ uPc' = [uPc EXCEPT ![t] = at] /\ UNCHANGED <<uSize, uPushed, uMutex>>
      /\ uDatagrams' \in Nat /\ uPc[t] = "room" /\ uMutex.owner = t
    BY UartConstants DEF Uart!WriteRoom, Uart!Has, Uart!Runs, Uart!Goto, Uart!call, UTyped, UThreads
<1>2. at \in {"push"}
    BY DEF Uart!After
<1> HIDE DEF at
<1> QED
    BY <1>1, <1>2, UartUnmoved DEF Acted, Local, Held, Pushing, Holding

(* All is pushed.                                                           *)
LEMMA WriteEndActs ==
    ASSUME UTyped, UHolds, NEW t \in Driver, Uart!WriteEnd(t)
    PROVE  Acted(t)
<1> DEFINE at == IF uSize[t] = RequestSize THEN "flush" ELSE "sent"
<1>1. /\ uPc' = [uPc EXCEPT ![t] = at] /\ UNCHANGED <<uSize, uPushed, uMutex>>
      /\ uDatagrams' \in Nat /\ uPc[t] = "enable" /\ uMutex.owner = t
    BY UartConstants DEF Uart!WriteEnd, Uart!Has, Uart!Runs, Uart!Goto, Uart!call, UTyped, UThreads
<1>2. at \in {"flush", "sent"}
    BY DEF Uart!After
<1>3. /\ at = "flush" => uSize[t] = RequestSize
      /\ at = "sent" => uSize[t] # RequestSize
    OBVIOUS
<1> HIDE DEF at
<1>4. Local(t)'
    BY <1>1, <1>2, <1>3, UartUnmoved DEF Local, Pushing
<1>5. Held(t)' => uMutex'.owner = t
    BY <1>1, <1>2, <1>3, UartUnmoved DEF Local, Held, Holding, Pushing
<1> QED
    BY <1>1, <1>4, <1>5, UartUnmoved DEF Acted

(* The receive ring is looked at, ...                                       *)
LEMMA ClearLookActs ==
    ASSUME UTyped, UHolds, NEW t \in Driver, Uart!ClearLook(t)
    PROVE  Acted(t)
<1> DEFINE at == IF uRd = <<>> THEN "sleep" ELSE "clearing"
<1>1. /\ uPc' = [uPc EXCEPT ![t] = at] /\ UNCHANGED <<uSize, uPushed, uMutex>>
      /\ uDatagrams' \in Nat /\ uPc[t] = "clear" /\ uMutex.owner = t
    BY UartConstants DEF Uart!ClearLook, Uart!Has, Uart!Runs, Uart!Goto, Uart!call, UTyped, UThreads
<1>2. at \in {"sleep", "clearing"}
    BY DEF Uart!After
<1>3. uPushed[t] = 0 /\ uSize[t] = RequestSize /\ 0 < RequestSize
    BY <1>1, UartConstants DEF UHolds, Local
<1> HIDE DEF at
<1>4. Local(t)'
    BY <1>1, <1>2, <1>3, UartUnmoved, ZenonT(60) DEF Local, Pushing
<1>5. Held(t)' => uMutex'.owner = t
    BY <1>1, <1>2, <1>3, UartUnmoved DEF Local, Held, Holding, Pushing
<1> QED
    BY <1>1, <1>4, <1>5, UartUnmoved DEF Acted

(* ... and cleared byte by byte.                                            *)
LEMMA ClearReadActs ==
    ASSUME UTyped, UHolds, NEW t \in Driver, Uart!ClearRead(t)
    PROVE  Acted(t)
<1> DEFINE at == IF uRd = <<>> THEN "lost" ELSE "clear"
<1>1. /\ uPc' = [uPc EXCEPT ![t] = at] /\ UNCHANGED <<uSize, uPushed, uMutex>>
      /\ uDatagrams' \in Nat /\ uPc[t] = "clearing" /\ uMutex.owner = t
    BY UartConstants DEF Uart!ClearRead, Uart!Has, Uart!Runs, Uart!Goto, Uart!call, Uart!Read, UTyped, UThreads
<1>2. at \in {"lost", "clear"}
    BY DEF Uart!After
<1> HIDE DEF at
<1> QED
    BY <1>1, <1>2, UartUnmoved DEF Acted, Local, Held, Pushing, Holding

(* The echoes are there.                                                    *)
LEMMA EchoWaitActs ==
    ASSUME UTyped, UHolds, NEW t \in Driver, Uart!EchoWait(t)
    PROVE  Acted(t)
<1> DEFINE at == "echoes"
<1>1. /\ uPc' = [uPc EXCEPT ![t] = at] /\ UNCHANGED <<uSize, uPushed, uMutex>>
      /\ uDatagrams' \in Nat /\ uPc[t] = "echo" /\ uMutex.owner = t
    BY UartConstants DEF Uart!EchoWait, Uart!Has, Uart!Runs, Uart!Goto, Uart!call, UTyped, UThreads
<1>2. at \in {"echoes"}
    BY DEF Uart!After
<1> HIDE DEF at
<1> QED
    BY <1>1, <1>2, UartUnmoved DEF Acted, Local, Held, Pushing, Holding

(* One of them is dropped.                                                  *)
LEMMA EchoReadActs ==
    ASSUME UTyped, UHolds, NEW t \in Driver, Uart!EchoRead(t)
    PROVE  Acted(t)
<1> DEFINE at == IF uRd = <<>> THEN "lost" ELSE "echoes"
<1>1. /\ uPc' = [uPc EXCEPT ![t] = at] /\ UNCHANGED <<uSize, uPushed, uMutex>>
      /\ uDatagrams' \in Nat /\ uPc[t] = "echoes" /\ uMutex.owner = t
    BY UartConstants DEF Uart!EchoRead, Uart!Has, Uart!Runs, Uart!Goto, Uart!call, Uart!Read, UTyped, UThreads
<1>2. at \in {"lost", "echoes"}
    BY DEF Uart!After
<1> HIDE DEF at
<1> QED
    BY <1>1, <1>2, UartUnmoved DEF Acted, Local, Held, Pushing, Holding

(* The reply is there, ...                                                  *)
LEMMA ReplyWaitActs ==
    ASSUME UTyped, UHolds, NEW t \in Driver, Uart!ReplyWait(t)
    PROVE  Acted(t)
<1> DEFINE at == "replied"
<1>1. /\ uPc' = [uPc EXCEPT ![t] = at] /\ UNCHANGED <<uSize, uPushed, uMutex>>
      /\ uDatagrams' \in Nat /\ uPc[t] = "reply"
    BY UartConstants DEF Uart!ReplyWait, Uart!Has, Uart!Runs, Uart!Goto, Uart!call, UTyped, UThreads
<1>2. at \in {"replied"}
    BY DEF Uart!After
<1> HIDE DEF at
<1> QED
    BY <1>1, <1>2, UartUnmoved DEF Acted, Local, Held, Pushing, Holding

(* ... or not in time.                                                      *)
LEMMA ReplyTimeoutActs ==
    ASSUME UTyped, UHolds, NEW t \in Driver, Uart!ReplyTimeout(t)
    PROVE  Acted(t)
<1> DEFINE at == "idle"
<1>1. /\ uPc' = [uPc EXCEPT ![t] = at] /\ UNCHANGED <<uSize, uPushed, uMutex>>
      /\ uDatagrams' \in Nat /\ uPc[t] = "reply"
    BY UartConstants DEF Uart!ReplyTimeout, Uart!Has, Uart!Runs, Uart!Goto, Uart!call, UTyped, UThreads
<1>2. at \in {"idle"}
    BY DEF Uart!After
<1> HIDE DEF at
<1> QED
    BY <1>1, <1>2, UartUnmoved DEF Acted, Local, Held, Pushing, Holding

(* One byte of it is read, ...                                              *)
LEMMA ReplyReadActs ==
    ASSUME UTyped, UHolds, NEW t \in Driver, Uart!ReplyRead(t)
    PROVE  Acted(t)
<1> DEFINE at == IF uRd = <<>> THEN "lost" ELSE "replied"
<1>1. /\ uPc' = [uPc EXCEPT ![t] = at] /\ UNCHANGED <<uSize, uPushed, uMutex>>
      /\ uDatagrams' \in Nat /\ uPc[t] = "replied"
    BY UartConstants DEF Uart!ReplyRead, Uart!Has, Uart!Runs, Uart!Goto, Uart!call, Uart!Read, UTyped, UThreads
<1>2. at \in {"lost", "replied"}
    BY DEF Uart!After
<1> HIDE DEF at
<1> QED
    BY <1>1, <1>2, UartUnmoved DEF Acted, Local, Held, Pushing, Holding

(* ... or the last.                                                         *)
LEMMA ReplyLastActs ==
    ASSUME UTyped, UHolds, NEW t \in Driver, Uart!ReplyLast(t)
    PROVE  Acted(t)
<1> DEFINE at == IF uRd = <<>> THEN "lost" ELSE "idle"
<1>1. /\ uPc' = [uPc EXCEPT ![t] = at] /\ UNCHANGED <<uSize, uPushed, uMutex>>
      /\ uDatagrams' \in Nat /\ uPc[t] = "replied"
    BY UartConstants DEF Uart!ReplyLast, Uart!Has, Uart!Runs, Uart!Goto, Uart!call, Uart!Read, UTyped, UThreads
<1>2. at \in {"lost", "idle"}
    BY DEF Uart!After
<1> HIDE DEF at
<1> QED
    BY <1>1, <1>2, UartUnmoved DEF Acted, Local, Held, Pushing, Holding

(* A datagram or a request begins.                                          *)
LEMMA BeginActs ==
    ASSUME UTyped, UHolds, NEW t \in Driver, Uart!Write(t) \/ (t = Reader /\ Uart!Request)
    PROVE  Acted(t)
<1>1. PICK n \in Nat \ {0}, at \in {"sleep", "flush"} :
          /\ Uart!Begin(t, n, at)
          /\ n = RequestSize => t = Reader
          /\ at = "sleep" => n # RequestSize
          /\ at = "flush" => n = RequestSize
    BY UartConstants DEF Uart!Write, Uart!Request
<1>2. /\ uPc[t] = "idle" /\ uSize' = [uSize EXCEPT ![t] = n] /\ UNCHANGED uPushed
      /\ uMutex' = Uart!Lock(uMutex, t, None) /\ uPc' = [uPc EXCEPT ![t] = at]
      /\ UNCHANGED uDatagrams
    BY <1>1 DEF Uart!Begin, Uart!Runs, Uart!Goto
<1>3. UThreads /\ Local(t) /\ uPushed[t] = 0
    BY <1>2 DEF UTyped, UHolds, Local
<1>4. /\ uMutex' = [owner |-> uMutex'.owner, waits |-> uMutex'.waits]
      /\ uMutex'.owner = uMutex.owner \/ uMutex.owner = None
    BY <1>2, <1>3, UartLocks DEF UThreads
<1>5. UThreads'
    BY <1>2, <1>3, <1>4 DEF UThreads
<1>6. /\ uPc'[t] = at /\ uSize'[t] = n /\ uPushed'[t] = 0
      /\ \A u \in Driver \ {t} : uPc'[u] = uPc[u] /\ uSize'[u] = uSize[u] /\ uPushed'[u] = uPushed[u]
    BY <1>2, <1>3 DEF UThreads
<1>7. Local(t)'
    BY <1>1, <1>6 DEF Local, Pushing
<1>8. ~Held(t)'
    BY <1>1, <1>6 DEF Held, Holding
<1> QED
    BY <1>4, <1>5, <1>6, <1>7, <1>8 DEF Acted

(* A thread gives the mutex back.                                           *)
LEMMA GivesActs ==
    ASSUME UTyped, UHolds, NEW t \in Driver, uMutex.owner = t, NEW at,
           at \in {"idle", "reply", "lost"}, at \in {"reply", "lost"} => t = Reader,
           uMutex' = Uart!Unlock(uMutex, t, None),
           uSize' = [uSize EXCEPT ![t] = 0], uPushed' = [uPushed EXCEPT ![t] = 0],
           uPc' = [uPc EXCEPT ![t] = at], UNCHANGED uDatagrams
    PROVE  Acted(t)
<1>3. UThreads
    BY DEF UTyped
<1>4. /\ uMutex' = [owner |-> uMutex'.owner, waits |-> uMutex'.waits]
    BY <1>3, UartLocks DEF UThreads
<1>5. UThreads'
    BY <1>3, <1>4 DEF UThreads
<1>6. /\ uPc'[t] = at /\ uSize'[t] = 0 /\ uPushed'[t] = 0
      /\ \A u \in Driver \ {t} : uPc'[u] = uPc[u] /\ uSize'[u] = uSize[u] /\ uPushed'[u] = uPushed[u]
    BY <1>3 DEF UThreads
<1>7. Local(t)'
    BY <1>6, UartConstants DEF Local, Pushing
<1>8. ~Held(t)'
    BY <1>6 DEF Held, Holding
<1> QED
    BY <1>4, <1>5, <1>6, <1>7, <1>8 DEF Acted

(* A datagram is sent.                                                      *)
LEMMA SentActs ==
    ASSUME UTyped, UHolds, NEW t \in Driver, Uart!Sent(t)
    PROVE  Acted(t)
BY GivesActs DEF Uart!Sent, Uart!Has, Uart!Goto

(* The last echo is dropped.                                                *)
LEMMA EchoLastActs ==
    ASSUME UTyped, UHolds, NEW t \in Driver, Uart!EchoLast(t)
    PROVE  Acted(t)
<1> DEFINE at == IF uRd = <<>> THEN "lost" ELSE "reply"
<1>1. /\ uMutex.owner = t /\ uPc[t] = "echoes"
      /\ uMutex' = Uart!Unlock(uMutex, t, None)
      /\ uSize' = [uSize EXCEPT ![t] = 0] /\ uPushed' = [uPushed EXCEPT ![t] = 0]
      /\ uPc' = [uPc EXCEPT ![t] = at] /\ UNCHANGED uDatagrams
    BY DEF Uart!EchoLast, Uart!Has, Uart!Runs, Uart!Read, Uart!Goto
<1>2. t = Reader
    BY <1>1 DEF UHolds, Local
<1>3. at \in {"idle", "reply", "lost"}
    OBVIOUS
<1> HIDE DEF at
<1> QED
    BY <1>1, <1>2, <1>3, GivesActs

(* How much is pushed: what there is room for, what there is left.           *)
LEMMA PushIs ==
    ASSUME UTyped, UHolds, NEW t \in Driver, Uart!WritePush(t)
    PROVE  LET n == Uart!Less(Uart!FreeCount, uSize[t] - uPushed[t]) IN
           /\ n \in Nat /\ n <= Ring - 1 - Pend /\ n <= uSize[t] - uPushed[t]
           /\ n = uSize[t] - uPushed[t] \/ n = Ring - 1 - Pend
           /\ uBuffer' = [i \in 0 .. Ring - 1 |->
                 IF PushPlace(i) <= n THEN <<uDatagrams, uPushed[t] + PushPlace(i), uSize[t]>>
                 ELSE uBuffer[i]]
           /\ uIn' = (uIn + n) % Ring /\ UNCHANGED <<uOut, uFifo, uWire>>
           /\ uPushed' = [uPushed EXCEPT ![t] = uPushed[t] + n]
           /\ uPc' = [uPc EXCEPT ![t] = IF uPushed[t] + n = uSize[t] THEN "enable" ELSE "full"]
           /\ UNCHANGED <<uSize, uMutex, uDatagrams>>
           /\ uPc[t] = "push" /\ uMutex.owner = t
           /\ uPushed[t] \in Nat /\ uSize[t] \in Nat /\ uPushed[t] < uSize[t]
<1> DEFINE n == Uart!Less(Uart!FreeCount, uSize[t] - uPushed[t])
<1>1. Pend \in 0 .. Ring - 1 /\ Uart!FreeCount = Ring - 1 - Pend /\ Ring \in Nat \ {0}
    BY PendIs, UartConstants DEF Uart!FreeCount, Pend
<1>2. uSize[t] \in Nat /\ uPushed[t] \in Nat /\ uPc[t] = "push" /\ uMutex.owner = t
    BY DEF UTyped, UThreads, Uart!WritePush, Uart!Has, Uart!Runs
<1>3. uPushed[t] < uSize[t]
    BY <1>2 DEF UHolds, Local, Pushing
<1>4. /\ n \in Nat /\ n <= Ring - 1 - Pend /\ n <= uSize[t] - uPushed[t]
      /\ n = uSize[t] - uPushed[t] \/ n = Ring - 1 - Pend
    BY <1>1, <1>2, <1>3 DEF Uart!Less
<1>5. /\ uBuffer' = [i \in 0 .. Ring - 1 |->
                 IF PushPlace(i) <= n THEN <<uDatagrams, uPushed[t] + PushPlace(i), uSize[t]>>
                 ELSE uBuffer[i]]
      /\ uIn' = (uIn + n) % Ring /\ UNCHANGED <<uOut, uFifo, uWire>>
      /\ uPushed' = [uPushed EXCEPT ![t] = uPushed[t] + n]
      /\ uPc' = [uPc EXCEPT ![t] = IF uPushed[t] + n = uSize[t] THEN "enable" ELSE "full"]
      /\ UNCHANGED <<uSize, uMutex, uDatagrams>>
    BY DEF Uart!WritePush, Uart!Goto, PushPlace
<1> HIDE DEF n
<1>6. QED
    BY <1>2, <1>3, <1>4, <1>5 DEF n

(* A thread pushes.                                                         *)
LEMMA WritePushActs ==
    ASSUME UTyped, UHolds, NEW t \in Driver, Uart!WritePush(t)
    PROVE  Acted(t)
<1> DEFINE n == Uart!Less(Uart!FreeCount, uSize[t] - uPushed[t])
           at == IF uPushed[t] + n = uSize[t] THEN "enable" ELSE "full"
<1>1. /\ n \in Nat /\ n <= uSize[t] - uPushed[t]
      /\ uPushed' = [uPushed EXCEPT ![t] = uPushed[t] + n]
      /\ uPc' = [uPc EXCEPT ![t] = at]
      /\ UNCHANGED <<uSize, uMutex, uDatagrams>>
      /\ uPc[t] = "push" /\ uMutex.owner = t
      /\ uPushed[t] \in Nat /\ uSize[t] \in Nat /\ uPushed[t] < uSize[t]
    BY PushIs
<1>2. /\ at \in {"enable", "full"}
      /\ at = "enable" => uPushed[t] + n = uSize[t]
      /\ at = "full" => uPushed[t] + n # uSize[t]
    OBVIOUS
<1> HIDE DEF n, at
<1>3. UThreads /\ (uSize[t] = RequestSize => t = Reader)
    BY DEF UTyped, UHolds, Local
<1>5. UThreads'
    BY <1>1, <1>3 DEF UThreads
<1>6. /\ uPc'[t] = at /\ uSize'[t] = uSize[t] /\ uPushed'[t] = uPushed[t] + n
      /\ \A u \in Driver \ {t} : uPc'[u] = uPc[u] /\ uSize'[u] = uSize[u] /\ uPushed'[u] = uPushed[u]
    BY <1>1, <1>3 DEF UThreads
<1>7. Local(t)'
  <2>1. at = "full" => uPushed[t] + n < uSize[t]
    BY <1>1, <1>2
  <2> QED
    BY <1>2, <1>3, <1>6, <2>1 DEF Local, Pushing
<1> QED
    BY <1>1, <1>5, <1>6, <1>7 DEF Acted

(* Whatever a thread does, ...                                              *)
LEMMA ContinueActs ==
    ASSUME UTyped, UHolds, NEW t \in Driver, Uart!Continue(t)
    PROVE  Acted(t)
BY FlushLookActs, FlushGetActs, WriteStartActs, WriteFullActs, WriteRoomActs, WriteEndActs,
   ClearLookActs, ClearReadActs, EchoWaitActs, EchoReadActs, EchoLastActs, ReplyWaitActs,
   ReplyTimeoutActs, ReplyReadActs, ReplyLastActs, SentActs, WritePushActs
   DEF Uart!Continue

(* ... the threads and the mutex agree.                                     *)
LEMMA ThreadsStep ==
    ASSUME UTyped, UHolds, Uart!Next
    PROVE  UThreads' /\ UHolds'
<1>1. ASSUME NEW t \in Driver, Acted(t) PROVE UThreads' /\ UHolds'
  <2> SUFFICES ASSUME NEW u \in Driver, u # t PROVE Local(u)' /\ (Held(u)' => uMutex'.owner = u)
    BY <1>1 DEF Acted, UHolds
  <2>1. Local(u) /\ (Held(u) => uMutex.owner = u) /\ u # None
    BY UartConstants DEF UHolds
  <2>2. uPc'[u] = uPc[u] /\ uSize'[u] = uSize[u] /\ uPushed'[u] = uPushed[u]
    BY <1>1 DEF Acted
  <2>3. uMutex'.owner = uMutex.owner \/ uMutex.owner \in {None, t}
    BY <1>1 DEF Acted
  <2>4. Local(u)' <=> Local(u)
    BY <2>2 DEF Local, Pushing
  <2>5. Held(u)' <=> Held(u)
    BY <2>2 DEF Held, Holding
  <2> QED
    BY <2>1, <2>3, <2>4, <2>5
<1>2. ASSUME Uart!Handles \/ Uart!Shift \/ Uart!Reply PROVE UThreads' /\ UHolds'
  <2>1. UNCHANGED <<uPc, uSize, uPushed, uMutex, uDatagrams>>
    BY <1>2 DEF Uart!Handles, Uart!Shift, Uart!Reply, Uart!TxInterrupt, Uart!TxNothing,
       Uart!TxPull, Uart!TxEmpty, Uart!TxFull, Uart!call
  <2>2. UThreads'
    BY <2>1 DEF UTyped, UThreads
  <2>3. \A u \in Driver : (Local(u)' <=> Local(u)) /\ (Held(u)' <=> Held(u))
    BY <2>1 DEF Local, Held, Pushing, Holding
  <2> QED
    BY <2>1, <2>2, <2>3 DEF UHolds
<1> QED
    BY <1>1, <1>2, BeginActs, ContinueActs, UartConstants DEF Uart!Next

-----------------------------------------------------------------------------
(* What is heard.                                                           *)

(* What the receive ring, the replies and the counts see of a step.          *)
RdRest == uRd' = SubSeq(uRd, 2, Len(uRd))

(* ... and with one more byte.                                              *)
RdMore(x) == uRd' = IF Len(uRd) < Heard THEN Append(uRd, x) ELSE uRd

(* Nothing is heard or read.                                                *)
HeardSame == UNCHANGED <<uRd, uReply, uAnswered, uRead, uWritten>>

(* A byte clocked out is heard, and may be the last of a request.           *)
LEMMA ShiftHears ==
    ASSUME UTyped, Uart!Shift
    PROVE  /\ RdMore(0) /\ UNCHANGED <<uRead, uWritten>>
           /\ \/ UNCHANGED <<uReply, uAnswered>>
              \/ /\ uWire'[2] = RequestSize /\ uWire'[3] = RequestSize
                 /\ uReply' = [i \in 1 .. ReplySize |-> i] /\ uAnswered' = TRUE
BY DEF Uart!Shift, Uart!RxPush, RdMore

(* A byte of the reply is heard.                                            *)
LEMMA ReplyHears ==
    ASSUME UTyped, Uart!Reply
    PROVE  /\ uReply # <<>> /\ RdMore(Head(uReply)) /\ uReply' = Tail(uReply)
           /\ UNCHANGED <<uAnswered, uRead, uWritten>>
BY DEF Uart!Reply, Uart!RxPush, RdMore

(* Who else changes what was heard.                                         *)
LEMMA HearsNothing ==
    ASSUME Uart!Next
    PROVE  \/ HeardSame
           \/ UNCHANGED <<uRd, uReply, uRead, uAnswered>> /\ \E t \in Driver : Uart!Sent(t)
           \/ UNCHANGED <<uRd, uReply, uRead>> /\ \E t \in Driver : Uart!ReplyTimeout(t)
           \/ RdRest /\ UNCHANGED uReply
              /\ \E t \in Driver : \/ Uart!ClearRead(t) \/ Uart!EchoRead(t) \/ Uart!EchoLast(t)
                                   \/ Uart!ReplyRead(t) \/ Uart!ReplyLast(t)
           \/ Uart!Shift \/ Uart!Reply
<1>1. ASSUME NEW t \in Driver, Uart!Write(t) \/ Uart!Request
      PROVE  HeardSame
    BY <1>1 DEF Uart!Write, Uart!Request, Uart!Begin, Uart!heard, HeardSame
<1>2. ASSUME NEW t \in Driver, Uart!Continue(t), ~Uart!Sent(t), ~Uart!ReplyTimeout(t),
             ~Uart!ClearRead(t), ~Uart!EchoRead(t), ~Uart!EchoLast(t),
             ~Uart!ReplyRead(t), ~Uart!ReplyLast(t)
      PROVE  HeardSame
    BY <1>2 DEF Uart!Continue, Uart!heard, HeardSame, Uart!FlushLook, Uart!FlushGet,
       Uart!WriteStart, Uart!WritePush, Uart!WriteFull, Uart!WriteRoom, Uart!WriteEnd,
       Uart!ClearLook, Uart!EchoWait, Uart!ReplyWait
<1>3. ASSUME NEW t \in Driver, Uart!Sent(t)
      PROVE  UNCHANGED <<uRd, uReply, uRead, uAnswered>>
    BY <1>3 DEF Uart!Sent
<1>4. ASSUME NEW t \in Driver, Uart!ReplyTimeout(t)
      PROVE  UNCHANGED <<uRd, uReply, uRead>>
    BY <1>4 DEF Uart!ReplyTimeout
<1>5. ASSUME NEW t \in Driver, \/ Uart!ClearRead(t) \/ Uart!EchoRead(t) \/ Uart!EchoLast(t)
                               \/ Uart!ReplyRead(t) \/ Uart!ReplyLast(t)
      PROVE  RdRest /\ UNCHANGED uReply
    BY <1>5 DEF Uart!ClearRead, Uart!EchoRead, Uart!EchoLast, Uart!ReplyRead, Uart!ReplyLast,
       Uart!Read, RdRest
<1>6. ASSUME Uart!Handles
      PROVE  HeardSame
    BY <1>6 DEF Uart!Handles, Uart!heard, HeardSame, Uart!TxInterrupt, Uart!TxNothing,
       Uart!TxPull, Uart!TxEmpty, Uart!TxFull
<1> QED
    BY <1>1, <1>2, <1>3, <1>4, <1>5, <1>6, UartConstants DEF Uart!Next

(* The receive ring after one more byte.                                    *)
LEMMA MoreHeard ==
    ASSUME NEW s \in Seq(Nat), NEW x \in Nat, NEW r, r = IF Len(s) < Heard THEN Append(s, x) ELSE s
    PROVE  /\ r \in Seq(Nat)
           /\ Len(s) < Heard => Len(r) = Len(s) + 1 /\ r[Len(s) + 1] = x
           /\ \A i \in 1 .. Len(s) : r[i] = s[i]
           /\ s # <<>> => r # <<>>
<1>1. CASE Len(s) < Heard
    BY <1>1
<1>2. CASE ~(Len(s) < Heard)
    BY <1>2
<1> QED
    BY <1>1, <1>2

(* A reply has all of its bytes at first.                                   *)
LEMMA WholeReply ==
    ASSUME NEW r, r = [i \in 1 .. ReplySize |-> i]
    PROVE  /\ r \in Seq(Nat) /\ Len(r) = ReplySize /\ \A i \in 1 .. Len(r) : r[i] = i
           /\ r # <<>>
<1>1. ReplySize \in Nat \ {0}
    BY UartConstants
<1>2. r \in Seq(Nat)
    BY <1>1
<1>3. Len(r) = ReplySize
    BY <1>1
<1> QED
    BY <1>1, <1>2, <1>3

(* What was heard stays numbers.                                            *)
LEMMA HeardStep ==
    ASSUME UTyped, Uart!Next
    PROVE  UHeard'
<1>0. UHeard
    BY DEF UTyped
<1>1. CASE HeardSame
    BY <1>0, <1>1 DEF UHeard, HeardSame
<1>2. ASSUME NEW t \in Driver, Uart!Sent(t), UNCHANGED <<uRd, uReply, uRead, uAnswered>>
      PROVE  UHeard'
    BY <1>0, <1>2, UartConstants DEF UHeard, Uart!Sent, Uart!Less
<1>3. ASSUME NEW t \in Driver, Uart!ReplyTimeout(t), UNCHANGED <<uRd, uReply, uRead>>
      PROVE  UHeard'
    BY <1>0, <1>3 DEF UHeard, Uart!ReplyTimeout
<1>4. ASSUME NEW t \in Driver, RdRest, UNCHANGED uReply,
             \/ Uart!ClearRead(t) \/ Uart!EchoRead(t) \/ Uart!EchoLast(t)
             \/ Uart!ReplyRead(t) \/ Uart!ReplyLast(t)
      PROVE  UHeard'
  <2>1. uRd' \in Seq(Nat)
    BY <1>0, <1>4, ReadRest DEF RdRest, UHeard
  <2>2. uRead' \in {uRead, uRead + 1, 0} /\ uWritten' \in {uWritten, 0}
    BY <1>4 DEF Uart!ClearRead, Uart!EchoRead, Uart!EchoLast, Uart!ReplyRead, Uart!ReplyLast
  <2> QED
    BY <1>0, <1>4, <2>1, <2>2 DEF UHeard
<1>5. CASE Uart!Shift
  <2>1. uRd' \in Seq(Nat)
    BY <1>0, <1>5, ShiftHears, MoreHeard DEF RdMore, UHeard
  <2>2. uReply' \in Seq(Nat)
    BY <1>0, <1>5, ShiftHears, WholeReply DEF UHeard
  <2> QED
    BY <1>0, <1>5, <2>1, <2>2, ShiftHears DEF UHeard
<1>6. CASE Uart!Reply
  <2>1. uReply' \in Seq(Nat) /\ Head(uReply) \in Nat
    BY <1>0, <1>6, ReplyHears, HeadAndTail DEF UHeard
  <2>2. uRd' \in Seq(Nat)
    BY <1>0, <1>6, <2>1, ReplyHears, MoreHeard DEF RdMore, UHeard
  <2> QED
    BY <1>0, <1>6, <2>1, <2>2, ReplyHears DEF UHeard
<1> QED
    BY <1>1, <1>2, <1>3, <1>4, <1>5, <1>6, HearsNothing

(* All of it keeps its type, and the mutex its holder.                      *)
LEMMA UTypedStep ==
    ASSUME UTyped, UHolds, Uart!Next
    PROVE  UTyped' /\ UHolds'
BY URingStep, ThreadsStep, HeardStep DEF UTyped

-----------------------------------------------------------------------------
(* The order of the line.                                                   *)

(* Only the holder of the mutex pushes.                                     *)
LEMMA OnePushes ==
    ASSUME UHolds, NEW t \in Driver, uMutex.owner = t, NEW u \in Driver, u # t
    PROVE  uPc[u] \notin Pushing
BY DEF UHolds, Held, Holding, Pushing

(* A step that is not of who begins or continues a write.                    *)
LEMMA PushingSame ==
    ASSUME UTyped, UHolds, Uart!Next
    PROVE  \/ /\ \A u \in Driver : uPc'[u] \in Pushing <=> uPc[u] \in Pushing
              /\ \A u \in Driver : uPc[u] \in Pushing => uPushed'[u] = uPushed[u] /\ uSize'[u] = uSize[u]
              /\ uDatagrams' = uDatagrams
           \/ \E t \in Driver : Uart!WritePush(t) \/ Uart!WriteStart(t)
<1>1. ASSUME NEW t \in Driver, NEW at, uPc' = [uPc EXCEPT ![t] = at], Acted(t),
             at \in Pushing <=> uPc[t] \in Pushing,
             uPc[t] \in Pushing => UNCHANGED <<uPushed, uSize>>
      PROVE  /\ \A u \in Driver : uPc'[u] \in Pushing <=> uPc[u] \in Pushing
             /\ \A u \in Driver : uPc[u] \in Pushing => uPushed'[u] = uPushed[u] /\ uSize'[u] = uSize[u]
  <2>1. uPc'[t] = at
    BY <1>1 DEF UTyped, UThreads
  <2> QED
    BY <1>1, <2>1 DEF Acted
<1>2. ASSUME NEW t \in Driver, Uart!Write(t) \/ (t = Reader /\ Uart!Request)
      PROVE  /\ \A u \in Driver : uPc'[u] \in Pushing <=> uPc[u] \in Pushing
             /\ \A u \in Driver : uPc[u] \in Pushing => uPushed'[u] = uPushed[u] /\ uSize'[u] = uSize[u]
             /\ uDatagrams' = uDatagrams
  <2>1. PICK at \in {"sleep", "flush"} : uPc' = [uPc EXCEPT ![t] = at] /\ uPc[t] = "idle"
                                         /\ uDatagrams' = uDatagrams
    BY <1>2 DEF Uart!Write, Uart!Request, Uart!Begin, Uart!Runs, Uart!Goto
  <2> QED
    BY <1>1, <1>2, <2>1, BeginActs DEF Pushing
<1>3. ASSUME NEW t \in Driver, Uart!WriteFull(t) \/ Uart!WriteRoom(t)
      PROVE  /\ \A u \in Driver : uPc'[u] \in Pushing <=> uPc[u] \in Pushing
             /\ \A u \in Driver : uPc[u] \in Pushing => uPushed'[u] = uPushed[u] /\ uSize'[u] = uSize[u]
             /\ uDatagrams' = uDatagrams
  <2>1. PICK at \in {"room", "push"} : /\ uPc' = [uPc EXCEPT ![t] = at] /\ uPc[t] \in Pushing
                                       /\ UNCHANGED <<uPushed, uSize, uDatagrams>>
    BY <1>3 DEF Uart!WriteFull, Uart!WriteRoom, Uart!Has, Uart!Runs, Uart!Goto, Uart!call, Pushing
  <2> QED
    BY <1>1, <1>3, <2>1, WriteFullActs, WriteRoomActs DEF Pushing
<1>4. ASSUME NEW t \in Driver, Uart!Continue(t), ~Uart!WritePush(t), ~Uart!WriteStart(t),
             ~Uart!WriteFull(t), ~Uart!WriteRoom(t)
      PROVE  /\ \A u \in Driver : uPc'[u] \in Pushing <=> uPc[u] \in Pushing
             /\ \A u \in Driver : uPc[u] \in Pushing => uPushed'[u] = uPushed[u] /\ uSize'[u] = uSize[u]
             /\ uDatagrams' = uDatagrams
  <2>1. \E at : /\ uPc' = [uPc EXCEPT ![t] = at] /\ at \notin Pushing
                /\ uPc[t] \notin Pushing /\ uDatagrams' = uDatagrams
    <3>1. CASE Uart!FlushLook(t) \/ Uart!FlushGet(t)
      BY <3>1 DEF Pushing, Uart!Has, Uart!Runs, Uart!Goto, Uart!call, Uart!After, Uart!FlushLook,
         Uart!FlushGet
    <3>2. CASE Uart!WriteEnd(t) \/ Uart!Sent(t) \/ Uart!ClearLook(t) \/ Uart!EchoWait(t)
      BY <3>2 DEF Pushing, Uart!Has, Uart!Runs, Uart!Goto, Uart!call, Uart!WriteEnd, Uart!Sent,
         Uart!ClearLook, Uart!EchoWait
    <3>3. CASE Uart!ClearRead(t) \/ Uart!EchoRead(t) \/ Uart!EchoLast(t)
      BY <3>3 DEF Pushing, Uart!Has, Uart!Runs, Uart!Goto, Uart!call, Uart!Read, Uart!ClearRead,
         Uart!EchoRead, Uart!EchoLast
    <3>4. CASE Uart!ReplyWait(t) \/ Uart!ReplyTimeout(t) \/ Uart!ReplyRead(t) \/ Uart!ReplyLast(t)
      BY <3>4 DEF Pushing, Uart!Has, Uart!Runs, Uart!Goto, Uart!call, Uart!Read, Uart!ReplyWait,
         Uart!ReplyTimeout, Uart!ReplyRead, Uart!ReplyLast
    <3> QED
      BY <1>4, <3>1, <3>2, <3>3, <3>4 DEF Uart!Continue
  <2> QED
    BY <1>1, <1>4, <2>1, ContinueActs
<1>5. ASSUME Uart!Handles \/ Uart!Shift \/ Uart!Reply
      PROVE  UNCHANGED <<uPc, uPushed, uSize, uDatagrams>>
    BY <1>5 DEF Uart!Handles, Uart!Shift, Uart!Reply, Uart!TxInterrupt, Uart!TxNothing,
       Uart!TxPull, Uart!TxEmpty, Uart!TxFull, Uart!call
<1> QED
    BY <1>2, <1>3, <1>4, <1>5, UartConstants DEF Uart!Next

(* The line may move by a byte, if nobody begins or goes on pushing.        *)
LEMMA OrderFrom ==
    ASSUME UTyped, UHolds, UOrder, NEW k \in {0, 1}, Flying' \in Nat, Flying' = Flying - k,
           \A j \in 0 .. Flying - k : Flight'[j] = Flight[j + k],
           \A u \in Driver : uPc'[u] \in Pushing <=> uPc[u] \in Pushing,
           \A u \in Driver : uPc[u] \in Pushing => uPushed'[u] = uPushed[u] /\ uSize'[u] = uSize[u],
           uDatagrams' = uDatagrams
    PROVE  UOrder'
<1>1. Flying \in Nat
    BY FlyingIs
<1>2. \A j \in 1 .. Flying' : Follows(Flight'[j - 1], Flight'[j])
  <2> SUFFICES ASSUME NEW j \in 1 .. Flying' PROVE Follows(Flight'[j - 1], Flight'[j])
    OBVIOUS
  <2> DEFINE i == j + k
             h == j - 1
  <2>1. /\ i \in 1 .. Flying /\ h \in 0 .. Flying - k /\ j \in 0 .. Flying - k
        /\ h + k = i - 1
    BY <1>1
  <2>2. Flight'[h] = Flight[h + k] /\ Flight'[j] = Flight[i]
    BY <2>1
  <2>3. Follows(Flight[i - 1], Flight[i])
    BY <2>1 DEF UOrder
  <2> QED
    BY <2>1, <2>2, <2>3
<1>3. Newest' = Newest
  <2>1. Flying - k \in 0 .. Flying - k /\ (Flying - k) + k = Flying
    BY <1>1
  <2> QED
    BY <2>1 DEF Newest
<1>4. \A t \in Driver : uPc'[t] \in Pushing =>
          IF uPushed'[t] > 0 THEN Newest' = <<uDatagrams', uPushed'[t], uSize'[t]>>
          ELSE Newest'[2] = Newest'[3] /\ uDatagrams' = (Newest'[1] + 1) % Numbers
    BY <1>3 DEF UOrder
<1>5. (\A t \in Driver : uPc'[t] \notin Pushing) => Newest'[2] = Newest'[3] /\ Newest'[1] = uDatagrams'
    BY <1>3 DEF UOrder
<1> QED
    BY <1>2, <1>4, <1>5 DEF UOrder

(* A write begins behind the end of a datagram.                             *)
LEMMA StartOrder ==
    ASSUME UTyped, UHolds, UOrder, NEW t \in Driver, Uart!WriteStart(t)
    PROVE  UOrder'
<1>1. Flying' = Flying /\ Flight' = Flight
    BY FlightSame DEF Uart!WriteStart, Uart!ring
<1>2. /\ uPc[t] = "sleep" /\ uMutex.owner = t /\ uPc' = [uPc EXCEPT ![t] = "push"]
      /\ uDatagrams' = (uDatagrams + 1) % Numbers
      /\ UNCHANGED <<uPushed, uSize>>
    BY DEF Uart!WriteStart, Uart!Has, Uart!Runs, Uart!Goto
<1>3. \A u \in Driver : uPc[u] \notin Pushing
    BY <1>2, OnePushes DEF Pushing
<1>4. uPc'[t] = "push" /\ \A u \in Driver \ {t} : uPc'[u] \notin Pushing
    BY <1>2, <1>3 DEF UTyped, UThreads
<1>5. uPushed[t] = 0
    BY <1>2 DEF UHolds, Local
<1>6. Newest' = Newest /\ Newest[2] = Newest[3] /\ Newest[1] = uDatagrams
    BY <1>1, <1>3 DEF UOrder, Newest
<1>7. \A u \in Driver : uPc'[u] \in Pushing =>
          IF uPushed'[u] > 0 THEN Newest' = <<uDatagrams', uPushed'[u], uSize'[u]>>
          ELSE Newest'[2] = Newest'[3] /\ uDatagrams' = (Newest'[1] + 1) % Numbers
    BY <1>2, <1>4, <1>5, <1>6
<1>8. ~\A u \in Driver : uPc'[u] \notin Pushing
    BY <1>4 DEF Pushing
<1> QED
    BY <1>1, <1>7, <1>8 DEF UOrder

(* What is pushed follows the newest byte.                                  *)
LEMMA PushOrder ==
    ASSUME UTyped, UHolds, UOrder, NEW t \in Driver, Uart!WritePush(t)
    PROVE  UOrder'
<1> DEFINE n == Uart!Less(Uart!FreeCount, uSize[t] - uPushed[t])
           a == uPushed[t]
           z == uSize[t]
           d == uDatagrams
<1>1. /\ n \in Nat /\ n <= Ring - 1 - Pend /\ n <= z - a
      /\ uBuffer' = [i \in 0 .. Ring - 1 |->
            IF PushPlace(i) <= n THEN <<d, a + PushPlace(i), z>> ELSE uBuffer[i]]
      /\ uIn' = (uIn + n) % Ring /\ UNCHANGED <<uOut, uFifo, uWire>>
      /\ uPushed' = [uPushed EXCEPT ![t] = a + n]
      /\ uPc' = [uPc EXCEPT ![t] = IF a + n = z THEN "enable" ELSE "full"]
      /\ UNCHANGED <<uSize, uMutex, uDatagrams>>
      /\ uPc[t] = "push" /\ uMutex.owner = t
      /\ a \in Nat /\ z \in Nat /\ a < z
    BY PushIs
<1> HIDE DEF n, a, z, d
<1>2. /\ Flying' = Flying + n
      /\ \A j \in 0 .. Flying : Flight'[j] = Flight[j]
      /\ \A i \in 1 .. n : Flight'[Flying + i] = <<d, a + i, z>>
  <2>1. n \in Nat /\ a \in Nat /\ z \in Nat /\ d \in Nat /\ Pushes(n, d, a, z)
    BY <1>1 DEF Pushes, UTyped, UThreads, d
  <2> QED
    BY <2>1, FlightPush
<1>3. Flying \in Nat
    BY FlyingIs
<1>4. /\ a > 0 => Newest = <<d, a, z>>
      /\ ~(a > 0) => Newest[2] = Newest[3] /\ d = (Newest[1] + 1) % Numbers
    BY <1>1 DEF UOrder, Pushing, a, z, d
<1>5. \A i \in 1 .. n : Follows(Flight'[Flying + i - 1], Flight'[Flying + i])
  <2> SUFFICES ASSUME NEW i \in 1 .. n PROVE Follows(Flight'[Flying + i - 1], Flight'[Flying + i])
    OBVIOUS
  <2>1. Flight'[Flying + i] = <<d, a + i, z>>
    BY <1>2
  <2>2. CASE i = 1
    <3>1. Flying + i - 1 = Flying /\ Flying \in 0 .. Flying
      BY <2>2, <1>3
    <3>2. Flight'[Flying + i - 1] = Newest
      BY <3>1, <1>2 DEF Newest
    <3>3. CASE a > 0
      <4>1. Newest = <<d, a, z>>
        BY <3>3, <1>4
      <4> QED
        BY <2>1, <2>2, <3>2, <4>1, <1>1 DEF Follows
    <3>4. CASE ~(a > 0)
      <4>1. a + i = 1
        BY <2>2, <3>4, <1>1
      <4>2. Newest[2] = Newest[3] /\ d = (Newest[1] + 1) % Numbers /\ Newest \in UByte
        BY <3>4, <1>3, <1>4, FlyingIs DEF Newest
      <4>3. ~(Newest[2] < Newest[3])
        BY <4>2 DEF UByte
      <4> QED
        BY <2>1, <3>2, <4>1, <4>2, <4>3 DEF Follows
    <3> QED
      BY <3>3, <3>4
  <2>3. CASE i > 1
    <3> DEFINE h == i - 1
    <3>1. h \in 1 .. n /\ Flying + i - 1 = Flying + h /\ a + h < z /\ a + i = a + h + 1
      BY <2>3, <1>1, <1>3
    <3>2. Flight'[Flying + h] = <<d, a + h, z>>
      BY <3>1, <1>2
    <3> HIDE DEF h
    <3> QED
      BY <2>1, <3>1, <3>2 DEF Follows
  <2> QED
    BY <2>2, <2>3, <1>1
<1>6. \A j \in 1 .. Flying' : Follows(Flight'[j - 1], Flight'[j])
  <2> SUFFICES ASSUME NEW j \in 1 .. Flying' PROVE Follows(Flight'[j - 1], Flight'[j])
    OBVIOUS
  <2>1. CASE j <= Flying
    <3>1. j \in 1 .. Flying /\ j - 1 \in 0 .. Flying /\ j \in 0 .. Flying
      BY <2>1, <1>3
    <3> QED
      BY <3>1, <1>2 DEF UOrder
  <2>2. CASE j > Flying
    <3> DEFINE i == j - Flying
    <3>1. i \in 1 .. n /\ j = Flying + i /\ j - 1 = Flying + i - 1
      BY <2>2, <1>1, <1>2, <1>3
    <3> HIDE DEF i
    <3> QED
      BY <3>1, <1>5
  <2> QED
    BY <2>1, <2>2, <1>1, <1>2, <1>3
<1>7. /\ n > 0 => Newest' = <<d, a + n, z>>
      /\ n = 0 => Newest' = Newest
  <2>1. n > 0 => n \in 1 .. n /\ Flying + n = Flying'
    BY <1>1, <1>2
  <2>2. n = 0 => Flying' = Flying /\ Flying \in 0 .. Flying
    BY <1>2, <1>3
  <2> QED
    BY <2>1, <2>2, <1>2 DEF Newest
<1>8. /\ uPushed'[t] = a + n /\ uSize'[t] = z /\ uDatagrams' = d
      /\ uPc'[t] = IF a + n = z THEN "enable" ELSE "full"
      /\ \A u \in Driver \ {t} : uPc'[u] \notin Pushing
    BY <1>1, OnePushes DEF UTyped, UThreads, z, d
<1>9. \A u \in Driver : uPc'[u] \in Pushing =>
          IF uPushed'[u] > 0 THEN Newest' = <<uDatagrams', uPushed'[u], uSize'[u]>>
          ELSE Newest'[2] = Newest'[3] /\ uDatagrams' = (Newest'[1] + 1) % Numbers
  <2>1. IF a + n > 0 THEN Newest' = <<d, a + n, z>>
        ELSE Newest'[2] = Newest'[3] /\ d = (Newest'[1] + 1) % Numbers
    <3>1. CASE n > 0
      BY <3>1, <1>1, <1>7
    <3>2. CASE n = 0
      <4>1. a + n = a
        BY <3>2, <1>1
      <4> QED
        BY <3>2, <4>1, <1>4, <1>7
    <3> QED
      BY <3>1, <3>2, <1>1
  <2> QED
    BY <2>1, <1>8
<1>10. (\A u \in Driver : uPc'[u] \notin Pushing) => Newest'[2] = Newest'[3] /\ Newest'[1] = uDatagrams'
  <2>1. ASSUME \A u \in Driver : uPc'[u] \notin Pushing PROVE a + n = z
    BY <2>1, <1>8 DEF Pushing
  <2>2. a + n = z => n > 0
    BY <1>1
  <2>3. a + n = z => Newest' = <<d, z, z>>
    BY <2>2, <1>7
  <2> QED
    BY <2>1, <2>3, <1>8
<1> QED
    BY <1>6, <1>9, <1>10 DEF UOrder

(* The line stays in order, ...                                             *)
LEMMA OrderStep ==
    ASSUME UTyped, UHolds, UOrder, Uart!Next
    PROVE  UOrder'
<1>1. CASE \E t \in Driver : Uart!WritePush(t) \/ Uart!WriteStart(t)
    BY <1>1, PushOrder, StartOrder
<1>2. CASE ~\E t \in Driver : Uart!WritePush(t) \/ Uart!WriteStart(t)
  <2>1. /\ \A u \in Driver : uPc'[u] \in Pushing <=> uPc[u] \in Pushing
        /\ \A u \in Driver : uPc[u] \in Pushing => uPushed'[u] = uPushed[u] /\ uSize'[u] = uSize[u]
        /\ uDatagrams' = uDatagrams
    BY <1>2, PushingSame
  <2>2. CASE Uart!Shift
    <3>1. /\ Flying > 0 /\ Flying' = Flying - 1
          /\ \A j \in 0 .. Flying - 1 : Flight'[j] = Flight[j + 1]
      BY <2>2, FlightShift DEF Uart!Shift, Uart!ring
    <3>2. Flying' \in Nat /\ 1 \in {0, 1}
      BY <3>1, FlyingIs
    <3> QED
      BY <2>1, <3>1, <3>2, OrderFrom
  <2>3. CASE Uart!TxPull
    <3>1. Flying' = Flying /\ \A j \in 0 .. Flying : Flight'[j] = Flight[j]
      <4>1. Pend > 0
        BY <2>3 DEF Uart!TxPull, Pend
      <4> QED
        BY <2>3, <4>1, FlightPull DEF Uart!TxPull
    <3>2. Flying' = Flying - 0 /\ Flying' \in Nat /\ \A j \in 0 .. Flying - 0 : Flight'[j] = Flight[j + 0]
      BY <3>1, FlyingIs
    <3> QED
      BY <2>1, <3>2, OrderFrom
  <2>4. CASE UNCHANGED <<uBuffer, uIn, uOut, uFifo, uWire>>
    <3>1. Flying' = Flying /\ Flight' = Flight
      BY <2>4, FlightSame
    <3>2. Flying' = Flying - 0 /\ Flying' \in Nat /\ \A j \in 0 .. Flying - 0 : Flight'[j] = Flight[j + 0]
      BY <3>1, FlyingIs
    <3> QED
      BY <2>1, <3>2, OrderFrom
  <2> QED
    BY <1>2, <2>2, <2>3, <2>4, LineStep
<1> QED
    BY <1>1, <1>2

(* ... so that the byte clocked out follows the one before it.               *)
LEMMA WholeHolds ==
    ASSUME UTyped, UOrder, Uart!Next
    PROVE  uWire' = uWire \/ Uart!WholeStep
<1>1. CASE Uart!Shift
  <2>1. /\ Flying > 0 /\ Flying' = Flying - 1 /\ Flight'[0] = uWire'
        /\ \A j \in 0 .. Flying - 1 : Flight'[j] = Flight[j + 1]
    <3>1. Flight'[0] = uWire'
      <4>1. Flying' \in Nat
        BY <1>1, FlightShift, FlyingIs DEF Uart!Shift, Uart!ring
      <4> QED
        BY <4>1 DEF Flight
    <3> QED
      BY <1>1, <3>1, FlightShift DEF Uart!Shift, Uart!ring
  <2>2. uWire' = Flight[1] /\ Flight[0] = uWire /\ Follows(Flight[0], Flight[1])
    <3>1. Flying \in Nat /\ Flight[0] = uWire
      BY FlyingIs
    <3>2. 0 \in 0 .. Flying - 1 /\ 1 \in 1 .. Flying /\ 0 + 1 = 1 /\ 1 - 1 = 0
      BY <3>1, <2>1
    <3>3. Flight'[0] = Flight[0 + 1]
      BY <2>1, <3>2
    <3>4. Follows(Flight[1 - 1], Flight[1])
      BY <3>2 DEF UOrder
    <3> QED
      BY <2>1, <3>1, <3>2, <3>3, <3>4
  <2> QED
    BY <2>2 DEF Follows, Uart!WholeStep
<1>2. CASE ~Uart!Shift
  <2>1. CASE \E t \in Driver : Uart!WritePush(t)
    BY <2>1 DEF Uart!WritePush
  <2> QED
    BY <1>2, <2>1, LineStep DEF Uart!TxPull
<1> QED
    BY <1>1, <1>2

-----------------------------------------------------------------------------
(* The interrupt.                                                           *)

(* A thread that has pushed and not enabled the interrupt since.            *)
Busy == Pushing \cup {"enable"}

(* A thread runs between interrupts only.                                    *)
LEMMA ThreadRuns ==
    ASSUME NEW t \in Driver, Uart!Write(t) \/ Uart!Request \/ Uart!Continue(t)
    PROVE  ~uIsr /\ (uTxie => uFifo # <<>>) /\ uIsr' = uIsr
<1>1. CASE Uart!Write(t) \/ Uart!Request
    BY <1>1 DEF Uart!Write, Uart!Request, Uart!Begin, Uart!Runs, Uart!Irq
<1>2. CASE Uart!Continue(t)
    BY <1>2 DEF Uart!Runs, Uart!Irq, Uart!Has, Uart!Continue, Uart!FlushLook, Uart!FlushGet,
       Uart!WriteStart, Uart!WritePush, Uart!WriteFull, Uart!WriteRoom, Uart!WriteEnd, Uart!Sent,
       Uart!ClearLook, Uart!ClearRead, Uart!EchoWait, Uart!EchoRead, Uart!EchoLast, Uart!ReplyWait,
       Uart!ReplyTimeout, Uart!ReplyRead, Uart!ReplyLast
<1> QED
    BY <1>1, <1>2

(* Whoever leaves what it pushed enabled the interrupt; nobody else touches it. *)
LEMMA IdleLine ==
    ASSUME UTyped, UHolds, NEW t \in Driver,
           Uart!Write(t) \/ (t = Reader /\ Uart!Request) \/ Uart!Continue(t)
    PROVE  \/ uPc'[t] \in Busy
           \/ Uart!WriteEnd(t)
           \/ uPc[t] \notin Busy /\ uTxie' = uTxie /\ Pend' = Pend
<1>0. UThreads
    BY DEF UTyped
<1>1. CASE Uart!Write(t) \/ (t = Reader /\ Uart!Request)
  <2>1. uPc[t] = "idle" /\ uTxie' = uTxie /\ UNCHANGED <<uIn, uOut>>
    BY <1>1 DEF Uart!Write, Uart!Request, Uart!Begin, Uart!Runs, Uart!ring
  <2> QED
    BY <2>1 DEF Busy, Pushing, Pend, Uart!PendingBytes
<1>2. CASE Uart!WriteStart(t) \/ Uart!WriteFull(t) \/ Uart!WriteRoom(t)
  <2>1. \E at \in {"push", "room"} : uPc' = [uPc EXCEPT ![t] = at]
    BY <1>2 DEF Uart!WriteStart, Uart!WriteFull, Uart!WriteRoom, Uart!Goto
  <2> QED
    BY <1>0, <2>1 DEF Busy, Pushing, UThreads
<1>3. CASE Uart!WritePush(t)
  <2>1. \E at \in {"enable", "full"} : uPc' = [uPc EXCEPT ![t] = at]
    BY <1>3 DEF Uart!WritePush, Uart!Goto
  <2> QED
    BY <1>0, <2>1 DEF Busy, Pushing, UThreads
<1>4. CASE Uart!FlushLook(t) \/ Uart!FlushGet(t) \/ Uart!Sent(t) \/ Uart!ClearLook(t)
           \/ Uart!ClearRead(t) \/ Uart!EchoWait(t) \/ Uart!EchoRead(t) \/ Uart!EchoLast(t)
  <2>1. uPc[t] \in {"flush", "empty", "sent", "clear", "clearing", "echo", "echoes"}
        /\ uTxie' = uTxie /\ UNCHANGED <<uIn, uOut>>
    BY <1>4 DEF Uart!Has, Uart!Runs, Uart!ring, Uart!FlushLook, Uart!FlushGet, Uart!Sent,
       Uart!ClearLook, Uart!ClearRead, Uart!EchoWait, Uart!EchoRead, Uart!EchoLast
  <2> QED
    BY <2>1 DEF Busy, Pushing, Pend, Uart!PendingBytes
<1>5. CASE Uart!ReplyWait(t) \/ Uart!ReplyTimeout(t) \/ Uart!ReplyRead(t) \/ Uart!ReplyLast(t)
  <2>1. uPc[t] \in {"reply", "replied"}
        /\ uTxie' = uTxie /\ UNCHANGED <<uIn, uOut>>
    BY <1>5 DEF Uart!Runs, Uart!ring, Uart!ReplyWait, Uart!ReplyTimeout, Uart!ReplyRead,
       Uart!ReplyLast
  <2> QED
    BY <2>1 DEF Busy, Pushing, Pend, Uart!PendingBytes
<1> QED
    BY <1>1, <1>2, <1>3, <1>4, <1>5 DEF Uart!Continue

(* Bytes on the ring stay on the way to the fifo.                           *)
LEMMA PumpStep ==
    ASSUME UTyped, UHolds, Pump, Uart!Next
    PROVE  Pump'
<1>1. ASSUME NEW t \in Driver, Uart!Write(t) \/ (t = Reader /\ Uart!Request) \/ Uart!Continue(t)
      PROVE  Pump'
  <2>1. ~uIsr'
    BY <1>1, ThreadRuns
  <2>2. CASE uPc'[t] \in Busy
    BY <2>1, <2>2 DEF Pump, Busy
  <2>3. CASE Uart!WriteEnd(t)
    <3>1. Pend' = Pend /\ (Pend > 0 => uTxie')
      BY <2>3 DEF Uart!WriteEnd, Uart!ring, Pend, Uart!PendingBytes
    <3> QED
      BY <2>1, <3>1 DEF Pump
  <2>4. CASE uPc[t] \notin Busy /\ uTxie' = uTxie /\ Pend' = Pend
    <3>1. Acted(t)
      BY <1>1, BeginActs, ContinueActs
    <3>2. (\A u \in Driver : uPc'[u] \notin Busy) => (\A u \in Driver : uPc[u] \notin Busy)
      BY <2>4, <3>1 DEF Acted
    <3>3. Pend > 0 /\ (\A u \in Driver : uPc[u] \notin Busy) => uTxie
      BY DEF Pump, Busy
    <3>4. Pend' > 0 /\ (\A u \in Driver : uPc'[u] \notin Busy) => uTxie'
      BY <2>4, <3>2, <3>3
    <3> QED
      BY <2>1, <3>4 DEF Pump, Busy
  <2> QED
    BY <1>1, <2>2, <2>3, <2>4, IdleLine
<1>2. CASE Uart!TxInterrupt \/ Uart!TxFull
  <2>1. Pend' = Pend /\ uPc' = uPc /\ uTxie' = uTxie /\ uTxie
    BY <1>2 DEF Uart!TxInterrupt, Uart!TxFull, Uart!Irq, Uart!ring, Pend, Uart!PendingBytes, Pump
  <2> QED
    BY <2>1 DEF Pump
<1>3. CASE Uart!TxNothing \/ Uart!TxEmpty
  <2>1. Pend' = 0 /\ ~uIsr'
    BY <1>3 DEF Uart!TxNothing, Uart!TxEmpty, Uart!ring, Pend, Uart!PendingBytes
  <2>2. ~(Pend' > 0)
    BY <2>1
  <2> QED
    BY <2>1, <2>2 DEF Pump
<1>4. CASE Uart!TxPull
  <2>1. uIsr' = uIsr /\ uTxie' = uTxie /\ uIsr
    BY <1>4 DEF Uart!TxPull
  <2> QED
    BY <2>1 DEF Pump
<1>5. CASE Uart!Shift \/ Uart!Reply
  <2>1. Pend' = Pend /\ uPc' = uPc /\ uTxie' = uTxie /\ uIsr' = uIsr
    BY <1>5 DEF Uart!Shift, Uart!Reply, Uart!ring, Pend, Uart!PendingBytes
  <2> QED
    BY <2>1 DEF Pump
<1> QED
    BY <1>1, <1>2, <1>3, <1>4, <1>5, UartConstants DEF Uart!Next, Uart!Handles

(* What is in no fifo and was pushed by nobody who still pushes is on no ring, *)
(* when a thread runs.                                                       *)
LEMMA NothingFlies ==
    ASSUME UTyped, UHolds, Pump, NEW t \in Driver, uMutex.owner = t, uPc[t] \notin Busy,
           uFifo = <<>>, ~uIsr, uTxie => uFifo # <<>>
    PROVE  Flying = 0
<1>1. \A u \in Driver : uPc[u] \notin Busy
    BY DEF UHolds, Held, Holding, Busy, Pushing
<1>2. ~(Pend > 0)
    BY <1>1 DEF Pump, Busy
<1> QED
    BY <1>2, FlyingIs

-----------------------------------------------------------------------------
(* The exchange of the reader.                                              *)

(* The reader does nothing, ...                                             *)
ReaderStays ==
    /\ uPc'[Reader] = uPc[Reader] /\ uSize'[Reader] = uSize[Reader]
    /\ uPushed'[Reader] = uPushed[Reader]

(* ... no byte is clocked out, ...                                          *)
FlightStays == Flying' = Flying /\ \A j \in 0 .. Flying : Flight'[j] = Flight[j]

(* ... the reader clears the receive ring or is about to request.           *)
Calm == uPc[Reader] = "clear" \/ (uPc[Reader] = "sleep" /\ uSize[Reader] = RequestSize)

(* What the others and the peripheral do to a reader that clears the ring.   *)
LEMMA ClearedStays ==
    ASSUME UTyped, Cleared, ReaderStays, uWritten' = uWritten,
           uRd # <<>> => uRd' # <<>>,
           uRd # <<>> \/ Flying > 0 => uRd' # <<>> \/ Flying' > 0,
           Calm /\ uRd = <<>> /\ Flying = 0 => uRd' = <<>> /\ Flying' = 0
    PROVE  Cleared'
BY DEF Cleared, ReaderStays, Calm, Quiet

(* What flies is counted.                                                   *)
LEMMA FlyingNat == UTyped => Flying \in Nat
BY FlyingIs

(* A step that moves bytes from the ring to the fifo, or nothing.            *)
LEMMA ExchangeStays ==
    ASSUME UTyped, Exchange, ReaderStays, FlightStays, HeardSame
    PROVE  Exchange'
<1>1. Reads'
    BY DEF Exchange, Reads, ReaderStays, FlightStays, HeardSame
<1>2. Requesting' <=> Requesting
    BY DEF Requesting, ReaderStays
<1>3. ASSUME Flies PROVE Flies'
  <2>1. \A j \in 1 .. Flying : Flight'[j] = Flight[j]
    BY FlyingNat DEF FlightStays
  <2> QED
    BY <1>3, <2>1 DEF Flies, ReaderStays, FlightStays
<1>4. ASSUME Silent PROVE Silent'
  <2>1. \A j \in 1 .. Flying : Flight'[j] = Flight[j]
    BY FlyingNat DEF FlightStays
  <2> QED
    BY <1>4, <2>1 DEF Silent, ReaderStays, FlightStays, HeardSame
<1>5. (Echoes => Echoes') /\ (Answers => Answers')
    BY DEF Echoes, Answers, ReaderStays, FlightStays, HeardSame
<1>6. Uart!Replied'
    BY DEF Exchange, Uart!Replied, ReaderStays, HeardSame
<1>7. uAnswered' = uAnswered /\ uPc'[Reader] = uPc[Reader]
    BY DEF HeardSame, ReaderStays
<1> QED
    BY <1>1, <1>2, <1>3, <1>4, <1>5, <1>6, <1>7 DEF Exchange

(* The reader holds the mutex of the UART throughout its request.            *)
LEMMA RequestHolds ==
    ASSUME UTyped, UHolds, Requesting \/ Calm \/ uPc[Reader] = "echoes"
    PROVE  uMutex.owner = Reader
BY UartConstants DEF UHolds, Held, Holding, Pushing, Requesting, Calm

(* Others push while the reader does not request, and no requests.           *)
LEMMA OtherPushes ==
    ASSUME UTyped, UHolds, Cleared, Exchange, NEW t \in Driver, t # Reader, Uart!WritePush(t)
    PROVE  Cleared' /\ Exchange'
<1> DEFINE n == Uart!Less(Uart!FreeCount, uSize[t] - uPushed[t])
           a == uPushed[t]
           z == uSize[t]
           d == uDatagrams
<1>1. n \in Nat /\ a \in Nat /\ z \in Nat /\ d \in Nat /\ Pushes(n, d, a, z) /\ uMutex.owner = t
    BY PushIs DEF Pushes, UTyped, UThreads
<1>2. z # RequestSize
    BY DEF UHolds, Local
<1> HIDE DEF n, a, z, d
<1>3. /\ Flying' = Flying + n
      /\ \A j \in 0 .. Flying : Flight'[j] = Flight[j]
      /\ \A i \in 1 .. n : Flight'[Flying + i] = <<d, a + i, z>>
    BY <1>1, FlightPush
<1>4. Acted(t) /\ HeardSame
    BY WritePushActs DEF HeardSame, Uart!WritePush, Uart!heard
<1>5. ReaderStays
    BY <1>4, UartConstants DEF Acted, ReaderStays
<1>6. ~Requesting /\ ~Calm /\ uPc[Reader] # "echoes"
    BY <1>1, RequestHolds
<1>7. Flying \in Nat
    BY FlyingNat
<1>8. Cleared'
  <2>1. uRd' = uRd /\ uWritten' = uWritten
    BY <1>4 DEF HeardSame
  <2>2. uRd # <<>> \/ Flying > 0 => uRd' # <<>> \/ Flying' > 0
    BY <2>1, <1>1, <1>3, <1>7
  <2> QED
    BY <2>1, <2>2, <1>5, <1>6, ClearedStays
<1>9. Reads' /\ Uart!Replied'
    BY <1>4, <1>5, <1>6 DEF Exchange, Reads, ReaderStays, HeardSame, Uart!Replied
<1>10. ~Requesting'
    BY <1>5, <1>6 DEF Requesting, ReaderStays
<1>11. ASSUME Silent PROVE Silent'
  <2>1. ASSUME NEW j \in 1 .. Flying' PROVE Flight'[j][3] # RequestSize
    <3>1. CASE j <= Flying
      <4>1. j \in 1 .. Flying /\ j \in 0 .. Flying
        BY <3>1, <1>7
      <4> QED
        BY <4>1, <1>3, <1>11 DEF Silent
    <3>2. CASE j > Flying
      <4> DEFINE i == j - Flying
      <4>1. i \in 1 .. n /\ j = Flying + i
        BY <3>2, <1>1, <1>3, <1>7
      <4> HIDE DEF i
      <4>2. Flight'[j] = <<d, a + i, z>>
        BY <4>1, <1>3
      <4> QED
        BY <4>2, <1>2
    <3> QED
      BY <3>1, <3>2, <1>1, <1>3, <1>7
  <2> QED
    BY <2>1, <1>11, <1>4, <1>5 DEF Silent, HeardSame, ReaderStays
<1> QED
    BY <1>6, <1>8, <1>9, <1>10, <1>11, <1>5 DEF Exchange, ReaderStays

(* Threads but the reader do not touch what was heard.                      *)
LEMMA OthersHear ==
    ASSUME UTyped, UHolds, NEW t \in Driver, t # Reader, Uart!Write(t) \/ Uart!Continue(t)
    PROVE  HeardSame
<1>1. Local(t)
    BY DEF UHolds
<1>2. /\ ~Uart!ClearRead(t) /\ ~Uart!EchoRead(t) /\ ~Uart!EchoLast(t)
      /\ ~Uart!ReplyRead(t) /\ ~Uart!ReplyLast(t) /\ ~Uart!ReplyTimeout(t)
    BY <1>1 DEF Local, Uart!Has, Uart!Runs, Uart!ClearRead, Uart!EchoRead, Uart!EchoLast,
       Uart!ReplyRead, Uart!ReplyLast, Uart!ReplyTimeout
<1>3. CASE Uart!Sent(t)
    BY <1>3 DEF Uart!Sent, HeardSame
<1>4. CASE Uart!Write(t)
    BY <1>4 DEF Uart!Write, Uart!Begin, Uart!heard, HeardSame
<1>5. CASE Uart!Continue(t) /\ ~Uart!Sent(t)
    BY <1>2, <1>5 DEF Uart!Continue, Uart!heard, HeardSame, Uart!FlushLook, Uart!FlushGet,
       Uart!WriteStart, Uart!WritePush, Uart!WriteFull, Uart!WriteRoom, Uart!WriteEnd,
       Uart!ClearLook, Uart!EchoWait, Uart!ReplyWait
<1> QED
    BY <1>3, <1>4, <1>5

(* They leave the reader its exchange.                                      *)
LEMMA OtherSteps ==
    ASSUME UTyped, UHolds, Cleared, Exchange, NEW t \in Driver, t # Reader,
           Uart!Write(t) \/ Uart!Continue(t)
    PROVE  Cleared' /\ Exchange'
<1>1. CASE Uart!WritePush(t)
    BY <1>1, OtherPushes
<1>2. CASE ~Uart!WritePush(t)
  <2>1. ReaderStays
    BY BeginActs, ContinueActs, UartConstants DEF Acted, ReaderStays
  <2>2. FlightStays
    BY <1>2, ThreadLine, FlightSame DEF FlightStays
  <2>3. HeardSame
    BY OthersHear
  <2>4. Cleared'
    BY <2>1, <2>2, <2>3, ClearedStays DEF FlightStays, HeardSame
  <2> QED
    BY <2>1, <2>2, <2>3, <2>4, ExchangeStays
<1> QED
    BY <1>1, <1>2

(* So does the handler.                                                     *)
LEMMA HandlerSteps ==
    ASSUME UTyped, Cleared, Exchange, Uart!Handles
    PROVE  Cleared' /\ Exchange'
<1>1. ReaderStays /\ HeardSame
    BY DEF Uart!Handles, Uart!TxInterrupt, Uart!TxNothing, Uart!TxPull, Uart!TxEmpty,
       Uart!TxFull, Uart!call, Uart!heard, ReaderStays, HeardSame
<1>2. FlightStays
  <2>1. CASE Uart!TxPull
    <3>1. Pend > 0
      BY <2>1 DEF Uart!TxPull, Pend
    <3> QED
      BY <2>1, <3>1, FlightPull DEF Uart!TxPull, FlightStays
  <2>2. CASE ~Uart!TxPull
    <3>1. UNCHANGED <<uBuffer, uIn, uOut, uFifo, uWire>>
      BY <2>2 DEF Uart!Handles, Uart!TxInterrupt, Uart!TxNothing, Uart!TxEmpty, Uart!TxFull, Uart!ring
    <3> QED
      BY <3>1, FlightSame DEF FlightStays
  <2> QED
    BY <2>1, <2>2
<1>3. Cleared'
    BY <1>1, <1>2, ClearedStays DEF FlightStays, HeardSame
<1> QED
    BY <1>1, <1>2, <1>3, ExchangeStays

-----------------------------------------------------------------------------
(* The peripheral shifts: one byte less flies, one more is heard.           *)
LEMMA ShiftDoes ==
    ASSUME UTyped, Uart!Shift
    PROVE  /\ Flying \in Nat \ {0} /\ Flying' = Flying - 1
           /\ \A j \in 1 .. Flying' : Flight'[j] = Flight[j + 1]
           /\ uWire' = Flight[1] /\ ReaderStays
           /\ uRd \in Seq(Nat) /\ uRd' \in Seq(Nat) /\ uRd' # <<>>
           /\ Len(uRd) < Heard => Len(uRd') = Len(uRd) + 1
           /\ \A i \in 1 .. Len(uRd) : uRd'[i] = uRd[i]
           /\ Len(uRd') >= Len(uRd)
           /\ UNCHANGED <<uRead, uWritten>>
<1>1. /\ uFifo # <<>> /\ uWire' = Head(uFifo) /\ uFifo' = Tail(uFifo)
      /\ UNCHANGED <<uBuffer, uIn, uOut, uRead, uWritten>> /\ RdMore(0)
    BY ShiftHears DEF Uart!Shift, Uart!ring
<1>2. /\ Flying > 0 /\ Flying' = Flying - 1
      /\ \A j \in 0 .. Flying - 1 : Flight'[j] = Flight[j + 1]
    BY <1>1, FlightShift
<1>3. Flying \in Nat \ {0} /\ Flying' = Flying - 1
    BY <1>2, FlyingNat
<1>4. \A j \in 1 .. Flying' : Flight'[j] = Flight[j + 1]
    BY <1>2, <1>3
<1>5. uWire' = Flight[1]
  <2>1. Len(uFifo) \in Nat \ {0} /\ Head(uFifo) = uFifo[1]
    BY <1>1 DEF UTyped, URing
  <2>2. 1 \in 0 .. Flying
    BY <1>3
  <2> QED
    BY <1>1, <2>1, <2>2 DEF Flight
<1>6. ReaderStays
    BY DEF Uart!Shift, Uart!call, ReaderStays
<1>7. uRd \in Seq(Nat) /\ 0 \in Nat /\ Heard \in Nat /\ Heard > 0
  <2>1. Heard \in Nat /\ Heard > 0
    BY UartConstants
  <2> QED
    BY <2>1 DEF UTyped, UHeard
<1>8. /\ uRd' \in Seq(Nat)
      /\ Len(uRd) < Heard => Len(uRd') = Len(uRd) + 1 /\ uRd'[Len(uRd) + 1] = 0
      /\ \A i \in 1 .. Len(uRd) : uRd'[i] = uRd[i]
      /\ uRd # <<>> => uRd' # <<>>
    BY <1>1, <1>7, MoreHeard, SMTT(30) DEF RdMore
<1>9. uRd' # <<>> /\ Len(uRd') >= Len(uRd)
  <2>1. CASE Len(uRd) < Heard
    <3>1. Len(uRd') = Len(uRd) + 1 /\ Len(uRd) \in Nat
      BY <1>7, <1>8, <2>1
    <3> QED
      BY <3>1, <1>8
  <2>2. CASE ~(Len(uRd) < Heard)
    <3>1. uRd' = uRd
      BY <1>1, <2>2 DEF RdMore
    <3> QED
      BY <3>1, <1>7, <2>2
  <2> QED
    BY <2>1, <2>2
<1> QED
    BY <1>1, <1>3, <1>4, <1>5, <1>6, <1>7, <1>8, <1>9

(* A byte that lands is heard instead.                                      *)
LEMMA ShiftCleared ==
    ASSUME UTyped, Cleared, Uart!Shift
    PROVE  Cleared'
BY ShiftDoes, ClearedStays

(* At most the whole request and its reply are heard.                        *)
LEMMA PushedMost ==
    ASSUME UTyped, UHolds, Requesting
    PROVE  uPushed[Reader] \in 0 .. RequestSize
<1>1. UThreads /\ Local(Reader) /\ RequestSize \in Nat
    BY UartConstants DEF UTyped, UHolds
<1>2. uPushed[Reader] \in Nat
    BY <1>1, UartConstants DEF UThreads
<1> QED
    BY <1>1, <1>2 DEF Requesting, Local, Pushing

(* A byte of the request is echoed, its last one may be replied to.         *)
LEMMA ShiftExchange ==
    ASSUME UTyped, UHolds, Exchange, Uart!Shift
    PROVE  Exchange'
<1> DEFINE P == uPushed[Reader]
<1>1. /\ Flying \in Nat \ {0} /\ Flying' = Flying - 1
      /\ \A j \in 1 .. Flying' : Flight'[j] = Flight[j + 1]
      /\ uWire' = Flight[1] /\ ReaderStays
      /\ uRd \in Seq(Nat) /\ uRd' \in Seq(Nat)
      /\ Len(uRd) < Heard => Len(uRd') = Len(uRd) + 1
      /\ \A i \in 1 .. Len(uRd) : uRd'[i] = uRd[i]
      /\ Len(uRd') >= Len(uRd)
      /\ UNCHANGED uRead
    BY ShiftDoes
<1>2. \/ UNCHANGED <<uReply, uAnswered>>
      \/ /\ uWire'[2] = RequestSize /\ uWire'[3] = RequestSize
         /\ uReply' = [i \in 1 .. ReplySize |-> i] /\ uAnswered' = TRUE
    BY ShiftHears
<1>3. Reads'
    BY <1>1 DEF Exchange, Reads, ReaderStays
<1>4. Requesting' <=> Requesting
    BY <1>1 DEF Requesting, ReaderStays
<1>5. CASE Requesting
  <2>1. Flies /\ ~uAnswered /\ Echoes
    BY <1>1, <1>5 DEF Exchange, Answers
  <2>2. P \in 0 .. RequestSize /\ P' = P
    BY <1>1, <1>5, PushedMost DEF ReaderStays
  <2> HIDE DEF P
  <2>3. Flies'
    <3>1. Flying' <= P'
      BY <1>1, <2>1, <2>2 DEF Flies, P
    <3>2. ASSUME NEW j \in 1 .. Flying'
          PROVE  Flight'[j][2] = P' - Flying' + j /\ Flight'[j][3] = RequestSize
      <4> DEFINE i == j + 1
      <4>1. i \in 1 .. Flying /\ P - Flying + i = P' - Flying' + j
        BY <1>1, <2>2
      <4>2. Flight'[j] = Flight[i]
        BY <1>1
      <4>3. Flight[i][2] = P - Flying + i /\ Flight[i][3] = RequestSize
        BY <4>1, <2>1 DEF Flies, P
      <4> QED
        BY <4>1, <4>2, <4>3
    <3> QED
      BY <3>1, <3>2 DEF Flies, P
  <2>4. uRead \in Nat /\ uRead <= RequestSize /\ RequestSize \in Nat /\ ReplySize \in Nat \ {0}
        /\ Heard \in Nat /\ Heard >= RequestSize + ReplySize
    BY <1>5, UartConstants DEF UTyped, UHeard, Exchange, Reads, Requesting, Pushing
  <2>5. Len(uRd) \in Nat /\ Len(uRd) + uRead = P - Flying
    BY <1>1, <2>1 DEF Echoes, P
  <2>6. Len(uRd') = Len(uRd) + 1
    BY <2>2, <2>4, <2>5, <1>1
  <2>7. Len(uRd') + uRead' = P' - Flying'
    BY <2>2, <2>4, <2>5, <2>6, <1>1, SMTT(30)
  <2>8. CASE UNCHANGED <<uReply, uAnswered>>
    BY <1>3, <1>4, <1>5, <2>1, <2>3, <2>7, <2>8, <1>1
       DEF Exchange, Echoes, P, Uart!Replied, ReaderStays, Requesting, Pushing
  <2>9. CASE /\ uWire'[2] = RequestSize /\ uWire'[3] = RequestSize
             /\ uReply' = [i \in 1 .. ReplySize |-> i] /\ uAnswered' = TRUE
    <3>1. P - Flying + 1 = RequestSize
      <4>1. 1 \in 1 .. Flying
        BY <1>1
      <4>2. Flight[1][2] = P - Flying + 1
        BY <4>1, <2>1 DEF Flies, P
      <4> QED
        BY <4>2, <2>9, <1>1
    <3>2. Flying' = 0 /\ P' = RequestSize
      <4>1. PICK f \in Nat \ {0}, q \in Nat, r \in Nat :
                f = Flying /\ q = P /\ r = RequestSize /\ q <= r
        BY <1>1, <2>2, <2>4
      <4>2. q - f + 1 = r
        BY <3>1, <4>1
      <4>3. f - 1 = 0 /\ q = r
        BY <4>1, <4>2
      <4> QED
        BY <1>1, <2>2, <4>1, <4>3
    <3>3. /\ uReply' \in Seq(Nat) /\ Len(uReply') = ReplySize
          /\ \A i \in 1 .. Len(uReply') : uReply'[i] = i
      BY <2>9, WholeReply
    <3>4. Answers'
      <4>1. Len(uRd') + Len(uReply') + uRead' = RequestSize + ReplySize
        <5>1. Len(uRd') \in Nat /\ uRead' \in Nat /\ ReplySize \in Nat /\ RequestSize \in Nat
          BY <2>4, <2>5, <2>6, <1>1
        <5>2. Len(uRd') + uRead' = RequestSize
          BY <2>7, <3>2, <2>4
        <5>3. PICK a \in Nat, b \in Nat, c \in Nat :
                  a = Len(uRd') /\ b = uRead' /\ c = ReplySize /\ Len(uReply') = c
          BY <3>3, <5>1
        <5>4. a + b = RequestSize
          BY <5>2, <5>3
        <5>5. a + c + b = RequestSize + c
          BY <5>4
        <5> QED
          BY <5>3, <5>5
      <4>2. \A i \in 1 .. Len(uReply') : uReply'[i] = ReplySize - Len(uReply') + i
        BY <3>3, <2>4
      <4>3. \A i \in 1 .. ReplySize - Len(uReply') : uRd'[RequestSize - uRead' + i] = i
        BY <3>3, <2>4
      <4> QED
        BY <3>2, <3>3, <4>1, <4>2, <4>3, <2>4 DEF Answers, P
    <3>5. Uart!Replied'
      BY <1>1, <1>5 DEF Uart!Replied, ReaderStays, Requesting, Pushing
    <3> QED
      BY <1>3, <1>4, <1>5, <2>3, <2>9, <3>4, <3>5 DEF Exchange
  <2> QED
    BY <1>2, <2>8, <2>9
<1>6. CASE ~Requesting /\ uPc[Reader] # "lost"
  <2>1. Silent
    BY <1>6 DEF Exchange
  <2>2. UNCHANGED <<uReply, uAnswered>>
    <3>1. 1 \in 1 .. Flying
      BY <1>1
    <3> QED
      BY <1>1, <1>2, <2>1, <3>1 DEF Silent
  <2>3. \A j \in 1 .. Flying' : Flight'[j][3] # RequestSize
    <3> SUFFICES ASSUME NEW j \in 1 .. Flying' PROVE Flight'[j][3] # RequestSize
      OBVIOUS
    <3>1. j + 1 \in 1 .. Flying
      BY <1>1
    <3> QED
      BY <1>1, <2>1, <3>1 DEF Silent
  <2>4. Silent'
    BY <1>1, <2>1, <2>2, <2>3 DEF Silent, ReaderStays
  <2>5. Uart!Replied'
    <3> SUFFICES ASSUME uAnswered, uPc[Reader] \in {"reply", "replied"}
                 PROVE  /\ Len(uRd') >= ReplySize - uRead
                        /\ \A i \in 1 .. ReplySize - uRead : uRd'[i] = uRead + i
      BY <1>1, <2>2 DEF Uart!Replied, ReaderStays
    <3>1. /\ Len(uRd) >= ReplySize - uRead
          /\ \A i \in 1 .. ReplySize - uRead : uRd[i] = uRead + i
      BY DEF Exchange, Uart!Replied
    <3>2. Len(uRd) \in Nat /\ Len(uRd') \in Nat /\ uRead \in Nat /\ ReplySize \in Nat
      BY <1>1, UartConstants DEF UTyped, UHeard
    <3>3. ASSUME NEW i \in 1 .. ReplySize - uRead PROVE uRd'[i] = uRead + i
      <4>1. i \in 1 .. Len(uRd)
        BY <3>1, <3>2
      <4> QED
        BY <4>1, <3>1, <1>1
    <3> QED
      BY <3>1, <3>2, <3>3, <1>1
  <2> QED
    BY <1>3, <1>4, <1>6, <2>4, <2>5, <1>1 DEF Exchange, ReaderStays
<1>7. CASE uPc[Reader] = "lost"
    BY <1>3, <1>4, <1>7, <1>1 DEF Exchange, ReaderStays, Requesting, Pushing, Uart!Replied
<1> QED
    BY <1>5, <1>6, <1>7

(* The chip sends beside all else.                                          *)
LEMMA ReplyDoes ==
    ASSUME UTyped, Uart!Reply
    PROVE  ReaderStays /\ FlightStays
<1>1. UNCHANGED <<uBuffer, uIn, uOut, uFifo, uWire>>
    BY DEF Uart!Reply, Uart!ring
<1>2. ReaderStays
    BY DEF Uart!Reply, Uart!call, ReaderStays
<1> QED
    BY <1>1, <1>2, FlightSame DEF FlightStays

(* It does not while the ring is to be quiet.                               *)
LEMMA ReplyCleared ==
    ASSUME UTyped, Cleared, Exchange, Uart!Reply
    PROVE  Cleared'
<1>1. ReaderStays /\ FlightStays
    BY ReplyDoes
<1>2. uReply # <<>> /\ RdMore(Head(uReply)) /\ uWritten' = uWritten
    BY ReplyHears
<1>3. ~Calm
    BY <1>2 DEF Calm, Exchange, Silent, Requesting, Pushing
<1>4. uRd # <<>> => uRd' # <<>>
  <2>1. uRd \in Seq(Nat) /\ Head(uReply) \in Nat
    BY <1>2, HeadAndTail DEF UTyped, UHeard
  <2> QED
    BY <1>2, <2>1, MoreHeard DEF RdMore
<1> QED
    BY <1>1, <1>2, <1>3, <1>4, ClearedStays DEF FlightStays

(* It sends in order behind the echoes.                                     *)
LEMMA ReplyExchange ==
    ASSUME UTyped, UHolds, Exchange, Uart!Reply
    PROVE  Exchange'
<1>1. ReaderStays /\ FlightStays
    BY ReplyDoes
<1>2. /\ uReply # <<>> /\ RdMore(Head(uReply)) /\ uReply' = Tail(uReply)
      /\ UNCHANGED <<uAnswered, uRead>>
    BY ReplyHears
<1>3. Reads'
    BY <1>1, <1>2 DEF Exchange, Reads, ReaderStays, FlightStays
<1>4. Requesting' <=> Requesting
    BY <1>1 DEF Requesting, ReaderStays
<1>5. CASE Requesting
  <2>1. Flies /\ uAnswered /\ Answers
    BY <1>2, <1>5 DEF Exchange, Echoes
  <2>2. Flies'
    <3>1. \A j \in 1 .. Flying : Flight'[j] = Flight[j]
      BY <1>1, FlyingNat DEF FlightStays
    <3> QED
      BY <1>1, <2>1, <3>1 DEF Flies, ReaderStays, FlightStays
  <2> DEFINE r == Len(uReply)
             m == Len(uRd)
  <2>3. /\ r \in Nat \ {0} /\ Len(uReply') = r - 1 /\ Head(uReply) = uReply[1]
        /\ \A i \in 1 .. r - 1 : uReply'[i] = uReply[i + 1]
        /\ Head(uReply) \in Nat
    BY <1>2, HeadAndTail DEF UTyped, UHeard
  <2>4. /\ m \in Nat /\ uRead \in Nat /\ RequestSize \in Nat /\ ReplySize \in Nat
        /\ Heard \in Nat /\ Heard >= RequestSize + ReplySize /\ uRead <= RequestSize
    BY <1>5, UartConstants DEF UTyped, UHeard, Exchange, Reads, Requesting, Pushing
  <2>5. /\ Flying = 0 /\ uPushed[Reader] = RequestSize /\ r <= ReplySize
        /\ m + r + uRead = RequestSize + ReplySize
        /\ \A i \in 1 .. r : uReply[i] = ReplySize - r + i
        /\ \A i \in 1 .. ReplySize - r : uRd[RequestSize - uRead + i] = i
    BY <2>1 DEF Answers
  <2>6. uRd \in Seq(Nat)
    BY DEF UTyped, UHeard
  <2>7. m < Heard
    <3> HIDE DEF r, m
    <3> QED
      BY <2>3, <2>4, <2>5
  <2>8. /\ Len(uRd') = m + 1 /\ uRd'[m + 1] = Head(uReply)
        /\ \A i \in 1 .. m : uRd'[i] = uRd[i]
    BY <1>2, <2>3, <2>6, <2>7, MoreHeard DEF RdMore
  <2> HIDE DEF r, m
  <2>9. Head(uReply) = ReplySize - r + 1
    <3>1. 1 \in 1 .. r
      BY <2>3
    <3> QED
      BY <2>3, <2>5, <3>1
  <2>10. Len(uRd') + Len(uReply') + uRead' = RequestSize + ReplySize
    BY <2>3, <2>4, <2>5, <2>8, <1>2
  <2>11. \A i \in 1 .. Len(uReply') : uReply'[i] = ReplySize - Len(uReply') + i
    <3> SUFFICES ASSUME NEW i \in 1 .. r - 1 PROVE uReply'[i] = ReplySize - (r - 1) + i
      BY <2>3
    <3> DEFINE k == i + 1
    <3>1. k \in 1 .. r /\ ReplySize - r + k = ReplySize - (r - 1) + i
      BY <2>3, <2>4
    <3>2. uReply'[i] = uReply[k]
      BY <2>3
    <3> HIDE DEF k
    <3> QED
      BY <2>5, <3>1, <3>2
  <2>12. \A i \in 1 .. ReplySize - Len(uReply') : uRd'[RequestSize - uRead' + i] = i
    <3> SUFFICES ASSUME NEW i \in 1 .. ReplySize - (r - 1) PROVE uRd'[RequestSize - uRead + i] = i
      BY <2>3, <1>2
    <3> DEFINE k == RequestSize - uRead + i
    <3>1. CASE i <= ReplySize - r
      <4>1. i \in 1 .. ReplySize - r /\ k \in 1 .. m
        BY <3>1, <2>3, <2>4, <2>5
      <4>2. uRd'[k] = uRd[k] /\ uRd[k] = i
        BY <4>1, <2>5, <2>8
      <4> QED
        BY <4>2
    <3>2. CASE i = ReplySize - r + 1
      <4>1. k = m + 1
        BY <3>2, <2>3, <2>4, <2>5
      <4>2. uRd'[k] = i
        BY <4>1, <3>2, <2>8, <2>9
      <4> QED
        BY <4>2
    <3> QED
      BY <3>1, <3>2, <2>3, <2>4
  <2>13. Len(uReply') <= ReplySize
    BY <2>3, <2>4, <2>5
  <2>14. Answers'
    BY <1>1, <2>5, <2>10, <2>11, <2>12, <2>13 DEF Answers, ReaderStays, FlightStays
  <2>15. Uart!Replied'
    BY <1>1, <1>5 DEF Uart!Replied, ReaderStays, Requesting, Pushing
  <2> QED
    BY <1>2, <1>3, <1>4, <1>5, <2>1, <2>2, <2>14, <2>15 DEF Exchange
<1>6. CASE ~Requesting
  <2>1. uPc[Reader] = "lost"
    BY <1>2, <1>6 DEF Exchange, Silent
  <2> QED
    BY <1>3, <1>4, <1>6, <2>1, <1>1 DEF Exchange, ReaderStays, Uart!Replied
<1> QED
    BY <1>5, <1>6

(* Steps of the reader that only change what it does.                        *)
LEMMA ReaderMoves ==
    ASSUME UTyped, UHolds, Uart!Continue(Reader), ~Uart!WritePush(Reader), NEW at,
           uPc' = [uPc EXCEPT ![Reader] = at], UNCHANGED <<uSize, uPushed, uRd, uReply, uAnswered, uRead, uWritten>>
    PROVE  /\ FlightStays /\ HeardSame /\ uPc'[Reader] = at
           /\ uSize'[Reader] = uSize[Reader] /\ uPushed'[Reader] = uPushed[Reader]
           /\ uPushed[Reader] \in Nat /\ uSize[Reader] \in Nat /\ Local(Reader)
           /\ RequestSize \in Nat \ {0} /\ ReplySize \in Nat \ {0}
<1>1. Reader \in Driver /\ RequestSize \in Nat \ {0} /\ ReplySize \in Nat \ {0}
    BY UartConstants
<1>2. FlightStays
    BY <1>1, ThreadLine, FlightSame DEF FlightStays
<1>3. HeardSame
    BY DEF HeardSame
<1>4. /\ uPc'[Reader] = at /\ uPushed[Reader] \in Nat /\ uSize[Reader] \in Nat /\ Local(Reader)
      /\ uSize'[Reader] = uSize[Reader] /\ uPushed'[Reader] = uPushed[Reader]
    BY <1>1 DEF UTyped, UThreads, UHolds
<1> QED
    BY <1>1, <1>2, <1>3, <1>4

(* The exchange does not depend on where the reader is in its request.      *)
LEMMA MovesExchange ==
    ASSUME UTyped, Exchange, FlightStays, HeardSame, uPushed'[Reader] = uPushed[Reader],
           uPc[Reader] \notin {"reply", "replied", "lost"},
           uPc'[Reader] \notin {"replied", "lost"},
           Requesting' <=> Requesting, Reads',
           uPc'[Reader] = "reply" => Requesting
    PROVE  Exchange'
<1>1. \A j \in 1 .. Flying : Flight'[j] = Flight[j]
    BY FlyingNat DEF FlightStays
<1>2. Flies => Flies'
    BY <1>1 DEF Flies, FlightStays
<1>3. (Echoes => Echoes') /\ (Answers => Answers')
    BY DEF Echoes, Answers, FlightStays, HeardSame
<1>4. ASSUME ~Requesting PROVE Silent /\ ~uAnswered
    BY <1>4 DEF Exchange, Silent
<1>5. ASSUME ~Requesting PROVE Silent'
    BY <1>1, <1>4, <1>5 DEF Silent, FlightStays, HeardSame
<1>6. uAnswered' = uAnswered
    BY DEF HeardSame
<1>7. ~Requesting' \/ Requesting
    OBVIOUS
<1>8. Requesting' => uPc'[Reader] \notin {"reply", "replied"}
    BY DEF Requesting, Pushing
<1>9. Uart!Replied'
    BY <1>4, <1>6, <1>8 DEF Uart!Replied
<1> QED
    BY <1>2, <1>3, <1>5, <1>6, <1>9 DEF Exchange

(* The steps of the reader, one after the other: it flushes before or       *)
(* after its request, ...                                                   *)
LEMMA FlushLookReader ==
    ASSUME UTyped, UHolds, Cleared, Exchange, Uart!FlushLook(Reader)
    PROVE  Cleared' /\ Exchange'
<1> DEFINE at == IF Uart!PendingBytes = 0 THEN Uart!After(Reader) ELSE "empty"
<1>1. /\ uPc' = [uPc EXCEPT ![Reader] = at] /\ uPc[Reader] = "flush"
      /\ UNCHANGED <<uSize, uPushed, uRd, uReply, uAnswered, uRead, uWritten>>
      /\ Uart!Continue(Reader)
    BY DEF Uart!FlushLook, Uart!Has, Uart!Runs, Uart!Goto, Uart!call, Uart!heard, Uart!Continue
<1>2. /\ at \in {"clear", "echo", "empty"}
      /\ at = "clear" => uPushed[Reader] = 0
      /\ at = "echo" => uPushed[Reader] # 0
    BY DEF Uart!After
<1> HIDE DEF at
<1>3. ~Uart!WritePush(Reader)
    BY <1>1 DEF Uart!WritePush, Uart!Has, Uart!Runs
<1>4. /\ FlightStays /\ HeardSame /\ uPc'[Reader] = at
      /\ uSize'[Reader] = uSize[Reader] /\ uPushed'[Reader] = uPushed[Reader]
      /\ uPushed[Reader] \in Nat /\ uSize[Reader] \in Nat /\ Local(Reader)
      /\ RequestSize \in Nat \ {0} /\ ReplySize \in Nat \ {0}
    BY <1>1, <1>3, ReaderMoves
<1>5. Cleared'
    BY <1>1, <1>2, <1>4 DEF Cleared, Quiet, Local, FlightStays, HeardSame, Pushing, Writing, Wrote
<1>6. Requesting' <=> Requesting
    BY <1>1, <1>2, <1>4 DEF Requesting, Local, Pushing
<1>7. Reads'
    BY <1>1, <1>2, <1>4 DEF Exchange, Reads, HeardSame
<1>8. Exchange'
    BY <1>1, <1>2, <1>4, <1>6, <1>7, MovesExchange
<1> QED
    BY <1>5, <1>8

(* ... is woken, ...                                                        *)
LEMMA FlushGetReader ==
    ASSUME UTyped, UHolds, Cleared, Exchange, Uart!FlushGet(Reader)
    PROVE  Cleared' /\ Exchange'
<1> DEFINE at == Uart!After(Reader)
<1>1. /\ uPc' = [uPc EXCEPT ![Reader] = at] /\ uPc[Reader] = "empty"
      /\ UNCHANGED <<uSize, uPushed, uRd, uReply, uAnswered, uRead, uWritten>>
      /\ Uart!Continue(Reader)
    BY DEF Uart!FlushGet, Uart!Has, Uart!Runs, Uart!Goto, Uart!call, Uart!heard, Uart!Continue
<1>2. /\ at \in {"clear", "echo"}
      /\ at = "clear" => uPushed[Reader] = 0
      /\ at = "echo" => uPushed[Reader] # 0
    BY DEF Uart!After
<1> HIDE DEF at
<1>3. ~Uart!WritePush(Reader)
    BY <1>1 DEF Uart!WritePush, Uart!Has, Uart!Runs
<1>4. /\ FlightStays /\ HeardSame /\ uPc'[Reader] = at
      /\ uSize'[Reader] = uSize[Reader] /\ uPushed'[Reader] = uPushed[Reader]
      /\ uPushed[Reader] \in Nat /\ uSize[Reader] \in Nat /\ Local(Reader)
      /\ RequestSize \in Nat \ {0} /\ ReplySize \in Nat \ {0}
    BY <1>1, <1>3, ReaderMoves
<1>5. Cleared'
    BY <1>1, <1>2, <1>4 DEF Cleared, Quiet, Local, FlightStays, HeardSame, Pushing, Writing, Wrote
<1>6. Requesting' <=> Requesting
    BY <1>1, <1>2, <1>4 DEF Requesting, Local, Pushing
<1>7. Reads'
    BY <1>1, <1>2, <1>4 DEF Exchange, Reads, HeardSame
<1>8. Exchange'
    BY <1>1, <1>2, <1>4, <1>6, <1>7, MovesExchange
<1> QED
    BY <1>5, <1>8

(* ... finds the ring full, ...                                             *)
LEMMA WriteFullReader ==
    ASSUME UTyped, UHolds, Cleared, Exchange, Uart!WriteFull(Reader)
    PROVE  Cleared' /\ Exchange'
<1> DEFINE at == "room"
<1>1. /\ uPc' = [uPc EXCEPT ![Reader] = at] /\ uPc[Reader] = "full"
      /\ UNCHANGED <<uSize, uPushed, uRd, uReply, uAnswered, uRead, uWritten>>
      /\ Uart!Continue(Reader)
    BY DEF Uart!WriteFull, Uart!Has, Uart!Runs, Uart!Goto, Uart!call, Uart!heard, Uart!Continue
<1>2. /\ at \in {"room"}
    BY DEF Uart!After
<1> HIDE DEF at
<1>3. ~Uart!WritePush(Reader)
    BY <1>1 DEF Uart!WritePush, Uart!Has, Uart!Runs
<1>4. /\ FlightStays /\ HeardSame /\ uPc'[Reader] = at
      /\ uSize'[Reader] = uSize[Reader] /\ uPushed'[Reader] = uPushed[Reader]
      /\ uPushed[Reader] \in Nat /\ uSize[Reader] \in Nat /\ Local(Reader)
      /\ RequestSize \in Nat \ {0} /\ ReplySize \in Nat \ {0}
    BY <1>1, <1>3, ReaderMoves
<1>5. Cleared'
    BY <1>1, <1>2, <1>4 DEF Cleared, Quiet, Local, FlightStays, HeardSame, Pushing, Writing, Wrote
<1>6. Requesting' <=> Requesting
    BY <1>1, <1>2, <1>4 DEF Requesting, Local, Pushing
<1>7. Reads'
    BY <1>1, <1>2, <1>4 DEF Exchange, Reads, HeardSame
<1>8. Exchange'
    BY <1>1, <1>2, <1>4, <1>6, <1>7, MovesExchange
<1> QED
    BY <1>5, <1>8

(* ... finds room, ...                                                      *)
LEMMA WriteRoomReader ==
    ASSUME UTyped, UHolds, Cleared, Exchange, Uart!WriteRoom(Reader)
    PROVE  Cleared' /\ Exchange'
<1> DEFINE at == "push"
<1>1. /\ uPc' = [uPc EXCEPT ![Reader] = at] /\ uPc[Reader] = "room"
      /\ UNCHANGED <<uSize, uPushed, uRd, uReply, uAnswered, uRead, uWritten>>
      /\ Uart!Continue(Reader)
    BY DEF Uart!WriteRoom, Uart!Has, Uart!Runs, Uart!Goto, Uart!call, Uart!heard, Uart!Continue
<1>2. /\ at \in {"push"}
    BY DEF Uart!After
<1> HIDE DEF at
<1>3. ~Uart!WritePush(Reader)
    BY <1>1 DEF Uart!WritePush, Uart!Has, Uart!Runs
<1>4. /\ FlightStays /\ HeardSame /\ uPc'[Reader] = at
      /\ uSize'[Reader] = uSize[Reader] /\ uPushed'[Reader] = uPushed[Reader]
      /\ uPushed[Reader] \in Nat /\ uSize[Reader] \in Nat /\ Local(Reader)
      /\ RequestSize \in Nat \ {0} /\ ReplySize \in Nat \ {0}
    BY <1>1, <1>3, ReaderMoves
<1>5. Cleared'
    BY <1>1, <1>2, <1>4 DEF Cleared, Quiet, Local, FlightStays, HeardSame, Pushing, Writing, Wrote
<1>6. Requesting' <=> Requesting
    BY <1>1, <1>2, <1>4 DEF Requesting, Local, Pushing
<1>7. Reads'
    BY <1>1, <1>2, <1>4 DEF Exchange, Reads, HeardSame
<1>8. Exchange'
    BY <1>1, <1>2, <1>4, <1>6, <1>7, MovesExchange
<1> QED
    BY <1>5, <1>8

(* ... has pushed all.                                                      *)
LEMMA WriteEndReader ==
    ASSUME UTyped, UHolds, Cleared, Exchange, Uart!WriteEnd(Reader)
    PROVE  Cleared' /\ Exchange'
<1> DEFINE at == IF uSize[Reader] = RequestSize THEN "flush" ELSE "sent"
<1>1. /\ uPc' = [uPc EXCEPT ![Reader] = at] /\ uPc[Reader] = "enable"
      /\ UNCHANGED <<uSize, uPushed, uRd, uReply, uAnswered, uRead, uWritten>>
      /\ Uart!Continue(Reader)
    BY DEF Uart!WriteEnd, Uart!Has, Uart!Runs, Uart!Goto, Uart!call, Uart!heard, Uart!Continue
<1>2. /\ at \in {"flush", "sent"}
      /\ at = "flush" => uSize[Reader] = RequestSize
      /\ at = "sent" => uSize[Reader] # RequestSize
    BY DEF Uart!After
<1> HIDE DEF at
<1>3. ~Uart!WritePush(Reader)
    BY <1>1 DEF Uart!WritePush, Uart!Has, Uart!Runs
<1>4. /\ FlightStays /\ HeardSame /\ uPc'[Reader] = at
      /\ uSize'[Reader] = uSize[Reader] /\ uPushed'[Reader] = uPushed[Reader]
      /\ uPushed[Reader] \in Nat /\ uSize[Reader] \in Nat /\ Local(Reader)
      /\ RequestSize \in Nat \ {0} /\ ReplySize \in Nat \ {0}
    BY <1>1, <1>3, ReaderMoves
<1>5. Cleared'
    BY <1>1, <1>2, <1>4 DEF Cleared, Quiet, Local, FlightStays, HeardSame, Pushing, Writing, Wrote
<1>6. Requesting' <=> Requesting
    BY <1>1, <1>2, <1>4 DEF Requesting, Local, Pushing
<1>7. Reads'
    BY <1>1, <1>2, <1>4 DEF Exchange, Reads, HeardSame
<1>8. Exchange'
    BY <1>1, <1>2, <1>4, <1>6, <1>7, MovesExchange
<1> QED
    BY <1>5, <1>8

(* Where the receive ring is clear nothing flies.                           *)
LEMMA ClearLookReader ==
    ASSUME UTyped, UHolds, Cleared, Exchange, Uart!ClearLook(Reader)
    PROVE  Cleared' /\ Exchange'
<1> DEFINE at == IF uRd = <<>> THEN "sleep" ELSE "clearing"
<1>1. /\ uPc' = [uPc EXCEPT ![Reader] = at] /\ uPc[Reader] = "clear"
      /\ UNCHANGED <<uSize, uPushed, uRd, uReply, uAnswered, uRead, uWritten>>
      /\ Uart!Continue(Reader)
    BY DEF Uart!ClearLook, Uart!Has, Uart!Runs, Uart!Goto, Uart!call, Uart!heard, Uart!Continue
<1>2. /\ at \in {"sleep", "clearing"}
      /\ at = "sleep" => uRd = <<>>
    BY DEF Uart!After
<1> HIDE DEF at
<1>3. ~Uart!WritePush(Reader)
    BY <1>1 DEF Uart!WritePush, Uart!Has, Uart!Runs
<1>4. /\ FlightStays /\ HeardSame /\ uPc'[Reader] = at
      /\ uSize'[Reader] = uSize[Reader] /\ uPushed'[Reader] = uPushed[Reader]
      /\ uPushed[Reader] \in Nat /\ uSize[Reader] \in Nat /\ Local(Reader)
      /\ RequestSize \in Nat \ {0} /\ ReplySize \in Nat \ {0}
    BY <1>1, <1>3, ReaderMoves
<1>5. Cleared'
    BY <1>1, <1>2, <1>4 DEF Cleared, Quiet, Local, FlightStays, HeardSame, Pushing, Writing, Wrote
<1>6. Requesting' <=> Requesting
    BY <1>1, <1>2, <1>4 DEF Requesting, Local, Pushing
<1>7. Reads'
    BY <1>1, <1>2, <1>4 DEF Exchange, Reads, HeardSame
<1>8. Exchange'
    BY <1>1, <1>2, <1>4, <1>6, <1>7, MovesExchange
<1> QED
    BY <1>5, <1>8

(* Its request begins with a quiet line; a datagram may begin any time.     *)
LEMMA WriteStartReader ==
    ASSUME UTyped, UHolds, Pump, Cleared, Exchange, Uart!WriteStart(Reader)
    PROVE  Cleared' /\ Exchange'
<1>1. /\ uPc' = [uPc EXCEPT ![Reader] = "push"] /\ uPc[Reader] = "sleep"
      /\ UNCHANGED <<uSize, uPushed, uRd, uReply, uAnswered, uRead, uWritten>>
      /\ Uart!Continue(Reader) /\ uMutex.owner = Reader /\ uFifo = <<>>
    BY DEF Uart!WriteStart, Uart!Has, Uart!Runs, Uart!Goto, Uart!heard, Uart!Continue
<1>3. ~Uart!WritePush(Reader)
    BY <1>1 DEF Uart!WritePush, Uart!Has, Uart!Runs
<1>4. /\ FlightStays /\ HeardSame /\ uPc'[Reader] = "push"
      /\ uSize'[Reader] = uSize[Reader] /\ uPushed'[Reader] = uPushed[Reader]
      /\ uPushed[Reader] \in Nat /\ uSize[Reader] \in Nat /\ Local(Reader)
      /\ RequestSize \in Nat \ {0} /\ ReplySize \in Nat \ {0}
    BY <1>1, <1>3, ReaderMoves
<1>5. Flying = 0 /\ Flying' = 0
  <2>1. ~uIsr /\ (uTxie => uFifo # <<>>)
    BY <1>1, ThreadRuns, UartConstants
  <2>2. Flying = 0
    BY <1>1, <2>1, NothingFlies, UartConstants DEF Busy, Pushing
  <2> QED
    BY <2>2, <1>4 DEF FlightStays
<1>6. Cleared'
    BY <1>1, <1>4, <1>5 DEF Cleared, Quiet, Local, HeardSame, Pushing, Writing, Wrote
<1>7. Reads' /\ Uart!Replied'
    BY <1>1, <1>4 DEF Exchange, Reads, HeardSame, Uart!Replied
<1>8. CASE uSize[Reader] = RequestSize
  <2>1. Requesting' /\ ~Requesting
    BY <1>1, <1>4, <1>8 DEF Requesting, Pushing
  <2>2. Silent /\ ~uAnswered /\ ~uAnswered'
    BY <1>1, <1>4, <2>1 DEF Exchange, Silent, HeardSame
  <2>3. Flies'
    BY <1>4, <1>5 DEF Flies
  <2>4. uRd = <<>> /\ uRead = 0 /\ uPushed[Reader] = 0
    BY <1>1, <1>4, <1>8 DEF Cleared, Quiet, Exchange, Reads, Local
  <2>5. Echoes'
    <3>1. uRd' = <<>> /\ uReply' = <<>> /\ uRead' = 0 /\ uPushed'[Reader] = 0 /\ Flying' = 0
      BY <1>4, <1>5, <2>2, <2>4 DEF Silent, HeardSame
    <3> QED
      BY <3>1 DEF Echoes
  <2> QED
    BY <1>6, <1>7, <2>1, <2>2, <2>3, <2>5 DEF Exchange
<1>9. CASE uSize[Reader] # RequestSize
  <2>1. Requesting' <=> Requesting
    BY <1>4, <1>9 DEF Requesting
  <2>2. uPc[Reader] \notin {"reply", "replied", "lost"} /\ uPc'[Reader] \notin {"reply", "replied", "lost"}
    BY <1>1, <1>4
  <2>3. FlightStays /\ HeardSame /\ uPushed'[Reader] = uPushed[Reader] /\ Reads'
    BY <1>4, <1>7
  <2> QED
    BY <1>6, <2>1, <2>2, <2>3, MovesExchange
<1> QED
    BY <1>6, <1>8, <1>9

(* Bytes of its request fly once they are pushed.                           *)
LEMMA PushReader ==
    ASSUME UTyped, UHolds, Cleared, Exchange, Uart!WritePush(Reader)
    PROVE  Cleared' /\ Exchange'
<1> DEFINE n == Uart!Less(Uart!FreeCount, uSize[Reader] - uPushed[Reader])
           a == uPushed[Reader]
           z == uSize[Reader]
           d == uDatagrams
           at == IF a + n = z THEN "enable" ELSE "full"
<1>0. Reader \in Driver
    BY UartConstants
<1>1. /\ n \in Nat /\ a \in Nat /\ z \in Nat /\ d \in Nat /\ Pushes(n, d, a, z)
      /\ n <= z - a /\ a < z /\ uPc[Reader] = "push" /\ UNCHANGED uSize
      /\ uPushed' = [uPushed EXCEPT ![Reader] = a + n]
      /\ uPc' = [uPc EXCEPT ![Reader] = at]
    BY <1>0, PushIs DEF Pushes, UTyped, UThreads
<1>2. at \in {"enable", "full"} /\ (at = "enable" => n > 0)
    BY <1>1
<1> HIDE DEF n, a, z, d, at
<1>3. /\ Flying' = Flying + n
      /\ \A j \in 0 .. Flying : Flight'[j] = Flight[j]
      /\ \A i \in 1 .. n : Flight'[Flying + i] = <<d, a + i, z>>
    BY <1>1, FlightPush
<1>4. HeardSame
    BY DEF HeardSame, Uart!WritePush, Uart!heard
<1>5. uPc'[Reader] = at /\ uPushed'[Reader] = a + n /\ uSize'[Reader] = z /\ uSize[Reader] = z
    BY <1>0, <1>1 DEF UTyped, UThreads, z
<1>6. Flying \in Nat /\ RequestSize \in Nat \ {0}
    BY FlyingNat, UartConstants
<1>7. Cleared'
  <2> SUFFICES ASSUME z # RequestSize PROVE
         /\ uWritten >= 2 => uRd # <<>>
         /\ uWritten >= 1 \/ a + n > 0 \/ at \in Wrote => uRd # <<>> \/ Flying' > 0
         /\ uWritten >= 1 => uRd # <<>>
    BY <1>2, <1>4, <1>5 DEF Cleared, HeardSame
  <2>1. /\ uWritten >= 2 => uRd # <<>>
        /\ uWritten >= 1 => uRd # <<>>
        /\ a > 0 => uRd # <<>> \/ Flying > 0
    BY <1>1, <1>5 DEF Cleared, Writing, Pushing, a
  <2>2. a + n > 0 \/ at \in Wrote => a > 0 \/ n > 0
    BY <1>1, <1>2 DEF Wrote
  <2>3. Flying > 0 \/ n > 0 => Flying' > 0
    BY <1>1, <1>3, <1>6
  <2> QED
    BY <2>1, <2>2, <2>3
<1>8. Reads' /\ Uart!Replied'
    BY <1>1, <1>2, <1>4, <1>5 DEF Exchange, Reads, HeardSame, Uart!Replied
<1>9. CASE z = RequestSize
  <2>1. Requesting /\ Requesting'
    BY <1>1, <1>2, <1>5, <1>9 DEF Requesting, Pushing
  <2>2. Flies /\ ~uAnswered /\ Echoes
    BY <1>1, <1>9, <2>1 DEF Exchange, Answers, a
  <2>3. Flying <= a /\ \A j \in 1 .. Flying : Flight[j][2] = a - Flying + j /\ Flight[j][3] = RequestSize
    BY <2>2 DEF Flies, a
  <2>4. ASSUME NEW j \in 1 .. Flying'
        PROVE  Flight'[j][2] = (a + n) - Flying' + j /\ Flight'[j][3] = RequestSize
    <3>1. CASE j <= Flying
      <4>1. j \in 1 .. Flying /\ j \in 0 .. Flying /\ (a + n) - Flying' + j = a - Flying + j
        BY <3>1, <1>1, <1>3, <1>6
      <4> QED
        BY <4>1, <1>3, <2>3
    <3>2. CASE j > Flying
      <4> DEFINE i == j - Flying
      <4>1. i \in 1 .. n /\ j = Flying + i /\ (a + n) - Flying' + j = a + i
        BY <3>2, <1>1, <1>3, <1>6
      <4> HIDE DEF i
      <4>2. Flight'[j] = <<d, a + i, z>>
        BY <4>1, <1>3
      <4> QED
        BY <4>1, <4>2, <1>9
    <3> QED
      BY <3>1, <3>2, <1>1, <1>3, <1>6
  <2>5. Flying' <= a + n
    BY <1>1, <1>3, <1>6, <2>3
  <2>6. Flies'
    BY <1>5, <2>4, <2>5 DEF Flies
  <2>7. Echoes'
    <3>1. uReply = <<>> /\ Len(uRd) + uRead = a - Flying
      BY <2>2 DEF Echoes, a
    <3>2. a - Flying = (a + n) - Flying'
      BY <1>1, <1>3, <1>6
    <3> QED
      BY <3>1, <3>2, <1>4, <1>5 DEF Echoes, HeardSame
  <2> QED
    BY <1>4, <1>7, <1>8, <2>1, <2>2, <2>6, <2>7 DEF Exchange, HeardSame
<1>10. CASE z # RequestSize
  <2>1. ~Requesting /\ ~Requesting'
    BY <1>5, <1>10 DEF Requesting
  <2>2. Silent /\ ~uAnswered
    BY <1>1, <2>1 DEF Exchange, Silent
  <2>3. ASSUME NEW j \in 1 .. Flying' PROVE Flight'[j][3] # RequestSize
    <3>1. CASE j <= Flying
      <4>1. j \in 1 .. Flying /\ j \in 0 .. Flying
        BY <3>1, <1>6
      <4> QED
        BY <4>1, <1>3, <2>2 DEF Silent
    <3>2. CASE j > Flying
      <4> DEFINE i == j - Flying
      <4>1. i \in 1 .. n /\ j = Flying + i
        BY <3>2, <1>1, <1>3, <1>6
      <4> HIDE DEF i
      <4>2. Flight'[j] = <<d, a + i, z>>
        BY <4>1, <1>3
      <4> QED
        BY <4>2, <1>10
    <3> QED
      BY <3>1, <3>2, <1>1, <1>3, <1>6
  <2>4. Silent'
    BY <2>2, <2>3, <1>4 DEF Silent, HeardSame
  <2> QED
    BY <1>7, <1>8, <2>1, <2>4 DEF Exchange
<1> QED
    BY <1>7, <1>9, <1>10

(* A datagram begins, or the reader's request.                               *)
LEMMA BeginReader ==
    ASSUME UTyped, UHolds, Cleared, Exchange, Uart!Write(Reader) \/ Uart!Request
    PROVE  Cleared' /\ Exchange'
<1>1. PICK n \in Nat \ {0}, at \in {"sleep", "flush"} :
          /\ Uart!Begin(Reader, n, at)
          /\ at = "sleep" => n # RequestSize
          /\ at = "flush" => n = RequestSize /\ uWritten = Before
    BY UartConstants DEF Uart!Write, Uart!Request
<1>2. /\ uPc[Reader] = "idle" /\ uSize' = [uSize EXCEPT ![Reader] = n] /\ UNCHANGED uPushed
      /\ uPc' = [uPc EXCEPT ![Reader] = at] /\ HeardSame
      /\ UNCHANGED <<uBuffer, uIn, uOut, uFifo, uWire>>
    BY <1>1 DEF Uart!Begin, Uart!Runs, Uart!Goto, Uart!heard, Uart!ring, HeardSame
<1>3. /\ uPc'[Reader] = at /\ uSize'[Reader] = n /\ uPushed'[Reader] = uPushed[Reader]
      /\ uPushed[Reader] = 0 /\ uSize[Reader] = 0 /\ RequestSize # 0
    BY <1>2, UartConstants DEF UTyped, UThreads, UHolds, Local
<1>4. FlightStays
    BY <1>2, FlightSame DEF FlightStays
<1>5. Before \in Nat /\ Before >= 2
    BY UartConstants
<1>6. Cleared'
    BY <1>1, <1>2, <1>3, <1>4, <1>5 DEF Cleared, Quiet, HeardSame, FlightStays, Writing, Wrote, Pushing
<1>7. Reads' /\ ~Requesting /\ ~Requesting'
    BY <1>1, <1>2, <1>3 DEF Exchange, Reads, HeardSame, Requesting, Pushing
<1>8. Exchange'
    BY <1>1, <1>2, <1>3, <1>4, <1>7, MovesExchange
<1> QED
    BY <1>6, <1>8

(* The datagram of a reader that does not read is sent.                      *)
LEMMA SentReader ==
    ASSUME UTyped, UHolds, Cleared, Exchange, Uart!Sent(Reader)
    PROVE  Cleared' /\ Exchange'
<1>1. /\ uPc[Reader] = "sent" /\ uSize' = [uSize EXCEPT ![Reader] = 0]
      /\ uPushed' = [uPushed EXCEPT ![Reader] = 0] /\ uPc' = [uPc EXCEPT ![Reader] = "idle"]
      /\ uWritten' = Uart!Less(uWritten + 1, Before)
      /\ UNCHANGED <<uRd, uReply, uAnswered, uRead>>
      /\ UNCHANGED <<uBuffer, uIn, uOut, uFifo, uWire>>
    BY DEF Uart!Sent, Uart!Has, Uart!Runs, Uart!Goto, Uart!ring
<1>2. /\ uPc'[Reader] = "idle" /\ uSize'[Reader] = 0 /\ uPushed'[Reader] = 0
      /\ uSize[Reader] # RequestSize /\ RequestSize # 0
    BY <1>1, UartConstants DEF UTyped, UThreads, UHolds, Local
<1>3. FlightStays
    BY <1>1, FlightSame DEF FlightStays
<1>4. uWritten \in Nat /\ (uWritten' >= 2 => uWritten >= 1) /\ (uWritten' >= 1 => TRUE)
    BY <1>1, UartConstants DEF UTyped, UHeard, Uart!Less
<1>5. Cleared'
  <2>1. /\ uRd # <<>> \/ Flying > 0
        /\ uWritten >= 1 => uRd # <<>>
    BY <1>1, <1>2 DEF Cleared, Writing, Wrote
  <2>2. (uWritten' >= 2 => uRd' # <<>>) /\ (uRd' # <<>> \/ Flying' > 0)
    BY <1>1, <1>3, <1>4, <2>1 DEF FlightStays
  <2> QED
    BY <1>2, <2>2 DEF Cleared, Quiet, Wrote, Pushing
<1>6. Reads' /\ ~Requesting /\ ~Requesting' /\ Uart!Replied'
    BY <1>1, <1>2 DEF Exchange, Reads, Requesting, Pushing, Uart!Replied
<1>7. Silent
    BY <1>1, <1>6 DEF Exchange
<1>8. Silent'
  <2>1. \A j \in 1 .. Flying : Flight'[j] = Flight[j]
    BY <1>3, FlyingNat DEF FlightStays
  <2> QED
    BY <1>1, <1>3, <1>7, <2>1 DEF Silent, FlightStays
<1> QED
    BY <1>5, <1>6, <1>8 DEF Exchange

(* Reading leaves what flies.                                                *)
LEMMA SilentStays ==
    ASSUME UTyped, FlightStays, Silent, uReply' = uReply,
           uAnswered' => uAnswered /\ uPc'[Reader] \in {"reply", "replied"}
    PROVE  Silent'
<1>1. \A j \in 1 .. Flying : Flight'[j] = Flight[j]
    BY FlyingNat DEF FlightStays
<1> QED
    BY <1>1 DEF Silent, FlightStays

(* What a read leaves.                                                      *)
LEMMA ReadDoes ==
    ASSUME UTyped, RdRest
    PROVE  /\ uRd' \in Seq(Nat) /\ uRd \in Seq(Nat)
           /\ uRd # <<>> => /\ Len(uRd') = Len(uRd) - 1
                            /\ \A i \in 1 .. Len(uRd) - 1 : uRd'[i] = uRd[i + 1]
           /\ uRd = <<>> => uRd' = <<>>
BY ReadRest DEF RdRest, UTyped, UHeard

(* A byte less on the receive ring, and none flies when the last is read.   *)
LEMMA ClearReadReader ==
    ASSUME UTyped, UHolds, Pump, Cleared, Exchange, Uart!ClearRead(Reader)
    PROVE  Cleared' /\ Exchange'
<1> DEFINE at == IF uRd = <<>> THEN "lost" ELSE "clear"
<1>1. /\ uPc[Reader] = "clearing" /\ uMutex.owner = Reader /\ uFifo = <<>>
      /\ uPc' = [uPc EXCEPT ![Reader] = at]
      /\ UNCHANGED <<uSize, uPushed, uReply, uAnswered, uRead, uWritten>>
      /\ UNCHANGED <<uBuffer, uIn, uOut, uFifo, uWire>>
      /\ Uart!Continue(Reader)
    BY DEF Uart!ClearRead, Uart!Has, Uart!Runs, Uart!Read, Uart!Goto, Uart!ring, Uart!call,
       Uart!Continue
<1>2. at \in {"lost", "clear"}
    OBVIOUS
<1> HIDE DEF at
<1>3. uPc'[Reader] = at
    BY <1>1, UartConstants DEF UTyped, UThreads
<1>4. FlightStays
    BY <1>1, FlightSame DEF FlightStays
<1>5. Flying = 0
  <2>1. ~uIsr /\ (uTxie => uFifo # <<>>)
    BY <1>1, ThreadRuns, UartConstants
  <2> QED
    BY <1>1, <2>1, NothingFlies, UartConstants DEF Busy, Pushing
<1>6. Cleared'
    BY <1>2, <1>3, <1>4, <1>5 DEF Cleared, FlightStays, Writing, Wrote, Pushing
<1>7. Reads' /\ ~Requesting /\ ~Requesting' /\ Uart!Replied'
    BY <1>1, <1>2, <1>3 DEF Exchange, Reads, Requesting, Pushing, Uart!Replied
<1>8. Silent
    BY <1>1, <1>7 DEF Exchange
<1>9. ~uAnswered'
    BY <1>1, <1>8 DEF Silent
<1>10. Silent'
    BY <1>1, <1>4, <1>8, <1>9, SilentStays
<1> QED
    BY <1>6, <1>7, <1>10 DEF Exchange

(* All echoes are there, so that nothing flies.                             *)
LEMMA EchoWaitReader ==
    ASSUME UTyped, UHolds, Cleared, Exchange, Uart!EchoWait(Reader)
    PROVE  Cleared' /\ Exchange'
<1>1. /\ uPc[Reader] = "echo" /\ Len(uRd) >= RequestSize
      /\ uPc' = [uPc EXCEPT ![Reader] = "echoes"]
      /\ UNCHANGED <<uSize, uPushed, uRd, uReply, uAnswered, uRead, uWritten>>
      /\ Uart!Continue(Reader)
    BY DEF Uart!EchoWait, Uart!Has, Uart!Runs, Uart!Goto, Uart!heard, Uart!call, Uart!Continue
<1>2. ~Uart!WritePush(Reader)
    BY <1>1 DEF Uart!WritePush, Uart!Has, Uart!Runs
<1>3. /\ FlightStays /\ HeardSame /\ uPc'[Reader] = "echoes"
      /\ uSize'[Reader] = uSize[Reader] /\ uPushed'[Reader] = uPushed[Reader]
      /\ uPushed[Reader] \in Nat /\ uSize[Reader] \in Nat /\ Local(Reader)
      /\ RequestSize \in Nat \ {0} /\ ReplySize \in Nat \ {0}
    BY <1>1, <1>2, ReaderMoves
<1>4. Cleared'
    BY <1>3 DEF Cleared, Writing, Wrote, Pushing
<1>5. Requesting /\ Requesting' /\ uPushed[Reader] = RequestSize /\ uRead = 0
    BY <1>1, <1>3 DEF Requesting, Local, Pushing, Exchange, Reads
<1>6. Flying = 0
  <2>1. CASE ~uAnswered
    <3>1. Len(uRd) + 0 = RequestSize - Flying
      BY <1>5, <2>1 DEF Exchange, Echoes
    <3>2. Flying \in Nat /\ Len(uRd) \in Nat /\ RequestSize \in Nat
      BY <1>3, FlyingNat DEF UTyped, UHeard
    <3> QED
      BY <1>1, <3>1, <3>2
  <2>2. CASE uAnswered
    BY <1>5, <2>2 DEF Exchange, Answers
  <2> QED
    BY <2>1, <2>2
<1>7. Reads'
    BY <1>3, <1>5, <1>6 DEF Reads, FlightStays, HeardSame
<1>8. Exchange'
  <2>1. uPc[Reader] \notin {"reply", "replied", "lost"} /\ uPc'[Reader] \notin {"reply", "replied", "lost"}
    BY <1>1, <1>3
  <2> QED
    BY <1>3, <1>5, <1>7, <2>1, MovesExchange
<1> QED
    BY <1>4, <1>8

(* An echo is dropped, ...                                                  *)
LEMMA EchoReadReader ==
    ASSUME UTyped, UHolds, Cleared, Exchange, Uart!EchoRead(Reader)
    PROVE  Cleared' /\ Exchange'
<1> DEFINE at == IF uRd = <<>> THEN "lost" ELSE "echoes"
<1>1. /\ uPc[Reader] = "echoes" /\ uRead + 1 < RequestSize
      /\ uPc' = [uPc EXCEPT ![Reader] = at] /\ RdRest /\ uRead' = uRead + 1
      /\ UNCHANGED <<uSize, uPushed, uReply, uAnswered, uWritten>>
      /\ UNCHANGED <<uBuffer, uIn, uOut, uFifo, uWire>>
    BY DEF Uart!EchoRead, Uart!Has, Uart!Runs, Uart!Read, Uart!Goto, Uart!ring, Uart!call, RdRest
<1>2. at \in {"lost", "echoes"} /\ (at # "lost" => uRd # <<>>)
    OBVIOUS
<1> HIDE DEF at
<1>3. uPc'[Reader] = at /\ uPushed'[Reader] = uPushed[Reader] /\ uSize'[Reader] = uSize[Reader]
    BY <1>1, UartConstants DEF UTyped, UThreads
<1>4. FlightStays
    BY <1>1, FlightSame DEF FlightStays
<1>5. Requesting /\ Flying = 0 /\ Flying' = 0 /\ uPushed[Reader] = RequestSize
    BY <1>1, <1>4, UartConstants DEF Requesting, UHolds, Local, Pushing, Exchange, Reads, FlightStays
<1>6. Cleared'
    BY <1>2, <1>3 DEF Cleared, Writing, Wrote, Pushing
<1>7. Reads' /\ Uart!Replied'
    BY <1>1, <1>2, <1>3, <1>5 DEF Reads, Uart!Replied
<1>8. CASE at = "lost"
    BY <1>3, <1>6, <1>7, <1>8 DEF Exchange, Requesting, Pushing
<1>9. CASE at = "echoes"
  <2>1. Requesting'
    BY <1>1, <1>3, <1>5, <1>9 DEF Requesting, Pushing
  <2>2. Flies'
    BY <1>3, <1>5, UartConstants DEF Flies
  <2>3. /\ Len(uRd') = Len(uRd) - 1 /\ Len(uRd) \in Nat
        /\ \A i \in 1 .. Len(uRd) - 1 : uRd'[i] = uRd[i + 1]
        /\ uRead \in Nat /\ RequestSize \in Nat /\ ReplySize \in Nat
    BY <1>1, <1>2, <1>9, ReadDoes, UartConstants DEF UTyped, UHeard
  <2>4. ASSUME ~uAnswered PROVE Echoes'
    <3>1. uReply = <<>> /\ Len(uRd) + uRead = uPushed[Reader] - Flying
      BY <1>5, <2>4 DEF Exchange, Echoes
    <3>2. Len(uRd') + uRead' = uPushed'[Reader] - Flying'
      <4>1. Len(uRd) + uRead = RequestSize
        BY <3>1, <1>5, <2>3
      <4>2. Len(uRd') + uRead' = RequestSize
        <5>1. uRead' = uRead + 1 /\ Len(uRd') = Len(uRd) - 1
          BY <1>1, <2>3
        <5>2. Len(uRd) \in Nat /\ uRead \in Nat /\ RequestSize \in Nat
          BY <2>3
        <5> QED
          BY <4>1, <5>1, <5>2
      <4> QED
        BY <4>2, <1>3, <1>5, <2>3
    <3> QED
      BY <3>1, <3>2, <1>1 DEF Echoes
  <2>5. ASSUME uAnswered PROVE Answers'
    <3> DEFINE r == Len(uReply)
               m == Len(uRd)
    <3>1. /\ r <= ReplySize /\ m + r + uRead = RequestSize + ReplySize
          /\ \A i \in 1 .. r : uReply[i] = ReplySize - r + i
          /\ \A i \in 1 .. ReplySize - r : uRd[RequestSize - uRead + i] = i
      BY <1>5, <2>5 DEF Exchange, Answers
    <3>2. r \in Nat /\ m \in Nat
      BY <2>3 DEF UTyped, UHeard
    <3>3. Len(uRd') = m - 1 /\ \A i \in 1 .. m - 1 : uRd'[i] = uRd[i + 1]
      BY <2>3
    <3> HIDE DEF r, m
    <3>4. Len(uRd') + r + uRead' = RequestSize + ReplySize
      BY <3>1, <3>2, <3>3, <1>1, <2>3
    <3>5. \A i \in 1 .. ReplySize - r : uRd'[RequestSize - uRead' + i] = i
      <4> SUFFICES ASSUME NEW i \in 1 .. ReplySize - r PROVE uRd'[RequestSize - uRead' + i] = i
        OBVIOUS
      <4> DEFINE k == RequestSize - uRead' + i
      <4>1. k \in 1 .. m - 1 /\ k + 1 = RequestSize - uRead + i
        BY <3>1, <3>2, <1>1, <2>3
      <4>2. uRd'[k] = uRd[k + 1]
        BY <4>1, <3>3
      <4>3. uRd[k + 1] = i
        BY <4>1, <3>1
      <4> QED
        BY <4>2, <4>3
    <3> QED
      BY <3>1, <3>4, <3>5, <1>1, <1>3, <1>5 DEF Answers, r
  <2> QED
    BY <1>1, <1>6, <1>7, <2>1, <2>2, <2>4, <2>5 DEF Exchange
<1> QED
    BY <1>2, <1>8, <1>9

(* ... the last of them: what is left is the reply.                         *)
LEMMA EchoLastReader ==
    ASSUME UTyped, UHolds, Cleared, Exchange, Uart!EchoLast(Reader)
    PROVE  Cleared' /\ Exchange'
<1> DEFINE at == IF uRd = <<>> THEN "lost" ELSE "reply"
<1>1. /\ uPc[Reader] = "echoes" /\ uRead + 1 = RequestSize /\ uReply = <<>>
      /\ uPc' = [uPc EXCEPT ![Reader] = at] /\ RdRest /\ uRead' = 0
      /\ uSize' = [uSize EXCEPT ![Reader] = 0] /\ uPushed' = [uPushed EXCEPT ![Reader] = 0]
      /\ UNCHANGED <<uReply, uAnswered, uWritten>>
      /\ UNCHANGED <<uBuffer, uIn, uOut, uFifo, uWire>>
    BY DEF Uart!EchoLast, Uart!Has, Uart!Runs, Uart!Read, Uart!Goto, Uart!ring, RdRest
<1>2. at \in {"lost", "reply"} /\ (at # "lost" => uRd # <<>>)
    OBVIOUS
<1> HIDE DEF at
<1>3. uPc'[Reader] = at /\ uSize'[Reader] = 0
    BY <1>1, UartConstants DEF UTyped, UThreads
<1>4. FlightStays
    BY <1>1, FlightSame DEF FlightStays
<1>5. Requesting /\ Flying = 0 /\ Flying' = 0 /\ uPushed[Reader] = RequestSize
    BY <1>1, <1>4, UartConstants DEF Requesting, UHolds, Local, Pushing, Exchange, Reads, FlightStays
<1>6. Cleared'
    BY <1>2, <1>3 DEF Cleared, Writing, Wrote, Pushing
<1>7. Reads' /\ ~Requesting'
    BY <1>1, <1>2, <1>3 DEF Reads, Requesting, Pushing
<1>8. CASE at = "lost"
    BY <1>3, <1>6, <1>7, <1>8 DEF Exchange, Uart!Replied
<1>9. CASE at = "reply"
  <2>1. Silent'
    BY <1>1, <1>3, <1>5, <1>9 DEF Silent
  <2>2. Uart!Replied'
    <3> SUFFICES ASSUME uAnswered
                 PROVE  /\ Len(uRd') >= ReplySize - uRead'
                        /\ \A i \in 1 .. ReplySize - uRead' : uRd'[i] = uRead' + i
      BY <1>1 DEF Uart!Replied
    <3>1. /\ Len(uRd) + Len(uReply) + uRead = RequestSize + ReplySize
          /\ \A i \in 1 .. ReplySize - Len(uReply) : uRd[RequestSize - uRead + i] = i
      BY <1>5 DEF Exchange, Answers
    <3>2. Len(uReply) = 0 /\ RequestSize - uRead = 1 /\ ReplySize \in Nat /\ Len(uRd) \in Nat
          /\ uRead \in Nat /\ RequestSize \in Nat
      BY <1>1, UartConstants DEF UTyped, UHeard
    <3>3. Len(uRd') = Len(uRd) - 1 /\ \A i \in 1 .. Len(uRd) - 1 : uRd'[i] = uRd[i + 1]
      BY <1>1, <1>2, <1>9, ReadDoes
    <3>4. Len(uRd) = ReplySize + 1
      BY <3>1, <3>2
    <3>5. Len(uRd') = ReplySize
      BY <3>2, <3>3, <3>4
    <3>6. \A i \in 1 .. ReplySize : uRd'[i] = i
      <4> SUFFICES ASSUME NEW i \in 1 .. ReplySize PROVE uRd'[i] = i
        OBVIOUS
      <4>1. i \in 1 .. Len(uRd) - 1 /\ i \in 1 .. ReplySize - Len(uReply) /\ 1 + i = i + 1
        BY <3>2, <3>4
      <4>2. uRd'[i] = uRd[i + 1]
        BY <4>1, <3>3
      <4>3. uRd[RequestSize - uRead + i] = i
        BY <4>1, <3>1
      <4> QED
        BY <4>1, <4>2, <4>3, <3>2
    <3> QED
      BY <3>2, <3>5, <3>6, <1>1
  <2> QED
    BY <1>6, <1>7, <2>1, <2>2 DEF Exchange
<1> QED
    BY <1>2, <1>8, <1>9

-----------------------------------------------------------------------------
(* The reply is there, ...                                                  *)
LEMMA ReplyWaitReader ==
    ASSUME UTyped, UHolds, Cleared, Exchange, Uart!ReplyWait(Reader)
    PROVE  Cleared' /\ Exchange'
<1>1. /\ uPc[Reader] = "reply" /\ uPc' = [uPc EXCEPT ![Reader] = "replied"]
      /\ UNCHANGED <<uSize, uPushed, uRd, uReply, uAnswered, uRead, uWritten>>
      /\ UNCHANGED <<uBuffer, uIn, uOut, uFifo, uWire>>
    BY DEF Uart!ReplyWait, Uart!Runs, Uart!Goto, Uart!ring, Uart!call, Uart!heard
<1>2. uPc'[Reader] = "replied"
    BY <1>1, UartConstants DEF UTyped, UThreads
<1>3. FlightStays
    BY <1>1, FlightSame DEF FlightStays
<1>4. Cleared'
    BY <1>2 DEF Cleared, Writing, Wrote, Pushing
<1>5. ~Requesting /\ ~Requesting' /\ uRead = 0 /\ uRead' = 0
    BY <1>1, <1>2 DEF Requesting, Pushing, Exchange, Reads
<1>6. Silent'
    BY <1>1, <1>2, <1>3, <1>5, SilentStays DEF Exchange
<1>7. Reads'
    BY <1>2, <1>5, UartConstants DEF Reads
<1>8. Uart!Replied'
    BY <1>1, <1>2 DEF Exchange, Uart!Replied
<1> QED
    BY <1>4, <1>5, <1>6, <1>7, <1>8 DEF Exchange

(* ... or not in time.                                                      *)
LEMMA ReplyTimeoutReader ==
    ASSUME UTyped, UHolds, Cleared, Exchange, Uart!ReplyTimeout(Reader)
    PROVE  Cleared' /\ Exchange'
<1>1. /\ uPc[Reader] = "reply" /\ uPc' = [uPc EXCEPT ![Reader] = "idle"]
      /\ uWritten' = 0 /\ uAnswered' = FALSE
      /\ UNCHANGED <<uSize, uPushed, uRd, uReply, uRead>>
      /\ UNCHANGED <<uBuffer, uIn, uOut, uFifo, uWire>>
    BY DEF Uart!ReplyTimeout, Uart!Runs, Uart!Goto, Uart!ring, Uart!call
<1>2. uPc'[Reader] = "idle" /\ uPushed'[Reader] = 0
    BY <1>1, UartConstants DEF UTyped, UThreads, UHolds, Local
<1>3. FlightStays
    BY <1>1, FlightSame DEF FlightStays
<1>4. Cleared'
    BY <1>1, <1>2 DEF Cleared, Writing, Wrote, Pushing
<1>5. ~Requesting /\ ~Requesting' /\ uRead' = 0
    BY <1>1, <1>2 DEF Requesting, Pushing, Exchange, Reads
<1>6. Silent'
    BY <1>1, <1>3, <1>5, SilentStays DEF Exchange
<1>7. Reads' /\ Uart!Replied'
    BY <1>1, <1>2, <1>5 DEF Reads, Uart!Replied
<1> QED
    BY <1>4, <1>5, <1>6, <1>7 DEF Exchange

(* A byte of it is read, ...                                                *)
LEMMA ReplyReadReader ==
    ASSUME UTyped, UHolds, Cleared, Exchange, Uart!ReplyRead(Reader)
    PROVE  Cleared' /\ Exchange'
<1> DEFINE at == IF uRd = <<>> THEN "lost" ELSE "replied"
<1>1. /\ uPc[Reader] = "replied" /\ uRead + 1 < ReplySize
      /\ uPc' = [uPc EXCEPT ![Reader] = at] /\ RdRest /\ uRead' = uRead + 1
      /\ UNCHANGED <<uSize, uPushed, uReply, uAnswered, uWritten>>
      /\ UNCHANGED <<uBuffer, uIn, uOut, uFifo, uWire>>
    BY DEF Uart!ReplyRead, Uart!Runs, Uart!Read, Uart!Goto, Uart!ring, Uart!call, RdRest
<1>2. at \in {"lost", "replied"} /\ (at # "lost" => uRd # <<>>)
    OBVIOUS
<1> HIDE DEF at
<1>3. uPc'[Reader] = at
    BY <1>1, UartConstants DEF UTyped, UThreads
<1>4. FlightStays
    BY <1>1, FlightSame DEF FlightStays
<1>5. Cleared'
    BY <1>2, <1>3 DEF Cleared, Writing, Wrote, Pushing
<1>6. Reads' /\ ~Requesting /\ ~Requesting'
    BY <1>1, <1>2, <1>3 DEF Reads, Requesting, Pushing
<1>7. CASE at = "lost"
    BY <1>3, <1>5, <1>6, <1>7 DEF Exchange, Uart!Replied
<1>8. CASE at = "replied"
  <2>1. Silent'
    BY <1>1, <1>3, <1>4, <1>6, <1>8, SilentStays DEF Exchange
  <2>2. Uart!Replied'
    <3> SUFFICES ASSUME uAnswered
                 PROVE  /\ Len(uRd') >= ReplySize - uRead'
                        /\ \A i \in 1 .. ReplySize - uRead' : uRd'[i] = uRead' + i
      BY <1>1 DEF Uart!Replied
    <3>1. /\ Len(uRd) >= ReplySize - uRead
          /\ \A i \in 1 .. ReplySize - uRead : uRd[i] = uRead + i
      BY <1>1 DEF Exchange, Uart!Replied
    <3>2. ReplySize \in Nat /\ Len(uRd) \in Nat /\ uRead \in Nat
      BY UartConstants DEF UTyped, UHeard
    <3>3. Len(uRd') = Len(uRd) - 1 /\ \A i \in 1 .. Len(uRd) - 1 : uRd'[i] = uRd[i + 1]
      BY <1>1, <1>2, <1>8, ReadDoes
    <3>4. Len(uRd') >= ReplySize - uRead'
      BY <3>1, <3>2, <3>3, <1>1
    <3>5. ASSUME NEW i \in 1 .. ReplySize - uRead' PROVE uRd'[i] = uRead' + i
      <4> DEFINE k == i + 1
      <4>1. i \in 1 .. Len(uRd) - 1 /\ k \in 1 .. ReplySize - uRead /\ uRead + k = uRead' + i
        BY <3>1, <3>2, <1>1
      <4>2. uRd'[i] = uRd[k]
        BY <4>1, <3>3
      <4> HIDE DEF k
      <4> QED
        BY <4>1, <4>2, <3>1
    <3> QED
      BY <3>4, <3>5
  <2> QED
    BY <1>5, <1>6, <2>1, <2>2 DEF Exchange
<1> QED
    BY <1>2, <1>7, <1>8

(* ... or the last.                                                         *)
LEMMA ReplyLastReader ==
    ASSUME UTyped, UHolds, Cleared, Exchange, Uart!ReplyLast(Reader)
    PROVE  Cleared' /\ Exchange'
<1> DEFINE at == IF uRd = <<>> THEN "lost" ELSE "idle"
<1>1. /\ uPc[Reader] = "replied" /\ uPc' = [uPc EXCEPT ![Reader] = at]
      /\ uRead' = 0 /\ uWritten' = 0 /\ uAnswered' = FALSE
      /\ UNCHANGED <<uSize, uPushed, uReply>>
      /\ UNCHANGED <<uBuffer, uIn, uOut, uFifo, uWire>>
    BY DEF Uart!ReplyLast, Uart!Runs, Uart!Read, Uart!Goto, Uart!ring, Uart!call
<1>2. at \in {"lost", "idle"}
    OBVIOUS
<1> HIDE DEF at
<1>3. uPc'[Reader] = at /\ uPushed'[Reader] = 0
    BY <1>1, UartConstants DEF UTyped, UThreads, UHolds, Local
<1>4. FlightStays
    BY <1>1, FlightSame DEF FlightStays
<1>5. Cleared'
    BY <1>1, <1>2, <1>3 DEF Cleared, Writing, Wrote, Pushing
<1>6. Reads' /\ Uart!Replied' /\ ~Requesting /\ ~Requesting'
    BY <1>1, <1>2, <1>3 DEF Reads, Uart!Replied, Requesting, Pushing
<1>7. Silent'
    BY <1>1, <1>4, <1>6, SilentStays DEF Exchange
<1> QED
    BY <1>5, <1>6, <1>7 DEF Exchange

-----------------------------------------------------------------------------
(* Whatever the reader does keeps its exchange.                             *)
LEMMA ReaderSteps ==
    ASSUME UTyped, UHolds, Pump, Cleared, Exchange, Uart!Continue(Reader)
    PROVE  Cleared' /\ Exchange'
BY FlushLookReader, FlushGetReader, WriteStartReader, PushReader, WriteFullReader,
   WriteRoomReader, WriteEndReader, SentReader, ClearLookReader, ClearReadReader,
   EchoWaitReader, EchoReadReader, EchoLastReader, ReplyWaitReader, ReplyTimeoutReader,
   ReplyReadReader, ReplyLastReader DEF Uart!Continue

(* At first the line is quiet.                                              *)
LEMMA UartStart == Uart!Init => UartInv
<1> SUFFICES ASSUME Uart!Init PROVE UartInv
    OBVIOUS
<1>0. /\ None \notin Driver /\ Ring \in Nat \ {0} /\ RequestSize \in Nat \ {0}
      /\ ReplySize \in Nat \ {0} /\ Reader \in Driver /\ Numbers \in Nat \ {0}
    BY UartConstants
<1>1. UTyped
  <2>1. <<0, 1, 1>> \in UByte
    BY DEF UByte
  <2>2. URing
    BY <1>0, <2>1 DEF Uart!Init, URing
  <2>3. UThreads
    BY DEF Uart!Init, UThreads, Uart!NewMutex
  <2> QED
    BY <2>2, <2>3 DEF Uart!Init, UTyped, UHeard
<1>2. Pend = 0 /\ Flying = 0 /\ Flight[0] = <<0, 1, 1>>
  <2>1. Pend = 0
    BY <1>1, PendIs DEF Uart!Init
  <2>2. Flying = 0
    BY <1>1, <2>1, FlyingIs DEF Uart!Init
  <2> QED
    BY <1>1, <2>1, <2>2, FlyingIs DEF Uart!Init
<1>3. UHolds
    BY <1>0 DEF Uart!Init, UHolds, Local, Held, Holding, Pushing
<1>4. UOrder
    BY <1>0, <1>2 DEF Uart!Init, UOrder, Newest, Pushing
<1>5. Pump
    BY <1>2 DEF Uart!Init, Pump
<1>6. Cleared
    BY <1>0 DEF Uart!Init, Cleared, Wrote, Pushing
<1>7. Exchange
  <2>1. ~Requesting
    BY <1>0 DEF Uart!Init, Requesting, Pushing
  <2>2. Reads /\ Silent /\ Uart!Replied
    BY <1>0, <1>2 DEF Uart!Init, Reads, Silent, Uart!Replied
  <2> QED
    BY <2>1, <2>2 DEF Exchange
<1> QED
    BY <1>1, <1>3, <1>4, <1>5, <1>6, <1>7 DEF UartInv

(* A step keeps the invariant, and a byte clocked out is the next.          *)
LEMMA UartStep ==
    ASSUME UartInv, Uart!Next
    PROVE  UartInv' /\ (uWire' = uWire \/ Uart!WholeStep)
<1>1. UTyped /\ UHolds /\ UOrder /\ Pump /\ Cleared /\ Exchange /\ Reader \in Driver
    BY UartConstants DEF UartInv
<1>2. UTyped' /\ UHolds' /\ UOrder' /\ Pump'
    BY <1>1, UTypedStep, OrderStep, PumpStep
<1>3. ASSUME NEW t \in Driver, Uart!Write(t) \/ Uart!Continue(t)
      PROVE  Cleared' /\ Exchange'
  <2>1. CASE t = Reader
    BY <1>1, <1>3, <2>1, BeginReader, ReaderSteps
  <2>2. CASE t # Reader
    BY <1>1, <1>3, <2>2, OtherSteps
  <2> QED
    BY <2>1, <2>2
<1>4. Cleared' /\ Exchange'
    BY <1>1, <1>3, BeginReader, HandlerSteps, ShiftCleared, ShiftExchange, ReplyCleared,
       ReplyExchange DEF Uart!Next
<1> QED
    BY <1>1, <1>2, <1>4, WholeHolds DEF UartInv

(* No echo is taken for a byte of the reply.                                *)
LEMMA UartShows == UartInv => Uart!Replied
BY DEF UartInv, Exchange

-----------------------------------------------------------------------------
(* The drivers together: each leaves the others alone.                      *)

(* No driver has begun at first. *)
LEMMA DriversStart == DriversInit => DriversInv
BY InitInv, SpiInit, UartStart, SensorsStart, EncoderInit DEF DriversInit, DriversInv

(* What stands stays as it is. *)
LEMMA I2cStands == IInv /\ UNCHANGED vars => IInv'
BY IInvInductive

(* The same of the SPI driver, ... *)
LEMMA SpiStands == SpiInv /\ UNCHANGED spi => SpiInv'
BY DEF spi, SpiInv, SpiTyped, SpiTurns, SpiOut, SpiIn, SpiCounts, SpiOver,
   Written, InShift, SpiWords, SpiWord, Spi!Max2

(* ... the UART, ... *)
LEMMA UartStands == UartInv /\ UNCHANGED uart => UartInv'
<1> SUFFICES ASSUME UartInv, UNCHANGED uart PROVE UartInv'
    OBVIOUS
<1>1. UNCHANGED <<uBuffer, uIn, uOut, uFifo, uTxie, uIsr, uRoom, uEmpty, uMutex, uPc,
                  uSize, uPushed, uDatagrams, uWire, uRd, uReply, uAnswered, uRead, uWritten>>
    BY DEF uart
<1>2. Pend' = Pend /\ Flying' = Flying /\ Flight' = Flight
    BY <1>1, FlightSame
<1>3. UTyped'
    BY <1>1 DEF UartInv, UTyped, URing, UThreads, UHeard
<1>4. UHolds'
    BY <1>1 DEF UartInv, UHolds, Held, Local
<1>5. UOrder'
    BY <1>1, <1>2 DEF UartInv, UOrder, Newest
<1>6. Pump'
    BY <1>1, <1>2 DEF UartInv, Pump
<1>7. Cleared'
    BY <1>1, <1>2 DEF UartInv, Cleared, Quiet
<1>8. Exchange'
    BY <1>1, <1>2 DEF UartInv, Exchange, Reads, Requesting, Flies, Echoes, Answers,
       Silent, Uart!Replied
<1> QED
    BY <1>3, <1>4, <1>5, <1>6, <1>7, <1>8 DEF UartInv

(* ... the sensors ... *)
LEMMA SensorsStand == SensorsInv /\ UNCHANGED sensors => SensorsInv'
BY DEF sensors, SensorsInv, SensorsTyped, AtSensor

(* ... and the encoder. *)
LEMMA EncoderStands == EncoderInv /\ UNCHANGED encoder => EncoderInv'
BY DEF encoder, EncoderInv

(* Every step of a driver keeps its invariant, and those of the others. *)
LEMMA DriversStep == DriversInv /\ [DriversNext]_all => DriversInv'
<1> SUFFICES ASSUME DriversInv, [DriversNext]_all PROVE DriversInv'
    OBVIOUS
<1>0. IInv /\ SpiInv /\ UartInv /\ SensorsInv /\ EncoderInv
    BY DEF DriversInv
<1>1. IInv'
  <2>1. Next \/ UNCHANGED vars
    BY DEF DriversNext, On, OnI2c, OnSpi, OnUart, OnSensors, OnEncoder, all
  <2> QED
    BY <1>0, <2>1, IInvInductive
<1>2. SpiInv'
  <2>1. Spi!Next \/ UNCHANGED spi
    BY DEF DriversNext, On, OnI2c, OnSpi, OnUart, OnSensors, OnEncoder, all
  <2>2. Spi!Next => SpiInv'
    BY <1>0, SpiTypedStep, SpiTurnsStep, SpiBytesStep DEF SpiInv
  <2> QED
    BY <1>0, <2>1, <2>2, SpiStands
<1>3. UartInv'
  <2>1. Uart!Next \/ UNCHANGED uart
    BY DEF DriversNext, On, OnI2c, OnSpi, OnUart, OnSensors, OnEncoder, all
  <2> QED
    BY <1>0, <2>1, UartStep, UartStands
<1>4. SensorsInv'
  <2>1. Sensors!Next \/ UNCHANGED sensors
    BY DEF DriversNext, On, OnI2c, OnSpi, OnUart, OnSensors, OnEncoder, all
  <2> QED
    BY <1>0, <2>1, SensorsStep, SensorsStand
<1>5. EncoderInv'
  <2>1. Encoder!Next \/ UNCHANGED encoder
    BY DEF DriversNext, On, OnI2c, OnSpi, OnUart, OnSensors, OnEncoder, all
  <2> QED
    BY <1>0, <2>1, EncoderStep, EncoderStands
<1> QED
    BY <1>1, <1>2, <1>3, <1>4, <1>5 DEF DriversInv

(* The invariant holds throughout. *)
LEMMA DriversInvHolds == DriversSpec => []DriversInv
BY DriversStart, DriversStep, PTL DEF DriversSpec

(* A step of the UART clocks out the next byte; no other step clocks.       *)
LEMMA UartClocks == DriversInv /\ [DriversNext]_all => uWire' = uWire \/ Uart!WholeStep
<1> SUFFICES ASSUME DriversInv, [DriversNext]_all PROVE uWire' = uWire \/ Uart!WholeStep
    OBVIOUS
<1>1. Uart!Next \/ UNCHANGED uart
    BY DEF DriversNext, On, OnI2c, OnSpi, OnUart, OnSensors, OnEncoder, all
<1> QED
    BY <1>1, UartStep DEF DriversInv, uart

-----------------------------------------------------------------------------
(* The I2C driver's variables keep their types, and its counters stay       *)
(* within the sizes of the transfer: the buffers of the caller are not      *)
(* overrun.                                                                 *)
THEOREM TypeCorrect == DriversSpec => []TypeOK
<1>1. DriversInv => TypeOK
  BY DEF DriversInv, IInv
<1> QED
  BY <1>1, DriversInvHolds, PTL

(* A notice of the I2C driver is of the transfer that waits for it,         *)
(* whatever the devices and the others on the bus do; none is left for the  *)
(* next caller.                                                             *)
THEOREM OneNoticeHolds == DriversSpec => []OneNotice
<1>1. DriversInv => OneNotice
  BY DEF DriversInv, IInv, Turns
<1> QED
  BY <1>1, DriversInvHolds, PTL

(* An I2C1_WriteRead that returns true was served whole: every byte written *)
(* was taken by the device and every byte read is in the buffer, in order.  *)
THEOREM TruthfulHolds == DriversSpec => []Truthful
<1>1. DriversInv => Truthful
  BY DEF DriversInv, IInv
<1> QED
  BY <1>1, DriversInvHolds, PTL

(* What is read is what was asked for: by the callers of SPI2_WriteRead, by *)
(* the reader of a TMC2209 while others send on the same wire, by readings  *)
(* over the multiplexer whichever transfer fails, and from an encoder.      *)
THEOREM ReadsTrueHolds == DriversSpec => []ReadsTrue
<1>1. DriversInv => ReadsTrue
  <2>1. EncoderInv => Encoder!Tracks
    BY DEF EncoderInv, Encoder!Tracks
  <2> QED
    BY <2>1, SpiShows, UartShows, SensorsShow DEF DriversInv, ReadsTrue
<1> QED
  BY <1>1, DriversInvHolds, PTL

(* Datagrams leave the UART whole and in order, whoever wrote them and      *)
(* however often the ring was full meanwhile.                               *)
THEOREM UartWholeHolds == DriversSpec => UartWhole
BY UartClocks, DriversInvHolds, PTL DEF DriversSpec, UartWhole, Uart!Whole
=============================================================================
