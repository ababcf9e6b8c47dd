----------------------------- MODULE Spi1Proofs ----------------------------
(* Theorems about the SPI1 driver.  The receive ring is a bounded queue of  *)
(* bytes, and its reader does not sleep on bytes, for a ring and a fifo of  *)
(* any size.  What is transmitted is not torn, and the host is asked for    *)
(* it, for a fifo of any size above one and for writes of any size.         *)
EXTENDS MCSpi1, SequenceTheorems, TLAPS

-----------------------------------------------------------------------------
(* Arithmetic modulo the size of the ring. *)

(* The remainder of a number that is given by quotient and remainder. *)
LEMMA Mod ==
    ASSUME NEW S \in Nat \ {0}, NEW q \in Int, NEW r \in 0 .. S - 1
    PROVE  (S * q + r) % S = r
OBVIOUS

(* Every integer has a quotient and a remainder. *)
LEMMA Div ==
    ASSUME NEW S \in Nat \ {0}, NEW n \in Int
    PROVE  \E q \in Int, r \in 0 .. S - 1 : n = S * q + r
<1>1. PICK q \in Int : S * q \in (n - S + 1) .. n
  <2>1. n \div S \in Int /\ S * (n \div S) \in (n - S + 1) .. n
    OBVIOUS
  <2> QED
    BY <2>1
<1>2. n - S * q \in 0 .. S - 1 /\ n = S * q + (n - S * q)
    BY <1>1
<1> QED
    BY <1>2

(* A remainder is its own remainder. *)
LEMMA SmallMod ==
    ASSUME NEW S \in Nat \ {0}, NEW r \in 0 .. S - 1
    PROVE  r % S = r
OBVIOUS

(* The remainder may be taken before adding. *)
LEMMA AddMod ==
    ASSUME NEW S \in Nat \ {0}, NEW n \in Int, NEW k \in Int
    PROVE  (n + k) % S = ((n % S) + k) % S
<1>1. PICK q \in Int, r \in 0 .. S - 1 : n = S * q + r
    BY Div
<1>2. n % S = r
    BY <1>1, Mod
<1>3. PICK p \in Int, t \in 0 .. S - 1 : r + k = S * p + t
  <2>1. r + k \in Int
    OBVIOUS
  <2> QED
    BY <2>1, Div
<1>4. (r + k) % S = t
    BY <1>3, Mod
<1>5. n + k = S * (q + p) + t
  <2>1. S * (q + p) = S * q + S * p
    OBVIOUS
  <2>2. n + k = S * q + (r + k)
    BY <1>1
  <2> QED
    BY <1>3, <2>1, <2>2
<1>6. (n + k) % S = t
  <2>1. q + p \in Int
    OBVIOUS
  <2> QED
    BY <1>5, <2>1, Mod
<1> QED
    BY <1>2, <1>4, <1>6

(* Once around the ring is the same place. *)
LEMMA PlusMod ==
    ASSUME NEW S \in Nat \ {0}, NEW n \in Int
    PROVE  (n + S) % S = n % S
<1>1. PICK q \in Int, r \in 0 .. S - 1 : n = S * q + r
    BY Div
<1>2. n + S = S * (q + 1) + r
  <2>1. S * (q + 1) = S * q + S
    OBVIOUS
  <2> QED
    BY <1>1, <2>1
<1>3. n % S = r /\ (n + S) % S = r
  <2>1. q + 1 \in Int
    OBVIOUS
  <2> QED
    BY <1>1, <1>2, <2>1, Mod
<1> QED
    BY <1>3

(* So is one place, once around. *)
LEMMA WrapMod ==
    ASSUME NEW S \in Nat \ {0}, NEW r \in 0 .. S - 1
    PROVE  (r + S) % S = r
<1>1. r \in Int
    OBVIOUS
<1>2. (r + S) % S = r % S
    BY <1>1, PlusMod, Zenon
<1> QED
    BY <1>2, SmallMod, Zenon

(* Less than once around it is another. *)
LEMMA ModApart ==
    ASSUME NEW S \in Nat \ {0}, NEW m \in Int, NEW n \in Int,
           m < n, n < m + S
    PROVE  m % S # n % S
<1>1. PICK q \in Int, r \in 0 .. S - 1 : m = S * q + r
    BY Div
<1>2. PICK p \in Int, t \in 0 .. S - 1 : n = S * p + t
    BY Div
<1>3. m % S = r /\ n % S = t
    BY <1>1, <1>2, Mod
<1>4. SUFFICES ASSUME r = t
               PROVE  FALSE
    BY <1>3
<1>5. S * p - S * q \in 1 .. S - 1
    BY <1>1, <1>2, <1>4
<1>6. S * (p - q) = S * p - S * q
    OBVIOUS
<1>7. CASE p - q >= 1
  <2>1. S * (p - q) >= S
    BY <1>7
  <2> QED
    BY <1>5, <1>6, <2>1
<1>8. CASE p - q <= 0
  <2>1. S * (p - q) <= 0
    BY <1>8
  <2> QED
    BY <1>5, <1>6, <2>1
<1> QED
    BY <1>7, <1>8

-----------------------------------------------------------------------------
(* The inductive invariant.  SPI1_Read lacks bytes as long as it goes on.   *)
Lacks == rpc # "idle" => left > 0

(* The inductive invariant. *)
IInv == TypeOK /\ Lacks /\ Intact /\ NotAsleep

(* The ring has room for a byte. *)
LEMMA Sizes0 == Size \in Nat \ {0} /\ Size > 1
BY Spi1ReceiveAssumption

(* The ring looks empty only where its ends meet. *)
LEMMA AvailZero ==
    ASSUME b \in 0 .. Size - 1, e \in 0 .. Size - 1
    PROVE  Avail = 0 <=> b = e
<1>1. CASE b <= e
  <2>1. e - b \in 0 .. Size - 1 /\ e - b \in Int
    BY <1>1, Sizes0
  <2>2. Avail = e - b
    BY <2>1, Sizes0, PlusMod, SmallMod DEF Avail
  <2> QED
    BY <2>1, <2>2
<1>2. CASE e < b
  <2>1. e - b + Size \in 1 .. Size - 1
    BY <1>2, Sizes0
  <2>2. Avail = e - b + Size
    BY <2>1, Sizes0, SmallMod DEF Avail
  <2> QED
    BY <1>2, <2>1, <2>2
<1> QED
    BY <1>1, <1>2

(* Two ends that went round the ring tell how far they are apart. *)
LEMMA EndsApart ==
    ASSUME NEW k \in Nat, NEW t \in Nat, k - t \in 0 .. Size - 1,
           NEW x, NEW y, x = k % Size, y = t % Size
    PROVE  (x - y + Size) % Size = k - t
<1>1. PICK d \in 0 .. Size - 1 : d = k - t /\ k = t + d
    BY Sizes0
<1>2. x \in 0 .. Size - 1 /\ y \in 0 .. Size - 1
    BY Sizes0
<1>3. x = (y + d) % Size
  <2>1. Size \in Nat \ {0} /\ t \in Int /\ d \in Int
    BY <1>1, Sizes0
  <2>2. (t + d) % Size = ((t % Size) + d) % Size
    BY <2>1, AddMod, Zenon
  <2> QED
    BY <1>1, <2>2
<1>4. CASE y + d < Size
  <2>1. y + d \in 0 .. Size - 1
    BY <1>2, <1>4, Sizes0
  <2>2. (y + d) % Size = y + d
    BY <2>1, Sizes0, SmallMod, Zenon
  <2>3. x = y + d
    BY <1>3, <2>2, Zenon
  <2>4. x - y + Size = d + Size
    BY <1>2, <2>3, Sizes0, SMT
  <2>5. (d + Size) % Size = d
    BY <1>1, Sizes0, WrapMod, Zenon
  <2> QED
    BY <1>1, <2>4, <2>5, Zenon
<1>5. CASE y + d >= Size
  <2>1. PICK a \in 0 .. Size - 1 : y + d = a + Size
    BY <1>2, <1>5, Sizes0
  <2>2. (a + Size) % Size = a
    BY <2>1, Sizes0, WrapMod, Zenon
  <2>3. x = a
    BY <1>3, <2>1, <2>2, Zenon
  <2>4. x - y + Size = d
    BY <1>2, <2>1, <2>3, Sizes0
  <2>5. d % Size = d
    BY Sizes0, SmallMod, Zenon
  <2> QED
    BY <1>1, <2>4, <2>5, Zenon
<1> QED
    BY <1>2, <1>4, <1>5, Sizes0

(* What is available is what was kept and not taken. *)
LEMMA AvailIs ==
    ASSUME TypeOK, Intact
    PROVE  /\ Avail = Len(kept) - Len(taken)
           /\ Avail \in 0 .. Size - 1
           /\ Len(kept) \in Nat /\ Len(taken) \in Nat
<1>1. /\ Len(kept) \in Nat /\ Len(taken) \in Nat
      /\ Len(kept) - Len(taken) \in 0 .. Size - 1
      /\ e = Len(kept) % Size /\ b = Len(taken) % Size
    BY LenProperties DEF TypeOK, Intact
<1>2. Avail = Len(kept) - Len(taken)
    BY <1>1, EndsApart, Zenon DEF Avail
<1> QED
    BY <1>1, <1>2, Zenon

(* It holds at first, ... *)
LEMMA InitIInv == Init => IInv
<1> SUFFICES ASSUME Init
             PROVE  IInv
    OBVIOUS
<1>1. 0 % Size = 0
    BY Sizes0, SmallMod
<1>2. TypeOK
    BY Spi1ReceiveAssumption DEF Init, TypeOK
<1>3. Intact
    BY <1>1, Sizes0 DEF Init, Intact
<1> QED
    BY <1>2, <1>3 DEF Init, IInv, Lacks, NotAsleep

(* A byte goes to the place behind the last, which holds none to be taken.  *)
LEMMA RxByteStep ==
    ASSUME IInv, RxByte
    PROVE  IInv'
<1>1. /\ TypeOK /\ Intact
      /\ kept \in Seq(Byte) /\ fifo \in Seq(Byte) /\ fifo # <<>>
      /\ data \in [0 .. Size - 1 -> Byte \cup {None}]
      /\ e \in 0 .. Size - 1
    BY DEF IInv, TypeOK, RxByte
<1>2. Head(fifo) \in Byte /\ Tail(fifo) \in Seq(Byte) /\ Len(Tail(fifo)) <= Fifo
    BY <1>1, HeadTailProperties, LenProperties, Spi1ReceiveAssumption DEF TypeOK
<1>3. PICK k \in Nat, t \in Nat : k = Len(kept) /\ t = Len(taken)
    BY <1>1, AvailIs
<1>4. CASE Avail = Size - 1 /\ UNCHANGED <<data, e, kept>>
    BY <1>1, <1>2, <1>4
       DEF RxByte, IInv, TypeOK, Lacks, Intact, NotAsleep
<1>5. CASE Avail # Size - 1
  <2>1. k - t \in 0 .. Size - 2
    <3>1. Avail = k - t /\ Avail \in 0 .. Size - 1
      BY <1>1, <1>3, AvailIs
    <3>2. Size \in Nat
      BY Sizes0
    <3> QED
      BY <1>3, <1>5, <3>1, <3>2
  <2>2. /\ data' = [data EXCEPT ![e] = Head(fifo)]
        /\ e' = (e + 1) % Size
        /\ kept' = Append(kept, Head(fifo))
        /\ UNCHANGED <<b, taken>>
    BY <1>5 DEF RxByte
  <2>3. /\ kept' \in Seq(Byte) /\ Len(kept') = k + 1
        /\ kept'[k + 1] = Head(fifo)
        /\ \A i \in 1 .. k : kept'[i] = kept[i]
    BY <1>1, <1>2, <1>3, <2>2, AppendProperties
  <2>4. e = k % Size /\ b = t % Size
    BY <1>1, <1>3 DEF Intact
  <2>5. e' = (k + 1) % Size
    <3>1. Size \in Nat \ {0} /\ k \in Int /\ 1 \in Int
      BY <1>3, Sizes0
    <3>2. (k + 1) % Size = ((k % Size) + 1) % Size
      BY <3>1, AddMod, Zenon
    <3> QED
      BY <2>2, <2>4, <3>2
  <2>6. e' \in 0 .. Size - 1
    <3>1. e + 1 \in Int
      BY <1>1, Sizes0
    <3>2. (e + 1) % Size \in 0 .. Size - 1
      BY <3>1, Sizes0
    <3> QED
      BY <2>2, <3>2
  <2>7. \A i \in 1 .. t : taken[i] = kept'[i]
    <3>1. \A i \in 1 .. t : taken[i] = kept[i]
      BY <1>1, <1>3 DEF Intact
    <3>2. \A i \in 1 .. t : i \in 1 .. k
      BY <1>3, <2>1, Sizes0
    <3> QED
      BY <2>3, <3>1, <3>2
  <2>8. ASSUME NEW i \in t + 1 .. k + 1
        PROVE  data'[(i - 1) % Size] = kept'[i]
    <3>1. CASE i = k + 1
      <4>1. (i - 1) % Size = e
        BY <2>4, <3>1
      <4> QED
        BY <1>1, <2>2, <2>3, <3>1, <4>1
    <3>2. CASE i # k + 1
      <4>1. i \in t + 1 .. k /\ i \in 1 .. k /\ i - 1 \in Int
        BY <2>8, <3>2
      <4>2. i - 1 < k /\ k < i - 1 + Size
        BY <2>1, <4>1, Sizes0
      <4>3. (i - 1) % Size # e
        <5>1. Size \in Nat \ {0} /\ i - 1 \in Int /\ k \in Int
          BY <1>3, <4>1, Sizes0
        <5>2. (i - 1) % Size # k % Size
          BY <4>2, <5>1, ModApart, Zenon
        <5> QED
          BY <2>4, <5>2
      <4>4. data[(i - 1) % Size] = kept[i]
        BY <1>1, <1>3, <4>1 DEF Intact
      <4>5. (i - 1) % Size \in 0 .. Size - 1
        BY <4>1, Sizes0
      <4> QED
        BY <1>1, <2>2, <2>3, <4>1, <4>3, <4>4, <4>5
    <3> QED
      BY <3>1, <3>2
  <2>9. Intact'
    <3>1. /\ Len(kept') = k + 1 /\ Len(taken') = t
          /\ k + 1 - t \in 0 .. Size - 1
          /\ taken' = taken /\ b' = b
      BY <1>3, <2>1, <2>2, <2>3, Sizes0
    <3> QED
      BY <2>4, <2>5, <2>7, <2>8, <3>1 DEF Intact
  <2>10. TypeOK'
    BY <1>1, <1>2, <2>2, <2>3, <2>6 DEF RxByte, IInv, TypeOK
  <2> QED
    BY <2>9, <2>10 DEF RxByte, IInv, Lacks, NotAsleep
<1> QED
    BY <1>4, <1>5 DEF RxByte

(* What SPI1_Read copies. *)
Copied(n) == [i \in 1 .. n |-> data[(b + i - 1) % Size]]

(* It is what was kept and not taken. *)
LEMMA CopiedIs ==
    ASSUME TypeOK, Intact, NEW n \in 1 .. Avail
    PROVE  /\ Copied(n) \in Seq(Byte) /\ Len(Copied(n)) = n
           /\ \A i \in 1 .. n : Copied(n)[i] = kept[Len(taken) + i]
<1>1. PICK k \in Nat, t \in Nat : k = Len(kept) /\ t = Len(taken)
    BY AvailIs
<1>2. Avail = k - t /\ n \in Nat
    BY <1>1, AvailIs
<1>3. ASSUME NEW i \in 1 .. n
      PROVE  data[(b + i - 1) % Size] = kept[t + i] /\ kept[t + i] \in Byte
  <2>1. t + i \in t + 1 .. k /\ t + i \in 1 .. k
    BY <1>1, <1>2
  <2>2. data[(t + i - 1) % Size] = kept[t + i]
    BY <1>1, <2>1 DEF Intact
  <2>3. Size \in Nat \ {0} /\ t \in Int /\ i - 1 \in Int
    BY <1>1, <1>2, Sizes0
  <2>4. (t + (i - 1)) % Size = ((t % Size) + (i - 1)) % Size
    BY <2>3, AddMod, Zenon
  <2>5. t % Size = b /\ b \in Int
    BY <1>1 DEF Intact, TypeOK
  <2>6. t + (i - 1) = t + i - 1 /\ b + (i - 1) = b + i - 1
    BY <1>2, <2>3, <2>5
  <2>7. (t + i - 1) % Size = (b + i - 1) % Size
    BY <2>4, <2>5, <2>6
  <2>8. kept[t + i] \in Byte
    BY <1>1, <2>1, ElementOfSeq DEF TypeOK
  <2> QED
    BY <2>2, <2>7, <2>8
<1>4. Copied(n) \in [1 .. n -> Byte]
    BY <1>3 DEF Copied
<1>5. Copied(n) \in Seq(Byte) /\ Len(Copied(n)) = n
    BY <1>2, <1>4
<1>6. \A i \in 1 .. n : Copied(n)[i] = kept[Len(taken) + i]
    BY <1>1, <1>3 DEF Copied
<1> QED
    BY <1>5, <1>6

(* SPI1_Read moves the beginning of the ring by what it copied.             *)
LEMMA ReadCopyStep ==
    ASSUME IInv, ReadCopy
    PROVE  IInv'
<1>1. TypeOK /\ Intact /\ left \in Nat /\ left > 0 /\ Avail # 0
    BY DEF IInv, TypeOK, Lacks, ReadCopy
<1>2. PICK k \in Nat, t \in Nat : k = Len(kept) /\ t = Len(taken)
    BY <1>1, AvailIs
<1>3. Avail = k - t /\ Avail \in 0 .. Size - 1
    BY <1>1, <1>2, AvailIs
<1>4. PICK n \in Nat : n = Less(Avail, left) /\ n \in 1 .. Avail /\ n <= left
  <2>1. Avail \in Nat \ {0} /\ left \in Nat \ {0}
    BY <1>1, <1>3, Sizes0
  <2> QED
    BY <2>1 DEF Less
<1>5. n \in 1 .. Avail /\ n <= left
    BY <1>4
<1>6. /\ taken' = taken \o Copied(n)
      /\ left' = left - n
      /\ b' = (b + n) % Size
      /\ rpc' = IF left = n THEN "idle" ELSE "look"
      /\ UNCHANGED <<fifo, sent, data, e, isr, sem, kept>>
    BY <1>4 DEF ReadCopy, Copied
<1>7. /\ Copied(n) \in Seq(Byte) /\ Len(Copied(n)) = n
      /\ \A i \in 1 .. n : Copied(n)[i] = kept[t + i]
    BY <1>1, <1>2, <1>5, CopiedIs
<1>8. PICK c : c = Copied(n)
    OBVIOUS
<1>9. c \in Seq(Byte \cup {None}) /\ taken \in Seq(Byte \cup {None})
    BY <1>1, <1>7, <1>8, SeqMonotonic DEF TypeOK
<1>10. /\ taken' \in Seq(Byte \cup {None}) /\ Len(taken') = t + n
       /\ \A i \in 1 .. t + n :
             taken'[i] = IF i <= t THEN taken[i] ELSE c[i - t]
  <2>1. taken' = taken \o c /\ Len(c) = n /\ Len(taken) = t
    BY <1>2, <1>6, <1>7, <1>8
  <2>2. taken \o c \in Seq(Byte \cup {None})
    BY <1>9, ConcatProperties
  <2>3. Len(taken \o c) = t + n
    BY <1>9, <2>1, ConcatProperties
  <2>4. \A i \in 1 .. t + n :
           (taken \o c)[i] = IF i <= t THEN taken[i] ELSE c[i - t]
    BY <1>9, <2>1, ConcatProperties
  <2> QED
    BY <2>1, <2>2, <2>3, <2>4
<1>11. ASSUME NEW i \in 1 .. t + n
       PROVE  taken'[i] = kept[i]
  <2>1. CASE i <= t
    <3>1. i \in 1 .. t
      BY <1>2, <2>1
    <3>2. taken[i] = kept[i]
      BY <1>1, <1>2, <3>1 DEF Intact
    <3> QED
      BY <1>10, <2>1, <3>2
  <2>2. CASE i > t
    <3>1. PICK j \in 1 .. n : j = i - t /\ t + j = i
      <4>1. i \in Int /\ i <= t + n /\ t \in Nat /\ n \in Nat
        BY <1>2, <1>4, <1>11
      <4>2. i - t \in 1 .. n /\ t + (i - t) = i
        BY <2>2, <4>1
      <4> QED
        BY <4>2
    <3>2. taken'[i] = c[j]
      BY <1>10, <2>2, <3>1
    <3>3. c[j] = kept[i]
      BY <1>7, <1>8, <3>1
    <3> QED
      BY <3>2, <3>3
  <2> QED
    BY <1>2, <2>1, <2>2
<1>12. b' = (t + n) % Size
  <2>1. Size \in Nat \ {0} /\ t \in Int /\ n \in Int
    BY <1>2, <1>4, Sizes0
  <2>2. (t + n) % Size = ((t % Size) + n) % Size
    BY <2>1, AddMod, Zenon
  <2> QED
    BY <1>1, <1>2, <1>6, <2>2 DEF Intact
<1>13. b' \in 0 .. Size - 1
  <2>1. t + n \in Int
    BY <1>2, <1>4
  <2>2. (t + n) % Size \in 0 .. Size - 1
    BY <2>1, Sizes0
  <2> QED
    BY <1>12, <2>2
<1>14. Intact'
  <2>1. /\ Len(kept') = k /\ Len(taken') = t + n
        /\ k - (t + n) \in 0 .. Size - 1
    <3>1. k - t \in 0 .. Size - 1 /\ n \in 1 .. k - t
      BY <1>3, <1>5
    <3>2. k - (t + n) \in 0 .. Size - 1
      BY <1>2, <1>4, <3>1, Sizes0
    <3> QED
      BY <1>2, <1>6, <1>10, <3>2
  <2>2. e' = k % Size
    BY <1>1, <1>2, <1>6 DEF Intact
  <2>3. ASSUME NEW i \in t + n + 1 .. k
        PROVE  data'[(i - 1) % Size] = kept'[i]
    <3>1. i \in t + 1 .. k
      BY <1>2, <1>4
    <3> QED
      BY <1>1, <1>2, <1>6, <3>1 DEF Intact
  <2> QED
    BY <1>6, <1>11, <1>12, <2>1, <2>2, <2>3 DEF Intact
<1>15. left' \in Nat /\ (rpc' # "idle" => left' > 0)
    BY <1>1, <1>4, <1>5, <1>6
<1>16. TypeOK'
    BY <1>1, <1>6, <1>10, <1>13, <1>15 DEF TypeOK
<1>17. NotAsleep'
    BY <1>6 DEF NotAsleep
<1> QED
    BY <1>14, <1>15, <1>16, <1>17 DEF IInv, Lacks

(* ... and every step keeps it. *)
LEMMA IInvInductive == IInv /\ [Next]_vars => IInv'
<1> SUFFICES ASSUME IInv, [Next]_vars
             PROVE  IInv'
    OBVIOUS
<1>0. TypeOK /\ Lacks /\ Intact /\ NotAsleep
    BY DEF IInv
<1>a. ASSUME UNCHANGED <<ring, kept, taken>>
      PROVE  Intact'
    BY <1>0, <1>a DEF Intact, ring
<1>b. Avail = 0 <=> b = e
    BY <1>0, AvailZero DEF TypeOK
<1>1. CASE ByteArrives
  <2>1. sent' \in 0 .. MaxBytes
    BY <1>0, <1>1, Spi1ReceiveAssumption DEF ByteArrives, TypeOK
  <2>2. fifo' \in Seq(Byte) /\ Len(fifo') <= Fifo
    <3>1. fifo \in Seq(Byte) /\ Len(fifo) \in Nat /\ Fifo \in Nat /\ Len(fifo) <= Fifo
      BY <1>0, Spi1ReceiveAssumption, LenProperties DEF TypeOK
    <3>2. CASE UNCHANGED fifo
      BY <3>1, <3>2
    <3>3. CASE Len(fifo) < Fifo /\ \E x \in Byte : fifo' = Append(fifo, x)
      BY <3>1, <3>3, AppendProperties
    <3> QED
      BY <1>1, <3>2, <3>3 DEF ByteArrives
  <2>3. TypeOK'
    BY <1>0, <1>1, <2>1, <2>2 DEF ByteArrives, TypeOK, ring
  <2> QED
    BY <1>0, <1>1, <1>a, <2>3 DEF ByteArrives, IInv, Lacks, NotAsleep, ring
<1>2. CASE RxInterrupt
  <2>1. TypeOK'
    BY <1>0, <1>2 DEF RxInterrupt, TypeOK, ring
  <2> QED
    BY <1>0, <1>2, <1>a, <2>1 DEF RxInterrupt, IInv, Lacks, NotAsleep, ring
<1>3. CASE RxByte
    BY <1>3, RxByteStep
<1>4. CASE RxEnd
  <2>1. /\ isr' = FALSE /\ sem' \in {sem, 1} /\ rpc' \in {rpc, "look"}
        /\ UNCHANGED <<fifo, sent, data, b, e, left, kept, taken>>
    BY <1>4 DEF RxEnd, ring
  <2>2. TypeOK'
    <3>1. sem' \in 0 .. 1
      BY <1>0, <2>1 DEF TypeOK
    <3>2. rpc' \in {"idle", "look", "get", "asleep"}
      BY <1>0, <2>1 DEF TypeOK
    <3>3. isr' \in BOOLEAN
      BY <2>1
    <3> QED
      BY <1>0, <2>1, <3>1, <3>2, <3>3 DEF TypeOK
  <2> QED
    BY <1>0, <1>4, <1>a, <1>b, <2>2 DEF RxEnd, IInv, TypeOK, Lacks, NotAsleep, ring
<1>5. CASE ReadStart
  <2>1. left' \in Nat /\ left' > 0
    BY <1>5, Spi1ReceiveAssumption DEF ReadStart
  <2>2. TypeOK'
    BY <1>0, <1>5, <2>1 DEF ReadStart, TypeOK, ring
  <2> QED
    BY <1>0, <1>5, <1>a, <2>1, <2>2 DEF ReadStart, IInv, Lacks, NotAsleep, ring
<1>6. CASE ReadCopy
    BY <1>6, ReadCopyStep
<1>7. CASE ReadNone
  <2>1. TypeOK'
    BY <1>0, <1>7 DEF ReadNone, TypeOK, ring
  <2> QED
    BY <1>0, <1>7, <1>a, <1>b, <2>1 DEF ReadNone, IInv, Lacks, NotAsleep, ring
<1>8. CASE ReadGet
  <2>1. TypeOK'
    BY <1>0, <1>8 DEF ReadGet, TypeOK, ring
  <2> QED
    BY <1>0, <1>8, <1>a, <2>1 DEF ReadGet, IInv, Lacks, NotAsleep, ring
<1>9. CASE UNCHANGED vars
  <2>1. TypeOK'
    BY <1>0, <1>9 DEF vars, TypeOK, ring
  <2> QED
    BY <1>0, <1>9, <1>a, <2>1 DEF vars, IInv, Lacks, NotAsleep, ring
<1> QED
    BY <1>1, <1>2, <1>3, <1>4, <1>5, <1>6, <1>7, <1>8, <1>9
       DEF Next, Handles, Reads

(* So it always holds. *)
LEMMA IInvHolds == Spec => []IInv
    BY InitIInv, IInvInductive, PTL DEF Spec

-----------------------------------------------------------------------------
(* The ring holds what was kept and not taken, and what SPI1_Read copied is *)
(* what was kept, in order, however often the ends of the ring wrapped.     *)
THEOREM IntactHolds == Spec => []Intact
<1>1. IInv => Intact
    BY DEF IInv
<1> QED
    BY <1>1, IInvHolds, PTL

(* SPI1_Read does not sleep on bytes: an interrupt between its look at the  *)
(* ring and its semaphore call is not lost.                                 *)
THEOREM NotAsleepHolds == Spec => []NotAsleep
<1>1. IInv => NotAsleep
    BY DEF IInv
<1> QED
    BY <1>1, IInvHolds, PTL

-----------------------------------------------------------------------------
(* The ring as a sequence, and what comes behind the first t of ks. *)
RingOf(d, x, y) == [i \in 1 .. (x - y + Size) % Size |-> d[(y + i - 1) % Size]]

(* The bytes of ks behind the first t. *)
Behind(ks, t) == [i \in 1 .. Len(ks) - t |-> ks[t + i]]

(* The bytes on the ring. *)
Ring == RingOf(data, e, b)

(* A place of the ring is where the count of the byte in it leads, and so   *)
(* is the same wherever one begins to count.                                *)
LEMMA Place ==
    ASSUME NEW t \in Nat, NEW i \in Nat \ {0}
    PROVE  ((t % Size) + i - 1) % Size = (t + i - 1) % Size
<1>1. Size \in Nat \ {0} /\ t \in Int /\ i - 1 \in Int
    BY Sizes0
<1>2. (t + (i - 1)) % Size = ((t % Size) + (i - 1)) % Size
    BY <1>1, AddMod, Zenon
<1>3. t % Size \in Int
    BY Sizes0
<1> QED
    BY <1>2, <1>3

(* d stores what comes behind the first t bytes of ks. *)
Stores(d, t, ks) == \A i \in t + 1 .. Len(ks) : d[(i - 1) % Size] = ks[i]

(* What a ring with these ends holds. *)
LEMMA Holds ==
    ASSUME NEW ks \in Seq(Byte), NEW t \in Nat, NEW d, NEW x, NEW y,
           x = Len(ks) % Size, y = t % Size,
           Len(ks) - t \in 0 .. Size - 1,
           Stores(d, t, ks)
    PROVE  RingOf(d, x, y) = Behind(ks, t)
<1>1. Len(ks) \in Nat
    BY LenProperties
<1>2. (x - y + Size) % Size = Len(ks) - t
    BY <1>1, EndsApart, Zenon
<1>3. ASSUME NEW i \in 1 .. Len(ks) - t
      PROVE  d[(y + i - 1) % Size] = ks[t + i]
  <2>1. t + i \in t + 1 .. Len(ks) /\ i \in Nat \ {0}
    BY <1>1, <1>3
  <2>2. d[(t + i - 1) % Size] = ks[t + i]
    BY <2>1 DEF Stores
  <2>3. ((t % Size) + i - 1) % Size = (t + i - 1) % Size
    BY <2>1, Place, Zenon
  <2> QED
    BY <2>2, <2>3, Zenon
<1>4. [i \in 1 .. Len(ks) - t |-> d[(y + i - 1) % Size]]
          = [i \in 1 .. Len(ks) - t |-> ks[t + i]]
    BY <1>3, Zenon
<1> QED
    BY <1>2, <1>4, Zenon DEF RingOf, Behind

(* The ring holds what was kept and not taken, now ... *)
LEMMA RingIs ==
    ASSUME IInv
    PROVE  Ring = [i \in 1 .. Len(kept) - Len(taken) |-> kept[Len(taken) + i]]
<1>1. /\ kept \in Seq(Byte) /\ Len(taken) \in Nat
      /\ Len(kept) - Len(taken) \in 0 .. Size - 1
      /\ Stores(data, Len(taken), kept)
      /\ b = Len(taken) % Size /\ e = Len(kept) % Size
    BY LenProperties DEF IInv, TypeOK, Intact, Stores
<1>2. RingOf(data, e, b) = Behind(kept, Len(taken))
    BY <1>1, Holds, Zenon
<1> QED
    BY <1>2, Zenon DEF Ring, Behind

(* ... and after a step. *)
LEMMA RingIsThen ==
    ASSUME IInv'
    PROVE  Ring' = [i \in 1 .. Len(kept') - Len(taken') |-> kept'[Len(taken') + i]]
<1>1. /\ kept' \in Seq(Byte) /\ Len(taken') \in Nat
      /\ Len(kept') - Len(taken') \in 0 .. Size - 1
      /\ Stores(data', Len(taken'), kept')
      /\ b' = Len(taken') % Size /\ e' = Len(kept') % Size
    BY LenProperties DEF IInv, TypeOK, Intact, Stores
<1>2. RingOf(data', e', b') = Behind(kept', Len(taken'))
    BY <1>1, Holds, Zenon
<1> QED
    BY <1>2, Zenon DEF Ring, Behind

(* It takes a byte at its end, ...                                          *)
LEMMA KeepStep ==
    ASSUME IInv, IInv', RxByte
    PROVE  Queue!Keep \/ UNCHANGED <<Ring, taken>>
<1>1. CASE Avail = Size - 1 /\ UNCHANGED <<data, e, kept>>
    BY <1>1 DEF RxByte, Ring
<1>2. CASE Avail # Size - 1
  <2>1. PICK k \in Nat, t \in Nat : k = Len(kept) /\ t = Len(taken)
    BY AvailIs DEF IInv
  <2>2. k - t \in 0 .. Size - 2
    BY <1>2, <2>1, AvailIs, Sizes0 DEF IInv
  <2>3. PICK x \in Byte : kept' = Append(kept, x) /\ UNCHANGED taken
    <3>1. Head(fifo) \in Byte
      BY HeadTailProperties DEF RxByte, IInv, TypeOK
    <3> QED
      BY <1>2, <3>1 DEF RxByte
  <2>4. /\ kept \in Seq(Byte) /\ Len(kept') = k + 1 /\ kept'[k + 1] = x
        /\ \A i \in 1 .. k : kept'[i] = kept[i]
    BY <2>1, <2>3, AppendProperties DEF IInv, TypeOK
  <2>5. Ring = [i \in 1 .. k - t |-> kept[t + i]]
    BY <2>1, RingIs
  <2>6. Ring' = [i \in 1 .. k + 1 - t |-> kept'[t + i]]
    BY <2>1, <2>3, <2>4, RingIsThen
  <2>7. Ring \in Seq(Byte) /\ Len(Ring) = k - t
    <3>1. \A i \in 1 .. k - t : kept[t + i] \in Byte
      BY <2>1, <2>2, <2>4, ElementOfSeq, Sizes0
    <3>2. Ring \in [1 .. k - t -> Byte]
      BY <2>5, <3>1, Zenon
    <3> QED
      BY <2>2, <3>2, Sizes0
  <2>8. Ring' = Append(Ring, x)
    <3>1. DOMAIN Ring = 1 .. k - t /\ DOMAIN Append(Ring, x) = 1 .. k - t + 1
      BY <2>2, <2>5, <2>7, AppendProperties, Sizes0
    <3>2. ASSUME NEW i \in 1 .. k - t + 1
          PROVE  Append(Ring, x)[i] = kept'[t + i]
      <4>1. CASE i = k - t + 1
        <5>1. t + i = k + 1 /\ i = Len(Ring) + 1
          BY <2>1, <2>7, <4>1
        <5> QED
          BY <2>4, <2>7, <5>1, AppendProperties
      <4>2. CASE i # k - t + 1
        <5>1. i \in 1 .. k - t /\ t + i \in 1 .. k
          BY <2>1, <2>2, <3>2, <4>2, Sizes0
        <5>2. Append(Ring, x)[i] = Ring[i]
          BY <2>7, <5>1, AppendProperties
        <5> QED
          BY <2>4, <2>5, <5>1, <5>2
      <4> QED
        BY <4>1, <4>2
    <3>3. k - t + 1 = k + 1 - t
      BY <2>1
    <3>4. Append(Ring, x) = [i \in 1 .. k - t + 1 |-> Append(Ring, x)[i]]
      <4>1. Append(Ring, x) \in Seq(Byte) /\ Len(Append(Ring, x)) = k - t + 1
        BY <2>7, AppendProperties
      <4>2. Append(Ring, x) \in [1 .. k - t + 1 -> Byte]
        BY <4>1, LenProperties
      <4> QED
        BY <4>2, Zenon
    <3> QED
      BY <2>6, <3>2, <3>3, <3>4
  <2>9. Len(Ring) < Size - 1
    BY <2>1, <2>2, <2>7, Sizes0
  <2> QED
    BY <2>3, <2>8, <2>9 DEF Queue!Keep, Ring, RingOf, Avail
<1> QED
    BY <1>1, <1>2 DEF RxByte

(* ... gives them from its beginning ...                                    *)
LEMMA TakeStep ==
    ASSUME IInv, IInv', ReadCopy
    PROVE  Queue!Take
<1>1. PICK k \in Nat, t \in Nat : k = Len(kept) /\ t = Len(taken)
    BY AvailIs DEF IInv
<1>2. Avail = k - t /\ Avail \in 0 .. Size - 1 /\ Avail # 0
    BY <1>1, AvailIs DEF IInv, ReadCopy
<1>3. left \in Nat /\ left > 0
    BY DEF IInv, TypeOK, Lacks, ReadCopy
<1>4. PICK n \in 1 .. k - t : n = Less(Avail, left)
  <2>1. Avail \in Nat \ {0} /\ left \in Nat \ {0}
    BY <1>2, <1>3, Sizes0
  <2> QED
    BY <1>2, <2>1 DEF Less
<1>5. taken' = taken \o Copied(n) /\ UNCHANGED kept
    BY <1>4 DEF ReadCopy, Copied
<1>6. Ring = [i \in 1 .. k - t |-> kept[t + i]]
    BY <1>1, RingIs
<1>7. /\ Copied(n) \in Seq(Byte) /\ Len(Copied(n)) = n
      /\ \A i \in 1 .. n : Copied(n)[i] = kept[t + i]
    BY <1>1, <1>2, <1>4, CopiedIs DEF IInv
<1>8. Copied(n) = SubSeq(Ring, 1, n)
  <2>1. Copied(n) = [i \in 1 .. n |-> kept[t + i]]
    <3>1. Copied(n) \in [1 .. n -> Byte]
      BY <1>7, LenProperties
    <3>2. Copied(n) = [i \in 1 .. n |-> Copied(n)[i]]
      BY <3>1, Zenon
    <3> QED
      BY <1>7, <3>2, Zenon
  <2>2. SubSeq(Ring, 1, n) = [i \in 1 .. n |-> kept[t + i]]
    BY <1>1, <1>4, <1>6
  <2> QED
    BY <2>1, <2>2, Zenon
<1>9. Len(taken') = t + n
  <2>1. taken \in Seq(Byte \cup {None}) /\ Copied(n) \in Seq(Byte \cup {None})
    BY <1>7, SeqMonotonic DEF IInv, TypeOK
  <2>2. Len(taken \o Copied(n)) = Len(taken) + Len(Copied(n))
    BY <2>1, ConcatProperties
  <2> QED
    BY <1>1, <1>5, <1>7, <2>2
<1>10. Ring' = [i \in 1 .. k - (t + n) |-> kept[t + n + i]]
    BY <1>1, <1>5, <1>9, RingIsThen
<1>11. Ring' = SubSeq(Ring, n + 1, Len(Ring))
    BY <1>1, <1>4, <1>6, <1>10, SMTT(30)
<1>12. n \in 1 .. Len(Ring)
    BY <1>1, <1>4, <1>6
<1> QED
    BY <1>5, <1>8, <1>11, <1>12 DEF Queue!Take, Ring, RingOf, Avail

(* ... and does nothing else: the receive side is a bounded queue.          *)
THEOREM ReceivesAsQueue == Spec => IsQueue
<1>1. Init => Queue!Init
  <2> SUFFICES ASSUME Init
               PROVE  Queue!Init
    OBVIOUS
  <2>1. Avail = 0
    BY AvailZero, Sizes0 DEF Init
  <2>2. Ring = <<>>
    BY <2>1 DEF Ring, RingOf, Avail
  <2> QED
    BY <2>2 DEF Init, Queue!Init, Ring, RingOf, Avail
<1>2. IInv /\ IInv' /\ [Next]_vars
          => (Queue!Keep \/ Queue!Take \/ UNCHANGED <<Ring, taken>>)
  <2> SUFFICES ASSUME IInv, IInv', [Next]_vars
               PROVE  Queue!Keep \/ Queue!Take \/ UNCHANGED <<Ring, taken>>
    OBVIOUS
  <2>1. CASE RxByte
    BY <2>1, KeepStep
  <2>2. CASE ReadCopy
    BY <2>2, TakeStep
  <2>3. CASE UNCHANGED <<ring, taken>>
    BY <2>3 DEF ring, Ring
  <2>4. \/ RxByte \/ ReadCopy
        \/ UNCHANGED <<ring, taken>>
    BY DEF Next, Handles, Reads, ByteArrives, RxInterrupt, RxEnd, ReadStart,
           ReadNone, ReadGet, vars
  <2> QED
    BY <2>1, <2>2, <2>3, <2>4
<1>3. IInv /\ IInv' /\ [Next]_vars
          => [Queue!Keep \/ Queue!Take]_<<Ring, taken>>
    BY <1>2
<1> QED
    BY <1>1, <1>3, IInvHolds, PTL DEF Spec, IsQueue, Queue!Spec, Ring, RingOf, Avail

-----------------------------------------------------------------------------
(* Transmission: an inductive invariant. *)

(* What the host reads: filler, or a byte of a write, by its place. *)
TxByte == {Tx!Filler} \cup (Nat \X Nat \X WriteSizes)

(* Nothing of a write is missing behind p. *)
Over(p) == p = Tx!Filler \/ p[2] = p[3]

(* The bytes q come behind p. *)
Linked(p, q) ==
    /\ q # <<>> => Tx!Follows(p, q[1])
    /\ \A i \in 1 .. Len(q) - 1 : Tx!Follows(q[i], q[i + 1])

(* The byte sent last of p and, behind it, q. *)
Latest(p, q) == IF q = <<>> THEN p ELSE q[Len(q)]

(* The types. *)
TxTyped ==
    /\ tFifo \in Seq(TxByte) /\ tLast \in TxByte
    /\ tTxie \in BOOLEAN /\ tPtr \in BOOLEAN /\ tSem \in {0, 1}
    /\ tSize \in Nat /\ tIndex \in Nat /\ tWrites \in Nat
    /\ tIsr \in {"off", "loop", "tail"}
    /\ tWpc \in {"idle", "fill", "get", "asleep", "done"}

(* Whose turn it is: the buffer is the handler's while SPI1_Write waits,   *)
(* and nobody's while it does not.                                         *)
TxTurns ==
    /\ tTxie <=> tWpc # "fill"
    /\ tWpc \in {"idle", "done"} => ~tPtr /\ tSem = 0
    /\ tWpc = "fill" => tPtr /\ tSem = 0 /\ tIsr = "off"
    /\ tWpc = "get" => (tPtr <=> tSem = 0)
    /\ tWpc = "asleep" => tPtr /\ tSem = 0
    /\ tIsr = "loop" => tPtr
    /\ IF tPtr /\ tTxie
       THEN tStxisel = 3 /\ tSize \in WriteSizes /\ tIndex <= tSize
       ELSE tStxisel = 0 /\ Len(tFifo) < Fifo

(* What is in the fifo goes on from what was read, and the buffer from     *)
(* there.                                                                  *)
TxLinked ==
    /\ Linked(tLast, tFifo)
    /\ IF tPtr /\ tTxie /\ tIndex > 0
       THEN Latest(tLast, tFifo) = <<tWrites, tIndex, tSize>>
       ELSE Over(Latest(tLast, tFifo))

(* The inductive invariant of the transmitter. *)
TxInv == TxTyped /\ TxTurns /\ TxLinked /\ TxAnnounced

(* A byte behind the latest one of the fifo leaves it linked, ... *)
LEMMA LinkedAppend ==
    ASSUME NEW p \in TxByte, NEW q \in Seq(TxByte), NEW x \in TxByte,
           Linked(p, q), Tx!Follows(Latest(p, q), x)
    PROVE  /\ Append(q, x) \in Seq(TxByte) /\ Len(Append(q, x)) = Len(q) + 1
           /\ Linked(p, Append(q, x)) /\ Latest(p, Append(q, x)) = x
<1>1. PICK n \in Nat : n = Len(q) /\ DOMAIN q = 1 .. n
    BY LenProperties
<1>2. PICK r \in Seq(TxByte) :
         /\ r = Append(q, x) /\ r # <<>> /\ Len(r) = n + 1
         /\ \A i \in 1 .. n : r[i] = q[i]
         /\ r[n + 1] = x
    BY <1>1, AppendProperties
<1>3. q = <<>> <=> n = 0
    BY <1>1, EmptySeq
<1>4. Tx!Follows(p, r[1])
    BY <1>1, <1>2, <1>3 DEF Linked, Latest
<1>5. ASSUME NEW i \in 1 .. n
      PROVE  Tx!Follows(r[i], r[i + 1])
  <2>1. CASE i = n
    <3>1. Latest(p, q) = q[n]
        BY <1>1, <1>3 DEF Latest
    <3> QED
        BY <1>2, <2>1, <3>1
  <2>2. CASE i # n
    <3>1. i \in 1 .. n - 1 /\ i + 1 \in 1 .. n
        BY <2>2
    <3> QED
        BY <1>1, <1>2, <3>1 DEF Linked
  <2> QED
      BY <2>1, <2>2
<1> QED
    BY <1>1, <1>2, <1>4, <1>5 DEF Linked, Latest

(* ... and so does the oldest byte clocked out. *)
LEMMA LinkedTail ==
    ASSUME NEW p \in TxByte, NEW q \in Seq(TxByte), q # <<>>, Linked(p, q)
    PROVE  /\ Head(q) \in TxByte /\ Tail(q) \in Seq(TxByte)
           /\ Len(Tail(q)) = Len(q) - 1 /\ Len(q) \in Nat
           /\ Linked(Head(q), Tail(q))
           /\ Latest(Head(q), Tail(q)) = Latest(p, q)
<1>1. PICK n \in Nat : n = Len(q) /\ DOMAIN q = 1 .. n /\ n # 0
    BY LenProperties, EmptySeq
<1>2. PICK r \in Seq(TxByte) :
         /\ r = Tail(q) /\ Len(r) = n - 1
         /\ \A i \in 1 .. n - 1 : r[i] = q[i + 1]
         /\ Head(q) \in TxByte
    BY <1>1, HeadTailProperties
<1>3. 1 \in 1 .. n /\ Head(q) = q[1]
  <2>1. 1 \in 1 .. n
      BY <1>1
  <2>2. Head(q) = q[1]
      BY SMT
  <2> QED
      BY <2>1, <2>2
<1>4. r = <<>> <=> n = 1
  <2>1. r = <<>> <=> Len(r) = 0
      BY EmptySeq
  <2>2. Len(r) = n - 1
      BY <1>2
  <2> QED
      BY <2>1, <2>2
<1>5. r # <<>> => Tx!Follows(Head(q), r[1])
  <2>1. ASSUME n # 1
        PROVE  1 \in 1 .. n - 1 /\ r[1] = q[1 + 1]
      BY <1>1, <1>2, <2>1
  <2> QED
      BY <1>1, <1>3, <1>4, <2>1 DEF Linked
<1>6. ASSUME NEW i \in 1 .. (n - 1) - 1
      PROVE  Tx!Follows(r[i], r[i + 1])
  <2>1. i \in 1 .. n - 1 /\ i + 1 \in 1 .. n - 1
      OBVIOUS
  <2> QED
      BY <1>1, <1>2, <2>1 DEF Linked
<1>7. Latest(Head(q), r) = Latest(p, q)
  <2>1. n # 1 => r[n - 1] = q[n]
    <3>1. ASSUME n # 1
          PROVE  n - 1 \in 1 .. n - 1 /\ (n - 1) + 1 = n
        BY <1>1, <3>1
    <3> QED
        BY <1>2, <3>1
  <2> QED
      BY <1>1, <1>2, <1>3, <1>4, <2>1 DEF Latest
<1> QED
    BY <1>1, <1>2, <1>5, <1>6, <1>7 DEF Linked

(* No byte of a write is filler. *)
LEMMA NoFiller == \A w, i, n : <<w, i, n>> # Tx!Filler
BY DEF Tx!Filler

(* The invariant holds at first, ... *)
LEMMA TxInit == Tx!Init => TxInv
<1> SUFFICES ASSUME Tx!Init
             PROVE  TxInv
    OBVIOUS
<1>1. <<>> \in Seq(TxByte) /\ Len(<<>>) = 0
    BY EmptySeq
<1>2. TxTyped
    BY <1>1 DEF Tx!Init, TxTyped, TxByte
<1>3. TxTurns
    BY <1>1, Spi1ReceiveAssumption DEF Tx!Init, TxTurns
<1>4. TxLinked
    BY <1>1 DEF Tx!Init, TxLinked, Linked, Latest, Over
<1>5. TxAnnounced
    BY DEF Tx!Init, TxAnnounced, Tx!Announced
<1> QED
    BY <1>2, <1>3, <1>4, <1>5 DEF TxInv

(* ... every step keeps it, ... *)
LEMMA TxStep == TxInv /\ [Tx!Next]_Tx!vars => TxInv'
<1> SUFFICES ASSUME TxInv, [Tx!Next]_Tx!vars
             PROVE  TxInv'
    OBVIOUS
<1> USE DEF Tx!buf, Tx!host
<1>1. CASE UNCHANGED Tx!vars
    BY <1>1
    DEF TxInv, TxTyped, TxTurns, TxLinked, TxAnnounced, Tx!Announced,
        Tx!Raised, Tx!vars
<1>2. CASE Tx!WriteStart
  <2>1. /\ tWpc = "idle" /\ tWpc' = "fill" /\ tIsr' = tIsr /\ tSem' = tSem
        /\ tPtr' = TRUE /\ tTxie' = FALSE /\ tStxisel' = tStxisel
        /\ tFifo' = tFifo /\ tLast' = tLast /\ tSize' = tSize
        /\ tIndex' = tIndex /\ tWrites' = tWrites + 1
      BY <1>2 DEF Tx!WriteStart
  <2>4. tWrites + 1 \in Nat
      BY DEF TxInv, TxTyped
  <2>5. TxTyped'
      BY <2>1, <2>4, Zenon DEF TxInv, TxTyped
  <2>6. /\ ~tPtr /\ tSem = 0 /\ tIsr = "off" /\ tStxisel = 0
        /\ Len(tFifo) < Fifo
      BY <1>2 DEF TxInv, TxTurns, Tx!WriteStart
  <2>7. TxTurns'
      BY <2>1, <2>6, Zenon DEF TxTurns
  <2>2. TxLinked'
      BY <1>2 DEF TxInv, TxTurns, TxLinked, Tx!WriteStart
  <2>3. TxAnnounced'
      BY <1>2 DEF TxAnnounced, Tx!Announced, Tx!WriteStart
  <2> QED
      BY <2>5, <2>7, <2>2, <2>3 DEF TxInv
<1>3. CASE Tx!WriteFill
  <2>1. TxTyped' /\ TxTurns'
      BY <1>3, TransmitAssumption
      DEF TxInv, TxTyped, TxTurns, Tx!WriteFill
  <2>2. TxLinked'
      BY <1>3 DEF TxInv, TxTurns, TxLinked, Tx!WriteFill
  <2>3. Len(tFifo) < Fifo
      BY <1>3 DEF TxInv, TxTurns, Tx!WriteFill
  <2>4. TxAnnounced'
      BY <1>3, <2>3 DEF TxAnnounced, Tx!Announced, Tx!Raised, Tx!WriteFill
  <2> QED
      BY <2>1, <2>2, <2>4 DEF TxInv
<1>4. CASE Tx!WriteGet
  <2>1. TxTyped' /\ TxTurns'
      BY <1>4 DEF TxInv, TxTyped, TxTurns, Tx!WriteGet
  <2>2. TxLinked' /\ TxAnnounced'
      BY <1>4
      DEF TxInv, TxLinked, TxAnnounced, Tx!Announced, Tx!Raised, Tx!WriteGet
  <2> QED
      BY <2>1, <2>2 DEF TxInv
<1>5. CASE Tx!WriteReturn
  <2>1. TxTyped' /\ TxTurns'
      BY <1>5 DEF TxInv, TxTyped, TxTurns, Tx!WriteReturn
  <2>2. TxLinked' /\ TxAnnounced'
      BY <1>5
      DEF TxInv, TxTurns, TxLinked, TxAnnounced, Tx!Announced, Tx!WriteReturn
  <2> QED
      BY <2>1, <2>2 DEF TxInv
<1>6. CASE Tx!TxFiller
  <2>1. Tx!Follows(Latest(tLast, tFifo), Tx!Filler)
      BY <1>6 DEF TxInv, TxLinked, Over, Tx!Follows, Tx!TxFiller
  <2>2. Tx!Filler \in TxByte
      BY DEF TxByte
  <2>3. /\ tFifo' \in Seq(TxByte) /\ Len(tFifo') = Len(tFifo) + 1
        /\ Linked(tLast, tFifo') /\ Latest(tLast, tFifo') = Tx!Filler
      BY <1>6, <2>1, <2>2, LinkedAppend
      DEF TxInv, TxTyped, TxLinked, Tx!TxFiller
  <2>4. Len(tFifo) = 0
    <3>1. tFifo = <<>>
        BY <1>6 DEF TxInv, TxTurns, Tx!TxFiller, Tx!Raised
    <3> QED
        BY <3>1, EmptySeq
  <2>5. TxTyped' /\ TxTurns'
      BY <1>6, <2>3, <2>4, TransmitAssumption, Spi1ReceiveAssumption
      DEF TxInv, TxTyped, TxTurns, Tx!TxFiller
  <2>6. TxLinked' /\ TxAnnounced'
      BY <1>6, <2>3
      DEF TxLinked, Over, TxAnnounced, Tx!Announced, Tx!TxFiller
  <2> QED
      BY <2>5, <2>6 DEF TxInv
<1>7. CASE Tx!TxInterrupt
  <2>1. TxTyped' /\ TxTurns'
      BY <1>7 DEF TxInv, TxTyped, TxTurns, Tx!TxInterrupt, Tx!Raised
  <2>2. TxLinked' /\ TxAnnounced'
      BY <1>7
      DEF TxInv, TxLinked, TxAnnounced, Tx!Announced, Tx!TxInterrupt
  <2> QED
      BY <2>1, <2>2 DEF TxInv
<1>8. CASE Tx!TxLoad
  <2>1. /\ tPtr /\ tTxie /\ tSize \in WriteSizes /\ tStxisel = 3
        /\ tWrites \in Nat /\ tIndex \in Nat /\ tSize \in Nat /\ tIndex < tSize
      BY <1>8 DEF TxInv, TxTyped, TxTurns, Tx!TxLoad
  <2>2. PICK x : x = <<tWrites, tIndex + 1, tSize>>
      OBVIOUS
  <2>3. x \in TxByte
      BY <2>1, <2>2 DEF TxByte
  <2>4. Tx!Follows(Latest(tLast, tFifo), x)
    <3>1. CASE tIndex = 0
        BY <2>1, <2>2, <3>1 DEF TxInv, TxLinked, Over, Tx!Follows
    <3>2. CASE tIndex # 0
        BY <2>1, <2>2, <3>2, NoFiller DEF TxInv, TxLinked, Tx!Follows
    <3> QED
        BY <3>1, <3>2
  <2>5. /\ tFifo' \in Seq(TxByte)
        /\ Linked(tLast, tFifo') /\ Latest(tLast, tFifo') = x
      BY <1>8, <2>2, <2>3, <2>4, LinkedAppend
      DEF TxInv, TxTyped, TxLinked, Tx!TxLoad
  <2>6. TxTyped' /\ TxTurns'
      BY <1>8, <2>1, <2>5 DEF TxInv, TxTyped, TxTurns, Tx!TxLoad
  <2>7. TxLinked' /\ TxAnnounced'
      BY <1>8, <2>1, <2>2, <2>5
      DEF TxLinked, TxAnnounced, Tx!Announced, Tx!TxLoad
  <2> QED
      BY <2>6, <2>7 DEF TxInv
<1>9. CASE Tx!TxEnd
  <2>1. /\ tPtr /\ tTxie /\ tSize \in WriteSizes /\ tWpc \in {"get", "asleep"}
        /\ tIndex = tSize /\ tIndex > 0
      BY <1>9, TransmitAssumption DEF TxInv, TxTyped, TxTurns, Tx!TxEnd
  <2>2. TxTyped' /\ TxTurns'
    <3>1. CASE tWpc = "get"
      <4>1. /\ tWpc' = "get" /\ tSem' = 1 /\ tPtr' = FALSE
            /\ tIsr' = "tail" /\ tStxisel' = 0 /\ tTxie' = tTxie
            /\ tFifo' = tFifo /\ tLast' = tLast /\ tSize' = tSize
            /\ tIndex' = tIndex /\ tWrites' = tWrites
            /\ Len(tFifo) < Fifo /\ tSem' # 0
          BY <1>9, <3>1 DEF Tx!TxEnd, Tx!PutTx
      <4>2. TxTyped'
          BY <4>1, Zenon DEF TxInv, TxTyped
      <4>3. TxTurns'
          BY <2>1, <4>1, Zenon DEF TxTurns
      <4> QED
          BY <4>2, <4>3
    <3>2. CASE tWpc = "asleep"
        BY <1>9, <2>1, <3>2
        DEF TxInv, TxTyped, TxTurns, Tx!TxEnd, Tx!PutTx
    <3> QED
        BY <2>1, <3>1, <3>2
  <2>3. TxLinked' /\ TxAnnounced'
      BY <1>9, <2>1
      DEF TxInv, TxLinked, Over, TxAnnounced, Tx!Announced, Tx!TxEnd
  <2> QED
      BY <2>2, <2>3 DEF TxInv
<1>10. CASE Tx!TxFull
  <2>1. TxTyped' /\ TxTurns'
      BY <1>10 DEF TxInv, TxTyped, TxTurns, Tx!TxFull
  <2>2. TxLinked' /\ TxAnnounced'
      BY <1>10 DEF TxInv, TxLinked, TxAnnounced, Tx!Announced, Tx!TxFull
  <2> QED
      BY <2>1, <2>2 DEF TxInv
<1>11. CASE Tx!TxTail
  <2>1. TxTyped' /\ TxTurns'
      BY <1>11 DEF TxInv, TxTyped, TxTurns, Tx!TxTail
  <2>2. TxLinked' /\ TxAnnounced'
      BY <1>11 DEF TxInv, TxLinked, TxAnnounced, Tx!Announced, Tx!TxTail
  <2> QED
      BY <2>1, <2>2 DEF TxInv
<1>12. CASE Tx!CSHandler
  <2>1. TxTyped' /\ TxTurns'
      BY <1>12 DEF TxInv, TxTyped, TxTurns, Tx!CSHandler
  <2>2. TxLinked'
      BY <1>12 DEF TxInv, TxLinked, Tx!CSHandler
  <2>3. TxAnnounced'
    <3>1. /\ tPtr' = tPtr /\ tIndex' = tIndex /\ tSize' = tSize
          /\ tCs' = tCs
          /\ tLine' = (tLine \/ (tCs = Tx!High /\ tPtr /\ tSize # tIndex))
        BY <1>12 DEF Tx!CSHandler
    <3>2. tIndex < tSize => tSize # tIndex
        BY DEF TxInv, TxTyped
    <3>3. tIndex' < tSize' => tIndex < tSize
        BY <3>1
    <3> QED
        BY <3>1, <3>2, <3>3, Zenon DEF TxAnnounced, Tx!Announced
  <2> QED
      BY <2>1, <2>2, <2>3 DEF TxInv
<1>13. CASE Tx!Select \/ Tx!Deselect
  <2>1. TxTyped' /\ TxTurns'
      BY <1>13 DEF TxInv, TxTyped, TxTurns, Tx!Select, Tx!Deselect
  <2>2. TxLinked' /\ TxAnnounced'
      BY <1>13
      DEF TxInv, TxLinked, TxAnnounced, Tx!Announced, Tx!Select, Tx!Deselect
  <2> QED
      BY <2>1, <2>2 DEF TxInv
<1>14. CASE Tx!Clock
  <2>1. /\ tFifo # <<>> /\ tLast' = Head(tFifo) /\ tFifo' = Tail(tFifo)
        /\ tCs' = Tx!Low
      BY <1>14 DEF Tx!Clock
  <2>2. /\ tLast' \in TxByte /\ tFifo' \in Seq(TxByte)
        /\ Len(tFifo') = Len(tFifo) - 1 /\ Len(tFifo) \in Nat
        /\ Linked(tLast', tFifo')
        /\ Latest(tLast', tFifo') = Latest(tLast, tFifo)
      BY <2>1, LinkedTail DEF TxInv, TxTyped, TxLinked
  <2>3. TxTyped' /\ TxTurns'
      BY <1>14, <2>2, Spi1ReceiveAssumption
      DEF TxInv, TxTyped, TxTurns, Tx!Clock
  <2>4. TxLinked'
      BY <1>14, <2>2 DEF TxInv, TxLinked, Over, Tx!Clock
  <2>5. TxAnnounced'
      BY <2>1 DEF TxAnnounced, Tx!Announced, Tx!Low, Tx!High
  <2> QED
      BY <2>3, <2>4, <2>5 DEF TxInv
<1> QED
    BY <1>1, <1>2, <1>3, <1>4, <1>5, <1>6, <1>7, <1>8, <1>9, <1>10, <1>11,
       <1>12, <1>13, <1>14
    DEF Tx!Next, Tx!Writes, Tx!Handles

(* ... so it always holds. *)
LEMMA TxInvHolds == DriverSpec => []TxInv
<1>1. DriverInit => TxInv
    BY TxInit DEF DriverInit
<1>2. TxInv /\ [DriverNext]_driver => TxInv'
  <2> SUFFICES ASSUME TxInv, [DriverNext]_driver
               PROVE  [Tx!Next]_Tx!vars
      BY TxStep
  <2>1. UNCHANGED tx => UNCHANGED Tx!vars
      BY DEF tx, Tx!vars, Tx!buf, Tx!host
  <2> QED
      BY <2>1 DEF DriverNext, Receiving, Transmitting, driver
<1> QED
    BY <1>1, <1>2, PTL DEF DriverSpec

(* Behind a byte that the host has read or will read comes the next of the *)
(* same write, with no filler between, up to its last (_spi1_tx_handler).  *)
THEOREM TxWholeHolds == DriverSpec => []TxWhole
<1>1. TxInv => TxWhole
  <2> SUFFICES ASSUME TxInv
               PROVE  Tx!Whole
      BY DEF TxWhole
  <2>1. PICK n \in Nat : n = Len(tFifo) /\ DOMAIN tFifo = 1 .. n
      BY LenProperties DEF TxInv, TxTyped
  <2>2. PICK s : s = <<tLast>> \o tFifo
      OBVIOUS
  <2>3. /\ Len(s) = n + 1 /\ s[1] = tLast
        /\ \A i \in 1 .. n : s[i + 1] = tFifo[i]
    <3>1. <<tLast>> \in Seq(TxByte) /\ Len(<<tLast>>) = 1 /\ <<tLast>>[1] = tLast
        BY DEF TxInv, TxTyped
    <3>2. /\ Len(s) = 1 + n
          /\ \A i \in 1 .. 1 + n :
                s[i] = IF i <= 1 THEN <<tLast>>[i] ELSE tFifo[i - 1]
        BY <2>1, <2>2, <3>1, ConcatProperties DEF TxInv, TxTyped
    <3> QED
        BY <3>1, <3>2
  <2>4. Latest(tLast, tFifo) = s[n + 1]
    <3>1. tFifo = <<>> <=> n = 0
        BY <2>1, EmptySeq DEF TxInv, TxTyped
    <3> QED
        BY <2>1, <2>3, <3>1 DEF Latest
  <2>5. ASSUME NEW i \in 1 .. n
        PROVE  Tx!Follows(s[i], s[i + 1])
    <3>1. CASE i = 1
      <4>1. tFifo # <<>>
          BY <2>1, EmptySeq
      <4> QED
          BY <2>3, <3>1, <4>1 DEF TxInv, TxLinked, Linked
    <3>2. CASE i # 1
      <4>1. i - 1 \in 1 .. n - 1 /\ i - 1 \in 1 .. n /\ (i - 1) + 1 = i
          BY <3>2
      <4> QED
          BY <2>1, <2>3, <4>1 DEF TxInv, TxLinked, Linked
    <3> QED
        BY <3>1, <3>2
  <2>6. s[n + 1] # Tx!Filler /\ s[n + 1][2] < s[n + 1][3] =>
           tPtr /\ tTxie /\ s[n + 1] = <<tWrites, tIndex, tSize>>
    <3>1. s[n + 1] \in TxByte
      <4>1. Latest(tLast, tFifo) \in TxByte
          BY <2>1, EmptySeq, ElementOfSeq DEF TxInv, TxTyped, Latest
      <4> QED
          BY <2>4, <4>1
    <3>2. Over(s[n + 1]) => ~ (s[n + 1] # Tx!Filler /\ s[n + 1][2] < s[n + 1][3])
        BY <3>1, TransmitAssumption DEF Over, TxByte
    <3> QED
        BY <2>4, <3>2 DEF TxInv, TxLinked
  <2> QED
      BY <2>2, <2>3, <2>5, <2>6, SMTT(30) DEF Tx!Whole
<1> QED
    BY <1>1, TxInvHolds, PTL

(* While bytes of a write are left in the buffer, the device is not        *)
(* selected and no interrupt is outstanding, the host is asked to read     *)
(* (_spi1_tx_handler, SPI1_CS_Handler).                                    *)
THEOREM TxAnnouncedHolds == DriverSpec => []TxAnnounced
<1>1. TxInv => TxAnnounced
    BY DEF TxInv
<1> QED
    BY <1>1, TxInvHolds, PTL
=============================================================================
