----------------------------- MODULE IngressProofs -----------------------------
(***************************************************************************)
(* Proofs about Handshake and Ingress: what the parser makes of the packet *)
(* that a client writes, whatever its host and its version; and that a     *)
(* connection is routed by it and nothing of its stream is lost, whatever  *)
(* the pieces it comes in.                                                 *)
(***************************************************************************)
EXTENDS Ingress, Integers, WellFoundedInduction, SequenceTheorems, TLAPS

(***************************************************************************)
(* Induction, in terms of sets.                                            *)
(***************************************************************************)
\* A set of numbers that is not empty has a least one.
LEMMA LeastNumber ==
  ASSUME NEW S, S \subseteq Nat, S # {}
  PROVE  \E m \in S : \A k \in S : m <= k
<1>1. IsWellFoundedOn(OpToRel(<, Nat), Nat)
  BY NatLessThanWellFounded
<1>2. \E x \in S : \A y \in S : ~(<<y, x>> \in OpToRel(<, Nat))
  BY <1>1, WFMin, Zenon
<1>3. \A x, y \in Nat : x < y => <<x, y>> \in OpToRel(<, Nat)
  BY Zenon DEF OpToRel
<1>4. \E R : /\ \E x \in S : \A y \in S : ~(<<y, x>> \in R)
             /\ \A x, y \in Nat : x < y => <<x, y>> \in R
  BY <1>2, <1>3, Zenon
<1>5. PICK R : /\ \E x \in S : \A y \in S : ~(<<y, x>> \in R)
               /\ \A x, y \in Nat : x < y => <<x, y>> \in R
  BY <1>4, Zenon
<1>6. PICK x \in S : \A y \in S : ~(<<y, x>> \in R)
  BY <1>5, Zenon
<1>7. \A k \in S : k \in Nat /\ x \in Nat /\ ~(k < x)
  BY <1>5, <1>6, Zenon
<1> QED
  BY <1>7, SMT

\* A set that holds 0 and the successor of what it holds, holds every number.
LEMMA Induction ==
  ASSUME NEW S, 0 \in S, \A n \in Nat : n \in S => n + 1 \in S
  PROVE  \A n \in Nat : n \in S
<1> SUFFICES ASSUME Nat \ S # {}
             PROVE  FALSE
  OBVIOUS
<1>1. PICK m \in Nat \ S : \A k \in Nat \ S : m <= k
  BY LeastNumber
<1>2. m # 0 /\ m - 1 \in Nat /\ m - 1 \notin Nat \ S
  BY <1>1
<1> QED
  BY <1>1, <1>2

\* A set that holds every number all smaller numbers of which it holds.
LEMMA StrongInduction ==
  ASSUME NEW S, \A n \in Nat : (\A m \in Nat : m < n => m \in S) => n \in S
  PROVE  \A n \in Nat : n \in S
<1> SUFFICES ASSUME Nat \ S # {}
             PROVE  FALSE
  OBVIOUS
<1>1. PICK m \in Nat \ S : \A k \in Nat \ S : m <= k
  BY LeastNumber
<1>2. \A k \in Nat : k < m => k \in S
  BY <1>1
<1> QED
  BY <1>1, <1>2

(***************************************************************************)
(* Digits.                                                                 *)
(***************************************************************************)
\* Division leaves a digit and, of a number that needs more digits, less.
LEMMA Division ==
  ASSUME NEW n \in Nat
  PROVE  /\ n \div Base \in Nat
         /\ n % Base \in 0..(Base - 1)
         /\ n = Base * (n \div Base) + (n % Base)
         /\ n >= Base => n \div Base < n
<1>1. /\ n \div Base \in Int
      /\ n % Base \in 0..(Base - 1)
      /\ n = Base * (n \div Base) + (n % Base)
  BY ByteAssumption
<1>2. n \div Base >= 0
  <2>1. CASE n \div Base < 0
    <3>1. Base * (n \div Base) <= Base * (-1)
      BY <2>1, <1>1, ByteAssumption
    <3> QED
      BY <3>1, <1>1, ByteAssumption
  <2> QED
    BY <2>1, <1>1
<1>3. Base * (n \div Base) >= 2 * (n \div Base)
  BY <1>1, <1>2, ByteAssumption
<1>4. n >= Base => n \div Base < n
  BY <1>1, <1>2, <1>3, ByteAssumption
<1> QED
  BY <1>1, <1>2, <1>4

\* A byte carries a digit.
LEMMA DigitType ==
  ASSUME NEW b \in Byte
  PROVE  b \in Nat /\ b % Base \in 0..(Base - 1)
BY ByteAssumption DEF Byte

\* The digit of a byte, with and without the continuation bit.
LEMMA Digit ==
  ASSUME NEW r \in 0..(Base - 1)
  PROVE  r % Base = r /\ (r + Base) % Base = r
BY ByteAssumption

(***************************************************************************)
(* ValueOf.                                                                *)
(***************************************************************************)
\* The places of bytes from each of which f gives the value of what follows.
IsFrom(f, bytes) ==
    f = [k \in 1..(Len(bytes) + 1) |->
            IF k > Len(bytes) THEN 0 ELSE (bytes[k] % Base) + Base * f[k + 1]]

\* There is such a function, and its values are numbers.
LEMMA FromExists ==
  ASSUME NEW bytes \in Seq(Byte)
  PROVE  \E f \in [1..(Len(bytes) + 1) -> Nat] : IsFrom(f, bytes)
<1> DEFINE n == Len(bytes)
           S == {j \in Nat : j <= n =>
                   \E f \in [(n + 1 - j)..(n + 1) -> Nat] :
                      \A k \in (n + 1 - j)..(n + 1) :
                         f[k] = IF k > n THEN 0 ELSE (bytes[k] % Base) + Base * f[k + 1]}
<1>1. 0 \in S
  <2> DEFINE f == [k \in (n + 1)..(n + 1) |-> 0]
  <2>1. /\ f \in [(n + 1 - 0)..(n + 1) -> Nat]
        /\ \A k \in (n + 1 - 0)..(n + 1) :
              f[k] = IF k > n THEN 0 ELSE (bytes[k] % Base) + Base * f[k + 1]
    OBVIOUS
  <2> QED
    BY <2>1
<1>2. ASSUME NEW j \in Nat, j \in S
      PROVE  j + 1 \in S
  <2> SUFFICES ASSUME j + 1 <= n
               PROVE  \E f \in [(n - j)..(n + 1) -> Nat] : \A k \in (n - j)..(n + 1) :
                         f[k] = IF k > n THEN 0 ELSE (bytes[k] % Base) + Base * f[k + 1]
    OBVIOUS
  <2>1. PICK g \in [(n + 1 - j)..(n + 1) -> Nat] : \A k \in (n + 1 - j)..(n + 1) :
           g[k] = IF k > n THEN 0 ELSE (bytes[k] % Base) + Base * g[k + 1]
    BY <1>2
  <2>2. bytes[n - j] \in Byte /\ bytes[n - j] % Base \in Nat
    <3>1. n - j \in 1..Len(bytes)
      OBVIOUS
    <3>2. bytes[n - j] \in Byte
      BY <3>1, ElementOfSeq
    <3> QED
      BY <3>2, DigitType
  <2>3. g[n - j + 1] \in Nat /\ Base * g[n - j + 1] \in Nat
    BY ByteAssumption
  <2> DEFINE v == (bytes[n - j] % Base) + Base * g[n - j + 1]
             f == [k \in (n - j)..(n + 1) |-> IF k = n - j THEN v ELSE g[k]]
  <2>4. v \in Nat
    BY <2>2, <2>3
  <2>5. f \in [(n - j)..(n + 1) -> Nat]
    BY <2>4
  <2>6. \A k \in (n + 1 - j)..(n + 1) : f[k] = g[k] /\ (k <= n => f[k + 1] = g[k + 1])
    OBVIOUS
  <2>7. f[n - j] = v /\ f[n - j + 1] = g[n - j + 1]
    OBVIOUS
  <2> HIDE DEF f, v
  <2>8. ASSUME NEW k \in (n - j)..(n + 1)
        PROVE  f[k] = IF k > n THEN 0 ELSE (bytes[k] % Base) + Base * f[k + 1]
    <3>1. CASE k = n - j
      BY <3>1, <2>7 DEF v
    <3>2. CASE k # n - j
      <4>1. k \in (n + 1 - j)..(n + 1)
        BY <3>2, <2>1
      <4>2. f[k] = g[k] /\ (k <= n => f[k + 1] = g[k + 1])
        BY <4>1, <2>6
      <4>3. g[k] = IF k > n THEN 0 ELSE (bytes[k] % Base) + Base * g[k + 1]
        BY <4>1, <2>1
      <4>4. CASE k > n
        BY <4>2, <4>3, <4>4, Zenon
      <4>5. CASE ~(k > n)
        <5>1. k <= n
          BY <4>1, <4>5
        <5> QED
          BY <4>2, <4>3, <4>5, <5>1, Zenon
      <4> QED
        BY <4>4, <4>5
    <3> QED
      BY <3>1, <3>2
  <2> QED
    BY <2>5, <2>8
<1> HIDE DEF S
<1>3. n \in S
  BY <1>1, <1>2, Induction
<1>4. PICK f \in [1..(n + 1) -> Nat] : \A k \in 1..(n + 1) :
         f[k] = IF k > n THEN 0 ELSE (bytes[k] % Base) + Base * f[k + 1]
  BY <1>3 DEF S
<1>5. IsFrom(f, bytes)
  BY <1>4 DEF IsFrom
<1> QED
  BY <1>5

\* There is only one.
LEMMA FromUnique ==
  ASSUME NEW bytes \in Seq(Byte), NEW f, NEW g, IsFrom(f, bytes), IsFrom(g, bytes)
  PROVE  f = g
<1> DEFINE n == Len(bytes)
           S == {j \in Nat : j <= n => f[n + 1 - j] = g[n + 1 - j]}
<1>1. \A k \in 1..(n + 1) :
         /\ f[k] = IF k > n THEN 0 ELSE (bytes[k] % Base) + Base * f[k + 1]
         /\ g[k] = IF k > n THEN 0 ELSE (bytes[k] % Base) + Base * g[k + 1]
  BY DEF IsFrom
<1>2. 0 \in S
  BY <1>1
<1>3. ASSUME NEW j \in Nat, j \in S
      PROVE  j + 1 \in S
  <2>1. CASE j + 1 <= n
    <3>1. f[n - j] = (bytes[n - j] % Base) + Base * f[n - j + 1]
      BY <1>1, <2>1
    <3>2. g[n - j] = (bytes[n - j] % Base) + Base * g[n - j + 1]
      BY <1>1, <2>1
    <3>3. f[n - j + 1] = g[n - j + 1]
      BY <1>3, <2>1
    <3> QED
      BY <3>1, <3>2, <3>3
  <2> QED
    BY <2>1
<1>4. \A j \in Nat : j \in S
  <2> HIDE DEF S
  <2> QED
    BY <1>2, <1>3, Induction
<1>5. ASSUME NEW k \in 1..(n + 1)
      PROVE  f[k] = g[k]
  <2>1. CASE k = n + 1
    BY <2>1, <1>1
  <2>2. CASE k <= n
    <3>1. n + 1 - k \in S
      BY <2>2, <1>4
    <3> QED
      BY <3>1, <2>2
  <2> QED
    BY <2>1, <2>2
<1> HIDE DEF n
<1> QED
  BY <1>5 DEF IsFrom, n

\* So that the value is the first of any such function.
LEMMA ValueIs ==
  ASSUME NEW bytes \in Seq(Byte), NEW f, IsFrom(f, bytes)
  PROVE  ValueOf(bytes) = f[1]
<1> DEFINE g == CHOOSE g : IsFrom(g, bytes)
<1>1. ValueOf(bytes) = g[1]
  BY DEF ValueOf, IsFrom
<1>2. IsFrom(g, bytes)
  OBVIOUS
<1> QED
  BY <1>1, <1>2, FromUnique

\* A value is a number.
LEMMA ValueType ==
  ASSUME NEW bytes \in Seq(Byte)
  PROVE  ValueOf(bytes) \in Nat
<1>1. PICK f \in [1..(Len(bytes) + 1) -> Nat] : IsFrom(f, bytes)
  BY FromExists
<1>2. f[1] \in Nat
  OBVIOUS
<1> QED
  BY <1>1, <1>2, ValueIs

\* One byte is worth its digit.
LEMMA ValueOfOne ==
  ASSUME NEW b \in Byte
  PROVE  ValueOf(<<b>>) = b % Base
<1> DEFINE f == [k \in 1..2 |-> IF k = 2 THEN 0 ELSE b % Base]
<1>1. IsFrom(f, <<b>>)
  <2>1. b % Base \in Nat /\ Base * 0 = 0
    BY DigitType, ByteAssumption
  <2>2. ASSUME NEW k \in 1..2
        PROVE  f[k] = IF k > 1 THEN 0 ELSE (<<b>>[k] % Base) + Base * f[k + 1]
    BY <2>1
  <2> QED
    BY <2>2 DEF IsFrom
<1>2. f[1] = b % Base
  OBVIOUS
<1>3. <<b>> \in Seq(Byte)
  OBVIOUS
<1> HIDE DEF f
<1> QED
  BY <1>1, <1>2, <1>3, ValueIs

\* The first byte is the lowest digit.
LEMMA ValueOfMore ==
  ASSUME NEW b \in Byte, NEW bytes \in Seq(Byte)
  PROVE  ValueOf(<<b>> \o bytes) = (b % Base) + Base * ValueOf(bytes)
<1> DEFINE n == Len(bytes)
           all == <<b>> \o bytes
<1>1. PICK f \in [1..(n + 1) -> Nat] : IsFrom(f, bytes)
  BY FromExists
<1>2. /\ all \in Seq(Byte) /\ Len(all) = n + 1
      /\ all[1] = b /\ \A k \in 1..n : all[k + 1] = bytes[k]
  OBVIOUS
<1> DEFINE v == (b % Base) + Base * f[1]
           g == [k \in 1..(n + 2) |-> IF k = 1 THEN v ELSE f[k - 1]]
<1>3. \A k \in 1..(n + 1) : f[k] = IF k > n THEN 0 ELSE (bytes[k] % Base) + Base * f[k + 1]
  BY <1>1 DEF IsFrom
<1>4. g[1] = v /\ \A k \in 1..(n + 1) : g[k + 1] = f[k]
  OBVIOUS
<1>5. ASSUME NEW k \in 1..(n + 2)
      PROVE  g[k] = IF k > n + 1 THEN 0 ELSE (all[k] % Base) + Base * g[k + 1]
  <2> HIDE DEF g, all
  <2>1. CASE k = 1
    BY <2>1, <1>2, <1>4
  <2>2. CASE k # 1
    <3>1. PICK i \in 1..(n + 1) : k = i + 1
      BY <2>2
    <3>2. CASE i = n + 1
      BY <3>1, <3>2, <1>3, <1>4
    <3>3. CASE i <= n
      <4>1. g[k] = f[i] /\ g[k + 1] = f[i + 1] /\ all[k] = bytes[i]
        BY <3>1, <3>3, <1>2, <1>4
      <4>2. f[i] = (bytes[i] % Base) + Base * f[i + 1]
        BY <3>3, <1>3
      <4> QED
        BY <3>1, <3>3, <4>1, <4>2
    <3> QED
      BY <3>2, <3>3
  <2> QED
    BY <2>1, <2>2
<1>6. IsFrom(g, all)
  <2>1. g = [k \in DOMAIN g |-> g[k]] /\ DOMAIN g = 1..(Len(all) + 1)
    BY <1>2
  <2> HIDE DEF g, all
  <2>2. \A k \in 1..(Len(all) + 1) :
           g[k] = IF k > Len(all) THEN 0 ELSE (all[k] % Base) + Base * g[k + 1]
    BY <1>2, <1>5
  <2> QED
    BY <2>1, <2>2 DEF IsFrom
<1>7. ValueOf(all) = g[1]
  <2> HIDE DEF g, all
  <2> QED
    BY <1>6, <1>2, ValueIs
<1>8. ValueOf(bytes) = f[1]
  BY <1>1, ValueIs
<1> QED
  BY <1>4, <1>7, <1>8

(***************************************************************************)
(* EncodeVarInt.                                                           *)
(***************************************************************************)
\* One step of the recursion.
EncodeStep(f, n) ==
    IF n < Base THEN <<n>> ELSE <<(n % Base) + Base>> \o f[n \div Base]

\* Encodings of the numbers up to m.
EncodesTo(f, m) ==
    f \in [0..m -> Seq(Byte)] /\ \A k \in 0..m : f[k] = EncodeStep(f, k)

\* A step looks at smaller numbers only.
LEMMA EncodeStepLocal ==
  ASSUME NEW n \in Nat, NEW f, NEW g, \A k \in Nat : k < n => f[k] = g[k]
  PROVE  EncodeStep(f, n) = EncodeStep(g, n)
<1>1. CASE n < Base
  BY <1>1 DEF EncodeStep
<1>2. CASE n >= Base
  <2>1. n \div Base \in Nat /\ n \div Base < n
    BY <1>2, Division
  <2>2. f[n \div Base] = g[n \div Base]
    BY <2>1
  <2> QED
    BY <2>2 DEF EncodeStep
<1> QED
  BY <1>1, <1>2, ByteAssumption

\* A step makes bytes of bytes.
LEMMA EncodeStepType ==
  ASSUME NEW n \in Nat, NEW f, \A k \in Nat : k < n => f[k] \in Seq(Byte)
  PROVE  EncodeStep(f, n) \in Seq(Byte)
<1>1. CASE n < Base
  <2>1. n \in Byte
    BY <1>1, ByteAssumption DEF Byte
  <2> QED
    BY <1>1, <2>1 DEF EncodeStep
<1>2. CASE n >= Base
  <2>1. n \div Base \in Nat /\ n \div Base < n /\ n % Base \in 0..(Base - 1)
    BY <1>2, Division
  <2>2. (n % Base) + Base \in Byte /\ ~(n < Base)
    BY <1>2, <2>1, ByteAssumption DEF Byte
  <2>3. f[n \div Base] \in Seq(Byte)
    BY <2>1
  <2>4. <<(n % Base) + Base>> \in Seq(Byte)
    BY <2>2
  <2>5. <<(n % Base) + Base>> \o f[n \div Base] \in Seq(Byte)
    BY <2>3, <2>4, ConcatProperties
  <2> QED
    BY <2>2, <2>5 DEF EncodeStep
<1> QED
  BY <1>1, <1>2, ByteAssumption

\* There are encodings of as many numbers as one likes.
LEMMA EncodesExists ==
  ASSUME NEW m \in Nat
  PROVE  \E f : EncodesTo(f, m)
<1> DEFINE S == {n \in Nat : \E f : EncodesTo(f, n)}
<1>1. 0 \in S
  <2> DEFINE f == [k \in 0..0 |-> <<0>>]
  <2>1. 0 \in Byte /\ 0 < Base
    BY ByteAssumption DEF Byte
  <2>2. EncodesTo(f, 0)
    BY <2>1 DEF EncodesTo, EncodeStep
  <2> QED
    BY <2>2
<1>2. ASSUME NEW n \in Nat, n \in S
      PROVE  n + 1 \in S
  <2>1. PICK g : EncodesTo(g, n)
    BY <1>2
  <2>2. \A k \in Nat : k < n + 1 => g[k] \in Seq(Byte)
    BY <2>1 DEF EncodesTo
  <2>3. n + 1 \in Nat
    OBVIOUS
  <2> DEFINE next == EncodeStep(g, n + 1)
  <2>4. next \in Seq(Byte)
    BY <2>2, <2>3, EncodeStepType
  <2> HIDE DEF next
  <2> DEFINE f == [k \in 0..(n + 1) |-> IF k = n + 1 THEN next ELSE g[k]]
  <2>5. /\ f \in [0..(n + 1) -> Seq(Byte)]
        /\ f[n + 1] = next
        /\ \A k \in Nat : k < n + 1 => f[k] = g[k]
    BY <2>2, <2>4
  <2> HIDE DEF f
  <2>6. ASSUME NEW k \in 0..(n + 1)
        PROVE  f[k] = EncodeStep(f, k)
    <3>1. EncodeStep(f, k) = EncodeStep(g, k)
      <4>1. \A i \in Nat : i < k => f[i] = g[i]
        BY <2>5
      <4> QED
        BY <4>1, EncodeStepLocal
    <3>2. f[k] = EncodeStep(g, k)
      <4>1. CASE k = n + 1
        BY <4>1, <2>5 DEF next
      <4>2. CASE k <= n
        BY <4>2, <2>1, <2>5 DEF EncodesTo
      <4> QED
        BY <4>1, <4>2
    <3> QED
      BY <3>1, <3>2
  <2>7. EncodesTo(f, n + 1)
    BY <2>5, <2>6 DEF EncodesTo
  <2> QED
    BY <2>7
<1>3. m \in S
  <2> HIDE DEF S
  <2> QED
    BY <1>1, <1>2, Induction
<1> QED
  BY <1>3

\* Two encodings agree on the numbers that both encode.
LEMMA EncodesAgree ==
  ASSUME NEW m \in Nat, NEW n \in Nat, NEW f, NEW g,
         EncodesTo(f, m), EncodesTo(g, n),
         NEW k \in Nat, k <= m, k <= n
  PROVE  f[k] = g[k]
<1> DEFINE S == {i \in Nat : i <= k => f[i] = g[i]}
<1>1. ASSUME NEW i \in Nat, \A j \in Nat : j < i => j \in S
      PROVE  i \in S
  <2> SUFFICES ASSUME i <= k
               PROVE  f[i] = g[i]
    OBVIOUS
  <2>1. \A j \in Nat : j < i => f[j] = g[j]
    BY <1>1
  <2>2. EncodeStep(f, i) = EncodeStep(g, i)
    BY <2>1, EncodeStepLocal
  <2>3. f[i] = EncodeStep(f, i) /\ g[i] = EncodeStep(g, i)
    BY DEF EncodesTo
  <2> QED
    BY <2>2, <2>3
<1>2. k \in S
  <2> HIDE DEF S
  <2> QED
    BY <1>1, StrongInduction
<1> QED
  BY <1>2

\* EncodeVarInt is what its definition says.
LEMMA EncodeVarIntIs ==
  \A n \in Nat : EncodeVarInt[n] = EncodeStep(EncodeVarInt, n)
<1> DEFINE upTo(n) == CHOOSE f : EncodesTo(f, n)
           all == [n \in Nat |-> upTo(n)[n]]
<1>1. \A n \in Nat : EncodesTo(upTo(n), n)
  BY EncodesExists
<1>2. ASSUME NEW n \in Nat
      PROVE  all[n] = EncodeStep(all, n)
  <2>1. ASSUME NEW k \in Nat, k < n
        PROVE  all[k] = upTo(n)[k]
    <3> HIDE DEF upTo
    <3>1. EncodesTo(upTo(k), k) /\ EncodesTo(upTo(n), n)
      BY <1>1
    <3>2. upTo(k)[k] = upTo(n)[k]
      BY <3>1, <2>1, EncodesAgree
    <3> QED
      BY <3>2
  <2> HIDE DEF upTo
  <2>2. EncodeStep(all, n) = EncodeStep(upTo(n), n)
    <3> HIDE DEF all
    <3> QED
      BY <2>1, EncodeStepLocal
  <2>3. upTo(n)[n] = EncodeStep(upTo(n), n)
    BY <1>1 DEF EncodesTo
  <2> QED
    BY <2>2, <2>3
<1>3. all = [n \in Nat |-> EncodeStep(all, n)]
  <2>1. all = [n \in DOMAIN all |-> all[n]] /\ DOMAIN all = Nat
    OBVIOUS
  <2> HIDE DEF all
  <2> QED
    BY <1>2, <2>1
<1>4. \E f : f = [n \in Nat |-> EncodeStep(f, n)]
  <2> HIDE DEF all
  <2> QED
    BY <1>3
<1>5. EncodeVarInt = CHOOSE f : f = [n \in Nat |-> EncodeStep(f, n)]
  BY DEF EncodeVarInt, EncodeStep
<1>6. EncodeVarInt = [n \in Nat |-> EncodeStep(EncodeVarInt, n)]
  BY <1>4, <1>5
<1> QED
  BY <1>6

\* The shape of a VarInt: the last byte is the only one that none follows.
VarIntShape(bytes) ==
    /\ bytes \in Seq(Byte) /\ bytes # <<>>
    /\ IsLast(bytes[Len(bytes)])
    /\ \A k \in 1..(Len(bytes) - 1) : ~IsLast(bytes[k])

\* A number is encoded as a VarInt that is worth it.
LEMMA EncodingIsFaithful ==
  ASSUME NEW n \in Nat
  PROVE  VarIntShape(EncodeVarInt[n]) /\ ValueOf(EncodeVarInt[n]) = n
<1> DEFINE S == {m \in Nat : VarIntShape(EncodeVarInt[m]) /\ ValueOf(EncodeVarInt[m]) = m}
<1>1. ASSUME NEW m \in Nat, \A k \in Nat : k < m => k \in S
      PROVE  m \in S
  <2>1. CASE m < Base
    <3>1. EncodeVarInt[m] = <<m>>
      BY <2>1, EncodeVarIntIs DEF EncodeStep
    <3>2. m \in Byte /\ m \in 0..(Base - 1)
      BY <2>1, ByteAssumption DEF Byte
    <3>3. ValueOf(<<m>>) = m
      BY <3>2, ValueOfOne, Digit
    <3>4. VarIntShape(<<m>>)
      BY <2>1, <3>2 DEF VarIntShape, IsLast
    <3> QED
      BY <3>1, <3>3, <3>4
  <2>2. CASE m >= Base
    <3> DEFINE q == m \div Base
               r == m % Base
               rest == EncodeVarInt[q]
    <3>1. q \in Nat /\ q < m /\ r \in 0..(Base - 1) /\ m = Base * q + r
      BY <2>2, Division
    <3>2. EncodeVarInt[m] = <<r + Base>> \o rest
      <4>1. ~(m < Base)
        BY <2>2, ByteAssumption
      <4> QED
        BY <4>1, EncodeVarIntIs DEF EncodeStep
    <3>3. VarIntShape(rest) /\ ValueOf(rest) = q
      BY <3>1, <1>1
    <3> HIDE DEF q, r, rest
    <3>4. r + Base \in Byte /\ ~IsLast(r + Base) /\ (r + Base) % Base = r
      <4>1. r + Base \in Byte /\ ~(r + Base < Base)
        BY <3>1, ByteAssumption DEF Byte
      <4> QED
        BY <4>1, <3>1, Digit DEF IsLast
    <3>5. ValueOf(<<r + Base>> \o rest) = r + Base * q
      BY <3>3, <3>4, ValueOfMore DEF VarIntShape
    <3>6. Base * q \in Nat
      BY <3>1, ByteAssumption
    <3>7. ValueOf(<<r + Base>> \o rest) = m
      BY <3>1, <3>5, <3>6
    <3>8. VarIntShape(<<r + Base>> \o rest)
      <4> DEFINE b == r + Base
      <4>1. b \in Byte /\ ~IsLast(b)
        BY <3>4
      <4> HIDE DEF b
      <4>2. /\ <<b>> \o rest \in Seq(Byte) /\ Len(<<b>> \o rest) = Len(rest) + 1
            /\ (<<b>> \o rest)[1] = b
            /\ \A k \in 1..Len(rest) : (<<b>> \o rest)[k + 1] = rest[k]
        BY <4>1, <3>3 DEF VarIntShape
      <4>3. Len(rest) \in Nat /\ Len(rest) >= 1
        BY <3>3 DEF VarIntShape
      <4>4. IsLast((<<b>> \o rest)[Len(rest) + 1])
        BY <4>2, <4>3, <3>3 DEF VarIntShape
      <4>5. ASSUME NEW k \in 1..Len(rest)
            PROVE  ~IsLast((<<b>> \o rest)[k])
        <5>1. CASE k = 1
          BY <5>1, <4>1, <4>2
        <5>2. CASE k # 1
          <6>1. k - 1 \in 1..(Len(rest) - 1) /\ (k - 1) + 1 = k
            BY <5>2, <4>3
          <6>2. (<<b>> \o rest)[k] = rest[k - 1]
            BY <6>1, <4>2
          <6> QED
            BY <6>1, <6>2, <3>3 DEF VarIntShape
        <5> QED
          BY <5>1, <5>2
      <4>6. VarIntShape(<<b>> \o rest)
        BY <4>2, <4>3, <4>4, <4>5 DEF VarIntShape
      <4> QED
        BY <4>6 DEF b
    <3> QED
      BY <3>2, <3>7, <3>8
  <2> QED
    BY <2>1, <2>2, ByteAssumption
<1>2. n \in S
  <2> HIDE DEF S
  <2> QED
    BY <1>1, StrongInduction
<1> QED
  BY <1>2

(***************************************************************************)
(* The parsers.                                                            *)
(***************************************************************************)
\* The bytes of piece are those of s from place c on.
Piece(s, c, piece) ==
    /\ s \in Seq(Byte) /\ piece \in Seq(Byte)
    /\ c \in Nat \ {0} /\ c + Len(piece) - 1 <= Len(s)
    /\ \A k \in 1..Len(piece) : s[c + k - 1] = piece[k]

\* What follows does not matter.
LEMMA PieceLeft ==
  ASSUME NEW s, NEW c, NEW piece, Piece(s, c, piece), NEW t \in Seq(Byte)
  PROVE  Piece(s \o t, c, piece)
<1>1. s \in Seq(Byte) /\ piece \in Seq(Byte) /\ c \in Nat \ {0}
  BY DEF Piece
<1>2. /\ s \o t \in Seq(Byte) /\ Len(s \o t) = Len(s) + Len(t)
      /\ \A k \in 1..Len(s) : (s \o t)[k] = s[k]
  BY <1>1
<1>3. Len(s) \in Nat /\ Len(t) \in Nat /\ Len(piece) \in Nat
  BY <1>1
<1> QED
  BY <1>1, <1>2, <1>3 DEF Piece

\* What is appended is there.
LEMMA PieceRight ==
  ASSUME NEW s \in Seq(Byte), NEW t \in Seq(Byte)
  PROVE  Piece(s \o t, Len(s) + 1, t)
<1>1. /\ s \o t \in Seq(Byte) /\ Len(s \o t) = Len(s) + Len(t)
      /\ \A k \in 1..Len(t) : (s \o t)[Len(s) + k] = t[k]
  OBVIOUS
<1>2. Len(s) \in Nat /\ Len(t) \in Nat
  OBVIOUS
<1> QED
  BY <1>1, <1>2 DEF Piece

\* The bytes of a piece at the beginning.
LEMMA PieceAtStart ==
  ASSUME NEW s, NEW piece, Piece(s, 1, piece), Len(piece) \in Nat
  PROVE  \A k \in 1..Len(piece) : s[k] = piece[k]
<1> SUFFICES ASSUME NEW k \in 1..Len(piece)
             PROVE  s[k] = piece[k]
  OBVIOUS
<1>1. k \in Int /\ 1 + k - 1 = k
  OBVIOUS
<1>2. s[1 + k - 1] = piece[k]
  BY DEF Piece
<1> QED
  BY <1>1, <1>2

\* A piece is taken out by its place and its length.
LEMMA PieceIsSubSeq ==
  ASSUME NEW s, NEW c, NEW piece, Piece(s, c, piece)
  PROVE  SubSeq(s, c, c + Len(piece) - 1) = piece
<1> DEFINE t == SubSeq(s, c, c + Len(piece) - 1)
<1>1. s \in Seq(Byte) /\ piece \in Seq(Byte) /\ c \in Nat \ {0} /\ Len(piece) \in Nat
  BY DEF Piece
<1>2. \A k \in c..(c + Len(piece) - 1) : s[k] \in Byte
  BY <1>1 DEF Piece
<1>3. /\ t \in Seq(Byte)
      /\ Len(t) = Len(piece)
      /\ \A k \in 1..Len(piece) : t[k] = s[c + k - 1]
  BY <1>1, <1>2, SubSeqProperties
<1>4. \A k \in 1..Len(piece) : t[k] = piece[k]
  BY <1>3 DEF Piece
<1> QED
  BY <1>1, <1>3, <1>4, SeqEqual

\* A parser finds the VarInt that begins where it looks, and no other.
LEMMA VarIntFound ==
  ASSUME NEW s, NEW c, NEW piece, Piece(s, c, piece),
         VarIntShape(piece), Len(piece) <= Groups
  PROVE  VarInts(s, c) = {[value |-> ValueOf(piece), next |-> c + Len(piece)]}
<1> DEFINE last == c + Len(piece) - 1
           ends == {k \in c..(c + Groups - 1) : /\ k <= Len(s) /\ IsLast(s[k])
                                               /\ \A j \in c..(k - 1) : ~IsLast(s[j])}
<1>1. c \in Nat \ {0} /\ Len(piece) \in Nat /\ Len(piece) >= 1 /\ Groups \in Nat
  BY ByteAssumption DEF Piece, VarIntShape
<1>2. last \in c..(c + Groups - 1) /\ last <= Len(s)
  BY <1>1 DEF Piece
<1>3. IsLast(s[last])
  BY <1>1 DEF Piece, VarIntShape
<1>4. ASSUME NEW j \in c..(last - 1)
      PROVE  ~IsLast(s[j])
  <2>1. j - c + 1 \in 1..(Len(piece) - 1) /\ c + (j - c + 1) - 1 = j
    BY <1>1
  <2>2. s[j] = piece[j - c + 1]
    BY <2>1, <1>1 DEF Piece
  <2> QED
    BY <2>1, <2>2 DEF VarIntShape
<1>5. last \in ends
  BY <1>2, <1>3, <1>4
<1>6. ASSUME NEW k \in ends
      PROVE  k = last
  <2>1. CASE k < last
    BY <2>1, <1>4, <1>1
  <2>2. CASE k > last
    BY <2>2, <1>2, <1>3, <1>1
  <2> QED
    BY <2>1, <2>2, <1>1
<1>7. ends = {last}
  BY <1>5, <1>6
<1>8. VarInts(s, c) = {[value |-> ValueOf(SubSeq(s, c, k)), next |-> k + 1] : k \in ends}
  BY DEF VarInts
<1>9. last + 1 = c + Len(piece)
  BY <1>1
<1>10. SubSeq(s, c, last) = piece
  BY PieceIsSubSeq
<1> HIDE DEF ends, last
<1> QED
  BY <1>7, <1>8, <1>9, <1>10

\* The same for a string, which is a VarInt of its length and its bytes.
LEMMA StringFound ==
  ASSUME NEW s, NEW c, NEW size, NEW text, Piece(s, c, size),
         VarIntShape(size), Len(size) <= Groups, ValueOf(size) = Len(text),
         Piece(s, c + Len(size), text)
  PROVE  Strings(s, c) = {[value |-> text, next |-> c + Len(size) + Len(text)]}
<1> DEFINE d == c + Len(size)
           n == [value |-> Len(text), next |-> d]
<1>1. VarInts(s, c) = {n}
  BY VarIntFound
<1>2. n.value = Len(text) /\ n.next = d /\ d + Len(text) - 1 <= Len(s)
  BY DEF Piece
<1>3. SubSeq(s, d, d + Len(text) - 1) = text
  BY PieceIsSubSeq
<1> HIDE DEF n, d
<1>4. {m \in VarInts(s, c) : m.next + m.value - 1 <= Len(s)} = {n}
  BY <1>1, <1>2
<1>5. Strings(s, c) = {[value |-> SubSeq(s, n.next, n.next + n.value - 1),
                        next |-> n.next + n.value]}
  BY <1>4 DEF Strings
<1>6. Strings(s, c) = {[value |-> text, next |-> d + Len(text)]}
  BY <1>2, <1>3, <1>5
<1> QED
  BY <1>6 DEF d

\* What the parser finds has a number for its value, and ends within the packet.
LEMMA VarIntsType ==
  ASSUME NEW s \in Seq(Byte), NEW c \in Nat \ {0}, NEW n \in VarInts(s, c)
  PROVE  n.value \in Nat /\ n.next \in Nat \ {0} /\ n.next <= Len(s) + 1
<1>1. PICK k \in c..(c + Groups - 1) :
         /\ k <= Len(s)
         /\ n = [value |-> ValueOf(SubSeq(s, c, k)), next |-> k + 1]
  BY DEF VarInts
<1>2. k \in Nat /\ k >= 1
  BY ByteAssumption
<1>3. \A j \in c..k : s[j] \in Byte
  BY <1>1, <1>2
<1>4. SubSeq(s, c, k) \in Seq(Byte)
  BY <1>2, <1>3, SubSeqProperties
<1>5. ValueOf(SubSeq(s, c, k)) \in Nat
  BY <1>4, ValueType
<1> QED
  BY <1>1, <1>2, <1>5

\* parseString yields bytes and a place behind them.
LEMMA StringsType ==
  ASSUME NEW s \in Seq(Byte), NEW c \in Nat \ {0}, NEW t \in Strings(s, c)
  PROVE  t.value \in Seq(Byte) /\ t.next \in Nat \ {0}
<1>1. PICK n \in VarInts(s, c) :
         /\ n.next + n.value - 1 <= Len(s)
         /\ t = [value |-> SubSeq(s, n.next, n.next + n.value - 1),
                 next |-> n.next + n.value]
  BY DEF Strings
<1>2. n.value \in Nat /\ n.next \in Nat \ {0}
  BY VarIntsType
<1>3. \A j \in n.next..(n.next + n.value - 1) : s[j] \in Byte
  BY <1>1, <1>2
<1>4. SubSeq(s, n.next, n.next + n.value - 1) \in Seq(Byte)
  BY <1>2, <1>3, SubSeqProperties
<1>5. t.value = SubSeq(s, n.next, n.next + n.value - 1) /\ t.next = n.next + n.value
  BY <1>1, Zenon
<1>6. n.next + n.value \in Nat \ {0}
  BY <1>2
<1> QED
  BY <1>4, <1>5, <1>6, Zenon

(***************************************************************************)
(* NormalizeHostname.                                                      *)
(***************************************************************************)
\* Min and Max of the library, of places in a sequence.
LEMMA MinIs ==
  ASSUME NEW S, S \subseteq Nat, S # {}
  PROVE  Min(S) \in S /\ \A k \in S : Min(S) <= k
<1>1. \E m \in S : \A k \in S : m <= k
  BY LeastNumber
<1> QED
  BY <1>1 DEF Min

\* Max of a bounded set of numbers is its largest element.
LEMMA MaxIs ==
  ASSUME NEW n \in Nat, NEW S, S \subseteq 0..n, S # {}
  PROVE  Max(S) \in S /\ \A k \in S : Max(S) >= k
<1> DEFINE T == {n - k : k \in S}
<1>1. T \subseteq Nat /\ T # {}
  <2>1. \A k \in S : k \in 0..n /\ n - k \in Nat
    OBVIOUS
  <2>2. PICK k \in S : TRUE
    OBVIOUS
  <2>3. n - k \in T
    OBVIOUS
  <2> QED
    BY <2>1, <2>3
<1>2. PICK m \in T : \A k \in T : m <= k
  <2> HIDE DEF T
  <2> QED
    BY <1>1, LeastNumber
<1>3. PICK x \in S : m = n - x
  BY <1>2
<1>4. \A k \in S : x >= k
  BY <1>2, <1>3
<1> QED
  BY <1>4 DEF Max

\* Bytes up to the first NUL; all of them where there is none.
LEMMA CutAtNulType ==
  ASSUME NEW s \in Seq(Byte)
  PROVE  /\ CutAtNul(s) \in Seq(Byte)
         /\ \/ CutAtNul(s) = s
            \/ \E j \in DOMAIN s : s[j] = Nul /\ CutAtNul(s) = SubSeq(s, 1, j - 1)
<1> DEFINE ends == {k \in DOMAIN s : s[k] = Nul} \cup {Len(s) + 1}
<1>1. ends \subseteq Nat /\ ends # {} /\ Len(s) \in Nat /\ DOMAIN s = 1..Len(s)
  OBVIOUS
<1>2. Min(ends) \in ends
  <2> HIDE DEF ends
  <2> QED
    BY <1>1, MinIs
<1>3. Min(ends) \in 1..(Len(s) + 1)
  BY <1>1, <1>2
<1>4. CutAtNul(s) = SubSeq(s, 1, Min(ends) - 1)
  BY DEF CutAtNul
<1>5. \A k \in 1..(Min(ends) - 1) : s[k] \in Byte
  BY <1>1, <1>3
<1>6. SubSeq(s, 1, Min(ends) - 1) \in Seq(Byte)
  BY <1>3, <1>5, SubSeqProperties
<1>7. CASE Min(ends) = Len(s) + 1
  <2>1. Min(ends) - 1 = Len(s)
    BY <1>1, <1>7
  <2> QED
    BY <1>4, <1>6, <2>1, SubSeqFull
<1>8. CASE Min(ends) # Len(s) + 1
  <2>1. Min(ends) \in DOMAIN s /\ s[Min(ends)] = Nul
    BY <1>2, <1>8
  <2> HIDE DEF ends
  <2> QED
    BY <1>4, <1>6, <2>1
<1> QED
  BY <1>7, <1>8

\* Trimming leaves bytes.
LEMMA TrimSpaceType ==
  ASSUME NEW s \in Seq(Byte)
  PROVE  TrimSpace(s) \in Seq(Byte)
<1> DEFINE text == {k \in DOMAIN s : s[k] # Space}
<1>1. CASE text = {}
  BY <1>1 DEF TrimSpace
<1>2. CASE text # {}
  <2>1. text \subseteq 1..Len(s) /\ Len(s) \in Nat
    OBVIOUS
  <2>6. text \subseteq 0..Len(s) /\ text \subseteq Nat
    BY <2>1
  <2>2. Min(text) \in text /\ Max(text) \in text
    <3> HIDE DEF text
    <3> QED
      BY <1>2, <2>1, <2>6, MinIs, MaxIs
  <2>3. Min(text) \in 1..Len(s) /\ Max(text) \in 1..Len(s)
    BY <2>1, <2>2
  <2>4. \A k \in Min(text)..Max(text) : s[k] \in Byte
    BY <2>1, <2>3
  <2>5. SubSeq(s, Min(text), Max(text)) \in Seq(Byte)
    BY <2>3, <2>4, SubSeqProperties
  <2> QED
    BY <1>2, <2>5 DEF TrimSpace
<1> QED
  BY <1>1, <1>2

\* A name that is not only a dot does not lose all to TrimSuffix.
LEMMA TrimDotType ==
  ASSUME NEW s \in Seq(Byte)
  PROVE  /\ TrimDot(s) \in Seq(Byte)
         /\ s # <<>> /\ s # <<Dot>> => TrimDot(s) # <<>>
<1>1. CASE s # <<>> /\ Last(s) = Dot
  <2>1. Len(s) \in Nat \ {0}
    BY <1>1
  <2> DEFINE n == Len(s) - 1
             t == SubSeq(s, 1, n)
  <2>2. n \in Nat /\ \A k \in 1..n : s[k] \in Byte
    BY <2>1
  <2>3. t \in Seq(Byte) /\ Len(t) = n
    <3> HIDE DEF n
    <3> QED
      BY <2>2, SubSeqProperties
  <2>4. TrimDot(s) = t
    BY <1>1 DEF TrimDot, Front
  <2>5. Len(s) = 1 => s = <<Dot>>
    BY <1>1 DEF Last
  <2>6. n = 0 \/ Len(t) # 0
    BY <2>3
  <2>7. Len(t) # 0 => t # <<>>
    <3> HIDE DEF t
    <3> QED
      BY EmptySeq
  <2> HIDE DEF t
  <2> QED
    BY <2>1, <2>3, <2>4, <2>5, <2>6, <2>7
<1>2. CASE ~(s # <<>> /\ Last(s) = Dot)
  BY <1>2 DEF TrimDot
<1> QED
  BY <1>1, <1>2

\* A normalized name is a name; it is none only if the name is blank or names
\* nothing, in front of its first NUL if there is one.
LEMMA NormalizeType ==
  ASSUME NEW s \in Seq(Byte)
  PROVE  /\ NormalizeHostname(s) \in Seq(Byte)
         /\ TrimSpace(s) # <<>> /\ ~NamesNothing(s) => NormalizeHostname(s) # <<>>
<1> DEFINE host == TrimDot(TrimSpace(CutAtNul(s)))
           lower == [k \in DOMAIN host |-> LowerOf[host[k]]]
<1>1. host \in Seq(Byte)
  BY CutAtNulType, TrimSpaceType, TrimDotType
<1>2. ASSUME TrimSpace(s) # <<>>, ~NamesNothing(s)
      PROVE  host # <<>>
  <2>1. TrimSpace(CutAtNul(s)) \notin {<<>>, <<Dot>>}
    BY <1>2, CutAtNulType DEF NamesNothing
  <2>2. CutAtNul(s) \in Seq(Byte)
    BY CutAtNulType
  <2> QED
    BY <2>1, <2>2, TrimSpaceType, TrimDotType
<1>3. NormalizeHostname(s) = lower
  BY DEF NormalizeHostname
<1> HIDE DEF host
<1>4. DOMAIN host = 1..Len(host) /\ Len(host) \in Nat /\ \A k \in 1..Len(host) : host[k] \in Byte
  BY <1>1
<1>5. lower \in Seq(Byte) /\ Len(lower) = Len(host)
  BY <1>4, ByteAssumption
<1> QED
  BY <1>1, <1>2, <1>3, <1>5

(***************************************************************************)
(* parseHandshake.                                                         *)
(***************************************************************************)
\* Hostnames that the parser finds are bytes.
LEMMA HostnamesType ==
  ASSUME NEW bytes \in Seq(Byte)
  PROVE  Hostnames(bytes) \subseteq Seq(Byte)
<1> SUFFICES ASSUME NEW hostname \in Hostnames(bytes)
             PROVE  hostname \in Seq(Byte)
  OBVIOUS
<1>1. PICK id \in VarInts(bytes, 1),
           version \in UNION {VarInts(bytes, i.next) : i \in VarInts(bytes, 1)} :
         \E host \in Strings(bytes, version.next) : hostname = NormalizeHostname(host.value)
  BY DEF Hostnames
<1>2. PICK i \in VarInts(bytes, 1) : version \in VarInts(bytes, i.next)
  OBVIOUS
<1>3. i.next \in Nat \ {0}
  BY VarIntsType
<1>4. version.next \in Nat \ {0}
  BY <1>2, <1>3, VarIntsType
<1>5. PICK host \in Strings(bytes, version.next) : hostname = NormalizeHostname(host.value)
  BY <1>1
<1>6. host.value \in Seq(Byte)
  BY <1>4, StringsType
<1> QED
  BY <1>5, <1>6, NormalizeType

\* So is the hostname of a handshake that parses.
LEMMA ParseType ==
  ASSUME NEW bytes \in Seq(Byte)
  PROVE  ParseHandshake(bytes) \in {Fail} \cup [ok : {TRUE}, hostname : Seq(Byte)]
<1>1. CASE Hostnames(bytes) = {}
  BY <1>1 DEF ParseHandshake
<1>2. CASE Hostnames(bytes) # {}
  <2> DEFINE hostname == CHOOSE h \in Hostnames(bytes) : TRUE
  <2>1. hostname \in Hostnames(bytes)
    BY <1>2
  <2>2. hostname \in Seq(Byte)
    BY <2>1, HostnamesType
  <2>3. ParseHandshake(bytes) = [ok |-> TRUE, hostname |-> hostname]
    BY <1>2 DEF ParseHandshake
  <2> HIDE DEF hostname
  <2> QED
    BY <2>2, <2>3
<1> QED
  BY <1>1, <1>2

\* What appending does to pieces.
LEMMA Appended ==
  ASSUME NEW s \in Seq(Byte), NEW t \in Seq(Byte)
  PROVE  /\ s \o t \in Seq(Byte)
         /\ Len(s) \in Nat /\ Len(t) \in Nat /\ Len(s \o t) = Len(s) + Len(t)
         /\ Piece(s \o t, Len(s) + 1, t)
         /\ \A c, piece : Piece(s, c, piece) => Piece(s \o t, c, piece)
<1>1. /\ s \o t \in Seq(Byte)
      /\ Len(s) \in Nat /\ Len(t) \in Nat /\ Len(s \o t) = Len(s) + Len(t)
  OBVIOUS
<1> QED
  BY <1>1, PieceLeft, PieceRight

\* Where the parts of a body are.
LEMMA BodyPieces ==
  ASSUME NEW host \in Seq(Byte), NEW version \in Nat
  PROVE  LET body == Body(host, version)
             v == EncodeVarInt[version]
             h == EncodeVarInt[Len(host)]
             n == EncodeVarInt[2]
         IN  /\ Piece(body, 1, <<0>>)
             /\ Piece(body, 2, v)
             /\ Piece(body, 2 + Len(v), h)
             /\ Piece(body, 2 + Len(v) + Len(h), host)
             /\ Piece(body, 4 + Len(v) + Len(h) + Len(host), n)
             /\ Len(body) = 3 + Len(v) + Len(h) + Len(host) + Len(n)
<1> DEFINE zero == <<0>>
           port == <<0, 1>>
           v == EncodeVarInt[version]
           h == EncodeVarInt[Len(host)]
           n == EncodeVarInt[2]
           b1 == zero \o v
           b2 == b1 \o h
           b3 == b2 \o host
           b4 == b3 \o port
           body == b4 \o n
<1>1. v \in Seq(Byte) /\ h \in Seq(Byte) /\ n \in Seq(Byte)
  <2>1. Len(host) \in Nat /\ 2 \in Nat
    OBVIOUS
  <2> QED
    BY <2>1, EncodingIsFaithful DEF VarIntShape
<1>2. Body(host, version) = body
  BY DEF Body
<1>3. 0 \in Byte /\ 1 \in Byte
  BY ByteAssumption DEF Byte
<1>4. zero \in Seq(Byte) /\ Len(zero) = 1 /\ port \in Seq(Byte) /\ Len(port) = 2
  BY <1>3
<1>5. Piece(zero, 1, zero)
  BY <1>4 DEF Piece
<1> HIDE DEF v, h, n, zero, port
<1>6. /\ b1 \in Seq(Byte) /\ Len(b1) = 1 + Len(v) /\ Len(v) \in Nat
      /\ Piece(b1, 1, zero) /\ Piece(b1, 2, v)
  <2>1. /\ b1 \in Seq(Byte) /\ Len(b1) = Len(zero) + Len(v) /\ Len(v) \in Nat
        /\ Piece(b1, Len(zero) + 1, v)
        /\ \A c, piece : Piece(zero, c, piece) => Piece(b1, c, piece)
    BY <1>1, <1>4, Appended
  <2>2. Len(zero) + 1 = 2
    BY <1>4
  <2> HIDE DEF b1
  <2> QED
    BY <2>1, <2>2, <1>4, <1>5
<1> HIDE DEF b1
<1>7. /\ b2 \in Seq(Byte) /\ Len(b2) = Len(b1) + Len(h) /\ Len(h) \in Nat
      /\ Piece(b2, 1, zero) /\ Piece(b2, 2, v) /\ Piece(b2, Len(b1) + 1, h)
  BY <1>1, <1>6, Appended
<1> HIDE DEF b2
<1>8. /\ b3 \in Seq(Byte) /\ Len(b3) = Len(b2) + Len(host) /\ Len(host) \in Nat
      /\ Piece(b3, 1, zero) /\ Piece(b3, 2, v) /\ Piece(b3, Len(b1) + 1, h)
      /\ Piece(b3, Len(b2) + 1, host)
  BY <1>7, Appended
<1> HIDE DEF b3
<1>9. /\ b4 \in Seq(Byte) /\ Len(b4) = Len(b3) + 2
      /\ Piece(b4, 1, zero) /\ Piece(b4, 2, v) /\ Piece(b4, Len(b1) + 1, h)
      /\ Piece(b4, Len(b2) + 1, host)
  <2>1. /\ b4 \in Seq(Byte) /\ Len(b4) = Len(b3) + Len(port)
        /\ \A c, piece : Piece(b3, c, piece) => Piece(b4, c, piece)
    BY <1>4, <1>8, Appended
  <2> HIDE DEF b4
  <2> QED
    BY <2>1, <1>4, <1>8
<1> HIDE DEF b4
<1>10. /\ Len(body) = Len(b4) + Len(n) /\ Len(n) \in Nat
       /\ Piece(body, 1, zero) /\ Piece(body, 2, v) /\ Piece(body, Len(b1) + 1, h)
       /\ Piece(body, Len(b2) + 1, host) /\ Piece(body, Len(b4) + 1, n)
  BY <1>1, <1>9, Appended
<1> HIDE DEF body
<1>11. /\ Len(b1) + 1 = 2 + Len(v)
       /\ Len(b2) + 1 = 2 + Len(v) + Len(h)
       /\ Len(b4) + 1 = 4 + Len(v) + Len(h) + Len(host)
       /\ Len(body) = 3 + Len(v) + Len(h) + Len(host) + Len(n)
  BY <1>6, <1>7, <1>8, <1>9, <1>10
<1>12. /\ Piece(body, 1, zero) /\ Piece(body, 2, v) /\ Piece(body, 2 + Len(v), h)
       /\ Piece(body, 2 + Len(v) + Len(h), host)
       /\ Piece(body, 4 + Len(v) + Len(h) + Len(host), n)
  BY <1>10, <1>11
<1> QED
  BY <1>2, <1>11, <1>12 DEF v, h, n, zero

\* What ParseHandshake makes of the packet that a client writes: the name that
\* the client gave, normalized, whatever the name and the version are, as long as
\* their VarInts have no more bytes than readers take.
THEOREM BodyIsUnderstood ==
  ASSUME NEW host \in Seq(Byte), NEW version \in Nat,
         \A n \in {version, Len(host), 2} : Len(EncodeVarInt[n]) <= Groups
  PROVE  ParseHandshake(Body(host, version))
            = [ok |-> TRUE, hostname |-> NormalizeHostname(host)]
<1> DEFINE body == Body(host, version)
           v == EncodeVarInt[version]
           h == EncodeVarInt[Len(host)]
           n == EncodeVarInt[2]
           atHost == 2 + Len(v)
           behind == atHost + Len(h) + Len(host)
<1>1. /\ Piece(body, 1, <<0>>) /\ Piece(body, 2, v) /\ Piece(body, atHost, h)
      /\ Piece(body, atHost + Len(h), host) /\ Piece(body, behind + 2, n)
      /\ Len(body) = 1 + behind + Len(n)
  <2>1. Len(v) \in Nat /\ Len(h) \in Nat /\ Len(host) \in Nat /\ Len(n) \in Nat
    BY EncodingIsFaithful DEF VarIntShape
  <2>2. /\ 4 + Len(v) + Len(h) + Len(host) = behind + 2
        /\ 3 + Len(v) + Len(h) + Len(host) + Len(n) = 1 + behind + Len(n)
    <3> HIDE DEF v, h, n
    <3> QED
      BY <2>1
  <2> QED
    BY <2>2, BodyPieces
<1>2. /\ VarIntShape(v) /\ Len(v) <= Groups
      /\ VarIntShape(h) /\ Len(h) <= Groups /\ ValueOf(h) = Len(host)
      /\ VarIntShape(n) /\ Len(n) <= Groups /\ Len(n) \in Nat \ {0}
  <2>1. Len(host) \in Nat /\ 2 \in Nat
    OBVIOUS
  <2>2. \A k \in {version, Len(host), 2} : VarIntShape(EncodeVarInt[k])
    BY <2>1, EncodingIsFaithful
  <2>3. Len(n) \in Nat \ {0}
    BY <2>2 DEF VarIntShape
  <2> QED
    BY <2>1, <2>2, <2>3, EncodingIsFaithful
<1>3. VarIntShape(<<0>>) /\ ValueOf(<<0>>) = 0 /\ Len(<<0>>) = 1 /\ 1 <= Groups
  <2>1. 0 \in Byte /\ 0 \in 0..(Base - 1) /\ 0 < Base /\ 1 <= Groups
    BY ByteAssumption DEF Byte
  <2>2. ValueOf(<<0>>) = 0
    BY <2>1, ValueOfOne, Digit
  <2> QED
    BY <2>1, <2>2 DEF VarIntShape, IsLast
<1> HIDE DEF body, v, h, n, behind
<1>4. VarInts(body, 1) = {[value |-> 0, next |-> 2]}
  <2> DEFINE zero == <<0>>
  <2>1. /\ Piece(body, 1, zero) /\ VarIntShape(zero) /\ ValueOf(zero) = 0
        /\ Len(zero) <= Groups /\ 1 + Len(zero) = 2
    BY <1>1, <1>3
  <2> HIDE DEF zero
  <2>2. VarInts(body, 1) = {[value |-> ValueOf(zero), next |-> 1 + Len(zero)]}
    BY <2>1, VarIntFound
  <2> QED
    BY <2>1, <2>2
<1>5. VarInts(body, 2) = {[value |-> ValueOf(v), next |-> atHost]}
  BY <1>1, <1>2, VarIntFound
<1> HIDE DEF atHost
<1>6. Strings(body, atHost) = {[value |-> host, next |-> behind]}
  <2>1. Strings(body, atHost) = {[value |-> host, next |-> atHost + Len(h) + Len(host)]}
    BY <1>1, <1>2, StringFound
  <2> QED
    BY <2>1 DEF behind
<1>7. VarInts(body, behind + 2) # {}
  <2>1. VarInts(body, behind + 2) = {[value |-> ValueOf(n), next |-> behind + 2 + Len(n)]}
    BY <1>1, <1>2, VarIntFound
  <2> QED
    BY <2>1
<1>8. behind + 1 <= Len(body)
  <2>1. behind \in Nat
    BY <1>1, <1>2 DEF behind, atHost, VarIntShape, Piece
  <2> QED
    BY <2>1, <1>1, <1>2
<1> DEFINE ids == {id \in VarInts(body, 1) : id.value = 0}
           versions == UNION {VarInts(body, id.next) : id \in ids}
           hosts == UNION {Strings(body, w.next) : w \in versions}
           whole == {t \in hosts : t.next + 1 <= Len(body) /\ VarInts(body, t.next + 2) # {}}
<1>9. Hostnames(body) = {NormalizeHostname(t.value) : t \in whole}
  BY DEF Hostnames
<1>10. ids = {[value |-> 0, next |-> 2]}
  BY <1>4
<1>11. versions = {[value |-> ValueOf(v), next |-> atHost]}
  <2> HIDE DEF ids
  <2> QED
    BY <1>5, <1>10
<1>12. hosts = {[value |-> host, next |-> behind]}
  <2> HIDE DEF versions
  <2> QED
    BY <1>6, <1>11
<1>13. whole = {[value |-> host, next |-> behind]}
  <2> HIDE DEF hosts
  <2> QED
    BY <1>7, <1>8, <1>12
<1>14. Hostnames(body) = {NormalizeHostname(host)}
  <2> HIDE DEF whole
  <2> QED
    BY <1>9, <1>13
<1> QED
  BY <1>14 DEF ParseHandshake, body

(***************************************************************************)
(* What makes the properties of Ingress inductive.                         *)
(***************************************************************************)
\* A client whose handshake is intact sends it first.
HandshakeFirst ==
    message # None => message \in Host /\ \E version \in Version, rest \in Rest :
        stream = Encode(message, version) \o rest

\* What was read of a handshake is what the stream begins with.
ReadFromStart ==
    /\ Piece(stream, 1, lengthBytes)
    /\ Piece(stream, Len(lengthBytes) + 1, packet)
    /\ phase \notin {"relay", "closed"} => taken = Len(lengthBytes) + Len(packet)

\* A VarInt is read until its last byte, then a packet of that length.
LengthFirst ==
    /\ phase \in {"load", "setup", "length"} =>
          /\ packet = <<>> /\ Len(lengthBytes) < Groups
          /\ \A k \in DOMAIN lengthBytes : ~IsLast(lengthBytes[k])
    /\ phase = "body" => VarIntShape(lengthBytes) /\ Len(packet) < ValueOf(lengthBytes)

\* What is known at each stage.
Stages ==
    /\ phase \in {"load", "setup", "length", "body"} => handshake = None
    /\ phase \in {"resolve", "dial", "write", "relay"} => handshake \in Result
    /\ phase \in {"load", "setup", "length", "body", "resolve"} => backend = None
    /\ phase \notin {"load", "closed"} => Validate(servers)

\* A backend is one that the handshake and the configuration lead to.
Chosen ==
    /\ backend # None \/ phase \in {"dial", "write", "relay"} =>
          backend \in Candidates /\ handshake \in Result /\ Validate(servers)
    /\ phase = "closed" /\ handshake # None /\ Candidates # {} => backend \in Candidates

IInv == /\ TypeOK /\ HandshakeFirst /\ ReadFromStart /\ LengthFirst /\ Stages /\ Chosen
        /\ NothingLost /\ IntactIsUnderstood

\* A step of the program, and what neither reads nor chooses.
Waits == LoadProxy \/ EnsureAddresses \/ (\E n \in DOMAIN stream : Arrive(n)) \/ Dial

(***************************************************************************)
(* Lemmas about pieces, sequences and routes.                              *)
(***************************************************************************)
\* No encoding of a length begins another.
LEMMA PrefixFree ==
  ASSUME NEW s, NEW a, NEW b, Piece(s, 1, a), Piece(s, 1, b), VarIntShape(a), VarIntShape(b)
  PROVE  a = b
<1>1. /\ a \in Seq(Byte) /\ Len(a) \in Nat \ {0} /\ b \in Seq(Byte) /\ Len(b) \in Nat \ {0}
  BY DEF VarIntShape
<1>2. /\ \A k \in 1..Len(a) : a[k] = s[k]
      /\ \A k \in 1..Len(b) : b[k] = s[k]
  BY <1>1 DEF Piece
<1>3. ~(Len(a) < Len(b))
  BY <1>1, <1>2 DEF VarIntShape
<1>4. ~(Len(b) < Len(a))
  BY <1>1, <1>2 DEF VarIntShape
<1> QED
  BY <1>1, <1>2, <1>3, <1>4, SeqEqual

\* A part of a sequence is a piece of it.
LEMMA SubSeqIsPiece ==
  ASSUME NEW s \in Seq(Byte), NEW m \in Nat, NEW n \in Nat, m <= n, n <= Len(s)
  PROVE  /\ Piece(s, m + 1, SubSeq(s, m + 1, n))
         /\ Len(SubSeq(s, m + 1, n)) = n - m
<1> DEFINE t == SubSeq(s, m + 1, n)
<1>1. Len(s) \in Nat /\ \A k \in (m + 1)..n : s[k] \in Byte
  OBVIOUS
<1>2. /\ t \in Seq(Byte)
      /\ Len(t) = IF m + 1 <= n THEN n - (m + 1) + 1 ELSE 0
      /\ \A k \in 1..(n - (m + 1) + 1) : t[k] = s[(m + 1) + k - 1]
  BY <1>1, SubSeqProperties
<1>3. Len(t) = n - m
  BY <1>2
<1> HIDE DEF t
<1>4. Piece(s, m + 1, t)
  BY <1>1, <1>2, <1>3 DEF Piece
<1> QED
  BY <1>3, <1>4 DEF t

\* Two pieces side by side are one.
LEMMA PiecesJoin ==
  ASSUME NEW s, NEW c, NEW a, NEW b, Piece(s, c, a), Piece(s, c + Len(a), b)
  PROVE  Piece(s, c, a \o b) /\ Len(a \o b) = Len(a) + Len(b)
<1>1. /\ s \in Seq(Byte) /\ a \in Seq(Byte) /\ b \in Seq(Byte)
      /\ c \in Nat \ {0} /\ Len(a) \in Nat /\ Len(b) \in Nat
  BY DEF Piece
<1>2. /\ a \o b \in Seq(Byte) /\ Len(a \o b) = Len(a) + Len(b)
      /\ \A k \in 1..(Len(a) + Len(b)) :
            (a \o b)[k] = IF k <= Len(a) THEN a[k] ELSE b[k - Len(a)]
  BY <1>1, ConcatProperties
<1>3. ASSUME NEW k \in 1..(Len(a) + Len(b))
      PROVE  s[c + k - 1] = (a \o b)[k]
  <2>1. CASE k <= Len(a)
    BY <2>1, <1>1, <1>2 DEF Piece
  <2>2. CASE k > Len(a)
    <3>1. k - Len(a) \in 1..Len(b) /\ (c + Len(a)) + (k - Len(a)) - 1 = c + k - 1
      BY <2>2, <1>1
    <3>2. s[c + k - 1] = b[k - Len(a)]
      BY <3>1 DEF Piece
    <3> QED
      BY <2>2, <3>2, <1>1, <1>2
  <2> QED
    BY <2>1, <2>2, <1>1
<1>4. c + (Len(a) + Len(b)) - 1 <= Len(s)
  BY <1>1 DEF Piece
<1> HIDE DEF Piece
<1> QED
  BY <1>1, <1>2, <1>3, <1>4 DEF Piece

\* What clients write are bytes.
LEMMA EncodeType ==
  ASSUME NEW host \in Seq(Byte), NEW version \in Nat
  PROVE  /\ Body(host, version) \in Seq(Byte)
         /\ Len(Body(host, version)) \in Nat \ {0}
         /\ Encode(host, version) \in Seq(Byte)
<1> DEFINE body == Body(host, version)
<1>1. Piece(body, 1, <<0>>)
  BY BodyPieces
<1> HIDE DEF body
<1>2. body \in Seq(Byte) /\ Len(body) \in Nat \ {0}
  BY <1>1 DEF Piece
<1>3. EncodeVarInt[Len(body)] \in Seq(Byte)
  BY <1>2, EncodingIsFaithful DEF VarIntShape
<1> QED
  BY <1>2, <1>3, ConcatProperties DEF Encode, body

\* Candidates are servers, which are numbered.
LEMMA CandidatesType ==
  ASSUME TypeOK
  PROVE  Candidates \subseteq DOMAIN servers /\ \E n \in Nat : DOMAIN servers = 1..n
<1>1. servers \in Seq([ip : IP \cup {None}, hostnames : SUBSET Seq(Byte)])
  BY ConfigAssumption DEF TypeOK
<1>2. Len(servers) \in Nat /\ DOMAIN servers = 1..Len(servers)
  BY <1>1
<1> QED
  BY <1>2 DEF Candidates, ByHostname, ByIP

\* They depend on the configuration, the address and the handshake only.
LEMMA CandidatesKept ==
  ASSUME UNCHANGED <<servers, originalIP, handshake>>
  PROVE  Candidates' = Candidates /\ (Validate(servers)' <=> Validate(servers))
BY DEF Candidates, ByHostname, ByIP, ShouldFallbackToOriginalIP, Validate

(***************************************************************************)
(* The steps that read.                                                    *)
(***************************************************************************)
\* readVarInt takes the next byte of the stream.
LEMMA LengthByteEffect ==
  ASSUME IInv, ReadLengthByte
  PROVE  /\ phase = "length" /\ taken = Len(lengthBytes) /\ packet = <<>>
         /\ taken + 1 <= Len(stream) /\ taken' = taken + 1 /\ taken + 1 <= sent
         /\ stream[taken + 1] \in Byte
         /\ lengthBytes' \in Seq(Byte) /\ Len(lengthBytes') = taken + 1
         /\ lengthBytes'[taken + 1] = stream[taken + 1]
         /\ \A k \in 1..taken : lengthBytes'[k] = lengthBytes[k] /\ ~IsLast(lengthBytes[k])
         /\ Piece(stream, 1, lengthBytes')
<1>1. /\ phase = "length" /\ taken < sent /\ taken' = taken + 1
      /\ lengthBytes' = Append(lengthBytes, stream[taken'])
  BY DEF ReadLengthByte
<1>2. /\ stream \in Seq(Byte) /\ lengthBytes \in Seq(Byte)
      /\ Len(stream) \in Nat /\ sent \in 0..Len(stream) /\ taken \in 0..sent
  BY DEF IInv, TypeOK
<1>3. packet = <<>> /\ \A k \in DOMAIN lengthBytes : ~IsLast(lengthBytes[k])
  BY <1>1 DEF IInv, LengthFirst
<1>4. taken = Len(lengthBytes)
  BY <1>1, <1>2, <1>3 DEF IInv, ReadFromStart
<1>5. taken + 1 \in 1..Len(stream) /\ stream[taken + 1] \in Byte
  BY <1>1, <1>2
<1>6. /\ lengthBytes' \in Seq(Byte) /\ Len(lengthBytes') = taken + 1
      /\ lengthBytes'[taken + 1] = stream[taken + 1]
      /\ \A k \in 1..taken : lengthBytes'[k] = lengthBytes[k]
  BY <1>1, <1>2, <1>4, <1>5, AppendProperties
<1>7. \A k \in 1..taken : ~IsLast(lengthBytes[k])
  BY <1>2, <1>3, <1>4
<1>8. \A k \in 1..(taken + 1) : lengthBytes'[k] = stream[k]
  <2>1. \A k \in 1..taken : lengthBytes[k] = stream[k]
    BY <1>2, <1>4 DEF IInv, ReadFromStart, Piece
  <2> QED
    BY <2>1, <1>2, <1>6
<1>9. Piece(stream, 1, lengthBytes')
  BY <1>2, <1>5, <1>6, <1>8 DEF Piece
<1> QED
  BY <1>1, <1>2, <1>3, <1>4, <1>5, <1>6, <1>7, <1>9

\* io.ReadFull takes the next bytes of the stream, some but not too many.
LEMMA BodyEffect ==
  ASSUME IInv, ReadBody
  PROVE  /\ phase = "body" /\ lengthBytes' = lengthBytes /\ stream' = stream
         /\ Arrived \in Seq(Byte) /\ Len(Arrived) \in Nat /\ Missing \in Nat
         /\ 0 < Len(Arrived) /\ Len(Arrived) <= Missing
         /\ taken' = taken + Len(Arrived) /\ taken' <= sent
         /\ packet' = packet \o Arrived /\ packet' \in Seq(Byte)
         /\ Len(packet') = Len(packet) + Len(Arrived)
         /\ ValueOf(lengthBytes) = Len(packet) + Missing
         /\ Piece(stream, Len(lengthBytes) + 1, packet')
         /\ taken' = Len(lengthBytes) + Len(packet')
<1>1. /\ phase = "body" /\ taken < sent /\ taken' = taken + Len(Arrived)
      /\ packet' = packet \o Arrived /\ lengthBytes' = lengthBytes /\ stream' = stream
  BY DEF ReadBody, clientVars
<1>2. /\ stream \in Seq(Byte) /\ lengthBytes \in Seq(Byte) /\ packet \in Seq(Byte)
      /\ Len(stream) \in Nat /\ Len(lengthBytes) \in Nat /\ Len(packet) \in Nat
      /\ sent \in 0..Len(stream) /\ taken \in 0..sent
  BY DEF IInv, TypeOK
<1>3. ValueOf(lengthBytes) \in Nat
  BY <1>2, ValueType
<1>4. Len(packet) < ValueOf(lengthBytes)
  BY <1>1 DEF IInv, LengthFirst
<1>5. taken = Len(lengthBytes) + Len(packet)
  BY <1>1 DEF IInv, ReadFromStart
<1>6. Missing \in Nat /\ Missing > 0 /\ ValueOf(lengthBytes) = Len(packet) + Missing
  BY <1>2, <1>3, <1>4 DEF Missing
<1> DEFINE end == Min({taken + Missing, sent})
<1>7. end \in Nat /\ taken < end /\ end <= sent /\ end <= taken + Missing
  <2> DEFINE S == {taken + Missing, sent}
  <2>1. S \subseteq Nat /\ S # {}
    BY <1>2, <1>6
  <2>2. end \in S /\ \A k \in S : end <= k
    <3> HIDE DEF S
    <3> QED
      BY <2>1, MinIs DEF S
  <2> QED
    BY <2>1, <2>2, <1>1, <1>2, <1>6
<1>8. Arrived = SubSeq(stream, taken + 1, end)
  BY DEF Arrived
<1> HIDE DEF end
<1>9. Piece(stream, taken + 1, Arrived) /\ Len(Arrived) = end - taken
  BY <1>2, <1>7, <1>8, SubSeqIsPiece
<1>10. Arrived \in Seq(Byte)
  BY <1>9 DEF Piece
<1>11. Piece(stream, Len(lengthBytes) + 1, packet') /\ Len(packet') = Len(packet) + Len(Arrived)
  <2>1. Piece(stream, (Len(lengthBytes) + 1) + Len(packet), Arrived)
    <3>1. (Len(lengthBytes) + 1) + Len(packet) = taken + 1
      BY <1>2, <1>5
    <3> QED
      BY <3>1, <1>9
  <2>2. Piece(stream, Len(lengthBytes) + 1, packet)
    BY DEF IInv, ReadFromStart
  <2> QED
    BY <2>1, <2>2, <1>1, PiecesJoin
<1>12. packet' \in Seq(Byte)
  BY <1>11 DEF Piece
<1> QED
  BY <1>1, <1>2, <1>5, <1>6, <1>7, <1>9, <1>10, <1>11, <1>12

(***************************************************************************)
(* Each part of the invariant, step by step.                               *)
(***************************************************************************)
\* Every step keeps the types.
LEMMA TypeStep ==
  ASSUME IInv, [Next]_vars
  PROVE  TypeOK'
<1>1. TypeOK
  BY DEF IInv
<1>2. CASE Waits
  BY <1>1, <1>2 DEF TypeOK, Waits, LoadProxy, EnsureAddresses, Arrive, Dial, clientVars, readVars
<1>3. CASE ReadLengthByte
  <2>1. /\ phase' \in {"resolve", "body", "length"}
        /\ handshake' \in {handshake, Fail}
        /\ UNCHANGED <<servers, originalIP, clientVars, packet, backend, out>>
    BY <1>3 DEF ReadLengthByte
  <2>2. /\ lengthBytes' \in Seq(Byte) /\ Len(lengthBytes') = taken + 1
        /\ taken' = taken + 1 /\ taken + 1 <= sent
        /\ taken = Len(lengthBytes) /\ packet = <<>> /\ phase = "length"
    BY <1>3, LengthByteEffect
  <2>3. Len(lengthBytes) < Groups
    BY <2>2 DEF IInv, LengthFirst
  <2>4. ValueOf(lengthBytes') \in Nat
    BY <2>2, ValueType
  <2>5. Len(packet') = 0
    BY <2>1, <2>2
  <2> QED
    <3>1. /\ Len(lengthBytes') <= Groups /\ Len(packet') <= ValueOf(lengthBytes')
          /\ taken' \in 0..sent
      BY <1>1, <2>2, <2>3, <2>4, <2>5, ByteAssumption DEF TypeOK
    <3>2. handshake' \in Result \cup {None}
      BY <1>1, <2>1 DEF TypeOK, Result
    <3> QED
      BY <1>1, <2>1, <2>2, <3>1, <3>2 DEF TypeOK, clientVars
<1>4. CASE ReadBody
  <2>1. UNCHANGED <<servers, originalIP, clientVars, lengthBytes, backend, out>>
    BY <1>4 DEF ReadBody
  <2>2. /\ packet' \in Seq(Byte) /\ Len(packet') <= ValueOf(lengthBytes)
        /\ taken' \in 0..sent /\ packet' = packet \o Arrived
    <3>1. Len(packet) \in Nat /\ taken \in Nat /\ sent \in Nat
      BY <1>1 DEF TypeOK
    <3> QED
      BY <3>1, <1>4, BodyEffect
  <2>3. phase' \in {phase, "resolve"} /\ handshake' \in Result \cup {handshake}
    <3>1. ParseHandshake(packet \o Arrived) \in Result
      BY <2>2, ParseType DEF Result
    <3> QED
      BY <3>1, <1>4 DEF ReadBody
  <2> QED
    BY <1>1, <2>1, <2>2, <2>3 DEF TypeOK, clientVars
<1>5. CASE ReadFails
  BY <1>1, <1>5 DEF TypeOK, ReadFails, clientVars, Result
<1>6. CASE ResolveServer
  <2>1. Candidates # {} => Max(Candidates) \in DOMAIN servers
    <3>1. PICK n \in Nat : DOMAIN servers = 1..n
      BY <1>1, CandidatesType
    <3>2. Candidates \subseteq DOMAIN servers /\ Candidates \subseteq 0..n
      BY <1>1, <3>1, CandidatesType
    <3> QED
      BY <3>2, MaxIs
  <2>2. UNCHANGED <<servers, originalIP, clientVars, taken, readVars, out>>
    BY <1>6 DEF ResolveServer
  <2>3. phase' \in {"closed", "dial"} /\ backend' \in DOMAIN servers \cup {backend}
    BY <2>1, <1>6 DEF ResolveServer
  <2> QED
    BY <1>1, <2>2, <2>3 DEF TypeOK, clientVars, readVars
<1>7. CASE WriteHandshake
  <2>1. lengthBytes \o packet \in Seq(Byte)
    BY <1>1, ConcatProperties DEF TypeOK
  <2>2. out' \in Seq(Byte) /\ phase' \in {"relay", "closed"}
    <3>1. out' \in {out, lengthBytes \o packet, <<>>} /\ phase' \in {"relay", "closed"}
      BY <1>7 DEF WriteHandshake
    <3>2. out \in Seq(Byte) /\ <<>> \in Seq(Byte)
      BY <1>1 DEF TypeOK
    <3> QED
      BY <2>1, <3>1, <3>2
  <2>3. UNCHANGED <<servers, originalIP, clientVars, taken, readVars, backend>>
    BY <1>7 DEF WriteHandshake
  <2> QED
    BY <1>1, <2>2, <2>3 DEF TypeOK, clientVars, readVars
<1>8. CASE Relay
  <2>1. stream \in Seq(Byte) /\ sent \in 0..Len(stream) /\ taken \in 0..sent /\ taken < sent
    BY <1>1, <1>8 DEF TypeOK, Relay
  <2>2. SubSeq(stream, taken + 1, sent) \in Seq(Byte)
    BY <2>1, SubSeqIsPiece DEF Piece
  <2>3. out' \in Seq(Byte)
    BY <2>2, <1>1, <1>8, ConcatProperties DEF Relay, TypeOK
  <2> QED
    BY <1>1, <1>8, <2>1, <2>3 DEF TypeOK, Relay, clientVars, readVars
<1>9. CASE UNCHANGED vars
  BY <1>1, <1>9 DEF TypeOK, vars, clientVars, readVars
<1> QED
  BY <1>2, <1>3, <1>4, <1>5, <1>6, <1>7, <1>8, <1>9 DEF Next, ReadHandshake, Waits

\* Nothing changes what the client sends, or how it was configured.
LEMMA StreamStays ==
  ASSUME [Next]_vars
  PROVE  UNCHANGED <<servers, originalIP, message, stream>>
BY DEF Next, vars, clientVars, LoadProxy, EnsureAddresses, Arrive, Dial, ReadHandshake,
       ReadLengthByte, ReadBody, ReadFails, ResolveServer, WriteHandshake, Relay

\* Steps that read nothing of a handshake.
LEMMA OthersReadNothing ==
  ASSUME [Next]_vars, ~ReadLengthByte, ~ReadBody
  PROVE  /\ UNCHANGED <<lengthBytes, packet>>
         /\ taken' = taken \/ phase' = "relay"
         /\ handshake' = handshake \/ ReadFails
BY DEF Next, vars, clientVars, readVars, LoadProxy, EnsureAddresses, Arrive, Dial,
       ReadHandshake, ReadFails, ResolveServer, WriteHandshake, Relay

\* What was read is the beginning of the stream: each byte is taken once, in order.
LEMMA ReadFromStartStep ==
  ASSUME IInv, [Next]_vars
  PROVE  ReadFromStart'
<1>1. stream' = stream
  BY StreamStays
<1>2. CASE ReadLengthByte
  <2>1. /\ packet' = packet /\ packet = <<>> /\ lengthBytes' \in Seq(Byte)
        /\ Len(lengthBytes') = taken + 1 /\ taken' = taken + 1
        /\ taken + 1 <= Len(stream) /\ Piece(stream, 1, lengthBytes')
    BY <1>2, LengthByteEffect DEF ReadLengthByte
  <2>2. stream \in Seq(Byte) /\ taken \in Nat
    BY DEF IInv, TypeOK
  <2>3. Piece(stream, Len(lengthBytes') + 1, packet')
    BY <2>1, <2>2 DEF Piece
  <2>4. taken' = Len(lengthBytes') + Len(packet')
    BY <2>1, <2>2
  <2> QED
    BY <1>1, <2>1, <2>3, <2>4 DEF ReadFromStart
<1>3. CASE ReadBody
  <2>1. Piece(stream, 1, lengthBytes)
    BY DEF IInv, ReadFromStart
  <2> QED
    BY <1>1, <1>3, <2>1, BodyEffect DEF ReadFromStart
<1>4. CASE ~ReadLengthByte /\ ~ReadBody
  <2>1. UNCHANGED <<lengthBytes, packet>>
    BY <1>4, OthersReadNothing
  <2>2. phase' \notin {"relay", "closed"} => taken' = taken /\ phase \notin {"relay", "closed"}
    BY <1>4 DEF Next, vars, clientVars, readVars, LoadProxy, EnsureAddresses, Arrive, Dial,
                ReadHandshake, ReadFails, ResolveServer, WriteHandshake, Relay
  <2> QED
    BY <1>1, <2>1, <2>2 DEF IInv, ReadFromStart
<1> QED
  BY <1>2, <1>3, <1>4

\* The body is read only behind a whole length, and never further than that says.
LEMMA LengthFirstStep ==
  ASSUME IInv, [Next]_vars
  PROVE  LengthFirst'
<1>1. CASE ReadLengthByte
  <2> DEFINE complete == IsLast(stream[taken'])
             bad == IF complete THEN ValueOf(lengthBytes') = 0
                                ELSE Len(lengthBytes') = Groups
  <2>1. /\ packet' = packet /\ packet = <<>> /\ lengthBytes' \in Seq(Byte)
        /\ Len(lengthBytes') = taken + 1 /\ taken' = taken + 1
        /\ lengthBytes'[taken + 1] = stream[taken + 1]
        /\ \A k \in 1..taken : lengthBytes'[k] = lengthBytes[k] /\ ~IsLast(lengthBytes[k])
    BY <1>1, LengthByteEffect DEF ReadLengthByte
  <2>2. phase' = CASE bad -> "resolve" [] complete /\ ~bad -> "body" [] OTHER -> "length"
    BY <1>1 DEF ReadLengthByte
  <2>3. taken \in Nat /\ Len(lengthBytes') <= Groups
    BY TypeStep DEF IInv, TypeOK
  <2>4. CASE phase' = "length"
    <3>1. ~complete /\ Len(lengthBytes') # Groups
      BY <2>2, <2>4
    <3>2. Len(lengthBytes') < Groups
      BY <3>1, <2>1, <2>3, ByteAssumption
    <3>3. \A k \in 1..(taken + 1) : ~IsLast(lengthBytes'[k])
      BY <3>1, <2>1, <2>3
    <3> QED
      BY <2>1, <2>4, <3>2, <3>3 DEF LengthFirst
  <2>5. CASE phase' = "body"
    <3>1. complete /\ ValueOf(lengthBytes') # 0
      BY <2>2, <2>5
    <3>2. VarIntShape(lengthBytes')
      BY <3>1, <2>1, <2>3 DEF VarIntShape
    <3>3. ValueOf(lengthBytes') \in Nat
      BY <2>1, ValueType
    <3>4. Len(packet') < ValueOf(lengthBytes')
      BY <2>1, <3>1, <3>3
    <3> QED
      BY <2>5, <3>2, <3>4 DEF LengthFirst
  <2>6. CASE phase' = "resolve"
    BY <2>6 DEF LengthFirst
  <2> QED
    BY <2>2, <2>4, <2>5, <2>6
<1>2. CASE ReadBody
  <2>1. /\ phase = "body" /\ lengthBytes' = lengthBytes
        /\ phase' = "resolve" \/ (Len(Arrived) < Missing /\ phase' = phase)
    BY <1>2, BodyEffect DEF ReadBody
  <2>2. Len(Arrived) < Missing => Len(packet') < ValueOf(lengthBytes)
    <3>1. Len(packet) \in Nat
      BY DEF IInv, TypeOK
    <3> QED
      BY <3>1, <1>2, BodyEffect
  <2> QED
    BY <2>1, <2>2 DEF IInv, LengthFirst
<1>3. CASE ~ReadLengthByte /\ ~ReadBody
  <2>1. UNCHANGED <<lengthBytes, packet>>
    BY <1>3, OthersReadNothing
  <2>2. /\ phase' \in {"load", "setup", "length"} => phase \in {"load", "setup", "length"}
        /\ phase' = "body" => phase = "body"
    BY <1>3 DEF Next, vars, clientVars, readVars, LoadProxy, EnsureAddresses, Arrive, Dial,
                ReadHandshake, ReadFails, ResolveServer, WriteHandshake, Relay
  <2> QED
    BY <2>1, <2>2 DEF IInv, LengthFirst
<1> QED
  BY <1>1, <1>2, <1>3

\* The places of handleConn come in the order of the code.
LEMMA StagesStep ==
  ASSUME IInv, [Next]_vars
  PROVE  Stages'
<1>1. Validate(servers)' <=> Validate(servers)
  BY StreamStays DEF Validate
<1>2. Stages
  BY DEF IInv
<1>3. CASE ReadLengthByte
  BY <1>1, <1>2, <1>3 DEF Stages, ReadLengthByte, Result
<1>4. CASE ReadBody
  <2>1. ParseHandshake(packet \o Arrived) \in Result
    BY <1>4, BodyEffect, ParseType DEF Result
  <2> QED
    BY <1>1, <1>2, <1>4, <2>1 DEF Stages, ReadBody
<1>5. CASE ~ReadLengthByte /\ ~ReadBody
  BY <1>1, <1>2, <1>5
     DEF Stages, Next, vars, clientVars, readVars, LoadProxy, EnsureAddresses, Arrive, Dial,
         ReadHandshake, ReadFails, ResolveServer, WriteHandshake, Relay, Result
<1> QED
  BY <1>3, <1>4, <1>5

\* A backend once chosen is the last candidate, which nothing later changes.
LEMMA ChosenStep ==
  ASSUME IInv, [Next]_vars
  PROVE  Chosen'
<1>1. CASE ReadLengthByte \/ ReadBody \/ ReadFails
  <2>1. phase' \notin {"dial", "write", "relay", "closed"} /\ backend' = backend /\ backend = None
    BY <1>1 DEF ReadLengthByte, ReadBody, ReadFails, IInv, Stages
  <2> QED
    BY <2>1 DEF Chosen
<1>2. CASE ResolveServer
  <2>1. UNCHANGED <<servers, originalIP, handshake>> /\ handshake \in Result
    BY <1>2 DEF ResolveServer, readVars, IInv, Stages
  <2>2. Candidates' = Candidates /\ (Validate(servers)' <=> Validate(servers))
    BY <2>1, CandidatesKept
  <2>3. Validate(servers)
    BY <1>2 DEF ResolveServer, IInv, Stages
  <2>4. Candidates # {} => Max(Candidates) \in Candidates
    <3>1. PICK n \in Nat : DOMAIN servers = 1..n
      BY CandidatesType DEF IInv
    <3>2. Candidates \subseteq 0..n
      BY <3>1, CandidatesType DEF IInv
    <3> QED
      BY <3>2, MaxIs
  <2>5. \/ Candidates = {} /\ phase' = "closed" /\ backend' = None
        \/ Candidates # {} /\ phase' = "dial" /\ backend' = Max(Candidates)
    BY <1>2 DEF ResolveServer, IInv, Stages
  <2> QED
    BY <2>1, <2>2, <2>3, <2>4, <2>5 DEF Chosen
<1>3. CASE ~ReadLengthByte /\ ~ReadBody /\ ~ReadFails /\ ~ResolveServer
  <2>1. UNCHANGED <<servers, originalIP, handshake, backend>>
    BY <1>3 DEF Next, vars, clientVars, readVars, LoadProxy, EnsureAddresses, Arrive, Dial,
                ReadHandshake, WriteHandshake, Relay
  <2>2. Candidates' = Candidates /\ (Validate(servers)' <=> Validate(servers))
    BY <2>1, CandidatesKept
  <2>3. /\ phase' \in {"dial", "write", "relay"} => phase \in {"dial", "write", "relay"}
        /\ phase' = "closed" =>
              phase \in {"load", "setup", "dial", "write", "closed"}
    BY <1>3 DEF Next, vars, clientVars, readVars, LoadProxy, EnsureAddresses, Arrive, Dial,
                ReadHandshake, WriteHandshake, Relay
  <2>4. phase \in {"load", "setup"} => handshake = None
    BY DEF IInv, Stages
  <2> QED
    BY <2>1, <2>2, <2>3, <2>4 DEF IInv, Chosen
<1> QED
  BY <1>1, <1>2, <1>3

\* What reaches the backend is the beginning of the stream as far as it was taken.
LEMMA NothingLostStep ==
  ASSUME IInv, [Next]_vars
  PROVE  NothingLost'
<1>1. stream' = stream /\ stream \in Seq(Byte) /\ sent \in 0..Len(stream) /\ taken \in 0..sent
  BY StreamStays DEF IInv, TypeOK
<1>2. CASE WriteHandshake
  <2> SUFFICES ASSUME phase' = "relay", Parsed'
               PROVE  out' = SubSeq(stream, 1, taken)
    BY <1>1, <1>2 DEF NothingLost, WriteHandshake
  <2>1. handshake.ok
    BY <1>2 DEF WriteHandshake, readVars, Parsed
  <2>2. out' = lengthBytes \o packet
    BY <1>2, <2>1 DEF WriteHandshake
  <2>3. taken = Len(lengthBytes) + Len(packet)
    BY <1>2 DEF WriteHandshake, IInv, ReadFromStart
  <2>4. /\ Piece(stream, 1, lengthBytes \o packet)
        /\ Len(lengthBytes \o packet) = taken
    <3>1. Piece(stream, 1, lengthBytes) /\ Piece(stream, Len(lengthBytes) + 1, packet)
      BY DEF IInv, ReadFromStart
    <3>2. 1 + Len(lengthBytes) = Len(lengthBytes) + 1
      BY DEF IInv, TypeOK
    <3> QED
      BY <2>3, <3>1, <3>2, PiecesJoin
  <2>5. SubSeq(stream, 1, 1 + taken - 1) = lengthBytes \o packet
    BY <2>4, PieceIsSubSeq
  <2>6. 1 + taken - 1 = taken
    BY <1>1
  <2> QED
    BY <2>2, <2>5, <2>6
<1>3. CASE Relay
  <2> SUFFICES ASSUME Parsed'
               PROVE  out' = SubSeq(stream, 1, taken')
    BY <1>1 DEF NothingLost
  <2>1. /\ phase = "relay" /\ taken' = sent
        /\ out' = out \o SubSeq(stream, taken + 1, sent)
    BY <1>3 DEF Relay
  <2>2. Parsed
    BY <1>3 DEF Relay, readVars, Parsed
  <2>3. out = SubSeq(stream, 1, taken)
    BY <2>1, <2>2 DEF IInv, NothingLost
  <2>4. /\ 1 \in 1..(Len(stream) + 1) /\ taken \in (1 - 1)..Len(stream)
        /\ sent \in taken..Len(stream)
    BY <1>1
  <2>5. SubSeq(stream, 1, taken) \o SubSeq(stream, taken + 1, sent) = SubSeq(stream, 1, sent)
    BY <1>1, <2>4, ConcatAdjacentSubSeq
  <2> QED
    BY <2>1, <2>3, <2>5
<1>4. CASE ~WriteHandshake /\ ~Relay
  <2>1. phase' = "relay" => /\ phase = "relay"
                            /\ UNCHANGED <<taken, handshake, out>>
    BY <1>4 DEF Next, vars, clientVars, readVars, LoadProxy, EnsureAddresses, Arrive, Dial,
                ReadHandshake, ReadLengthByte, ReadBody, ReadFails, ResolveServer
  <2> QED
    BY <1>1, <2>1 DEF IInv, NothingLost, Parsed
<1> QED
  BY <1>2, <1>3, <1>4

\* The two parts of an intact handshake, where they are in the stream.
Intact(version, rest) ==
    LET body == Body(message, version)
        size == EncodeVarInt[Len(body)]
    IN  /\ message \in Seq(Byte) /\ version \in Version /\ version \in Nat
        /\ Len(body) \in Nat \ {0}
        /\ VarIntShape(size) /\ ValueOf(size) = Len(body) /\ Len(size) <= Groups
        /\ Piece(stream, 1, size) /\ Piece(stream, Len(size) + 1, body)
        /\ Len(Encode(message, version)) = Len(size) + Len(body)
        /\ ParseHandshake(body) = [ok |-> TRUE, hostname |-> NormalizeHostname(message)]

\* The stream of an intact handshake falls into a length, a body and the rest.
LEMMA IntactParts ==
  ASSUME HandshakeFirst, message # None
  PROVE  \E version, rest : Intact(version, rest)
<1>1. PICK version \in Version, rest \in Rest : stream = Encode(message, version) \o rest
  BY DEF HandshakeFirst
<1>2. /\ message \in Host /\ message \in Seq(Byte)
      /\ version \in Nat /\ rest \in Seq(Byte)
  BY ConfigAssumption DEF HandshakeFirst
<1> DEFINE body == Body(message, version)
           size == EncodeVarInt[Len(body)]
<1>3. body \in Seq(Byte) /\ Len(body) \in Nat \ {0}
  BY <1>2, EncodeType
<1>4. \A n \in {version, Len(message), 2, Len(body)} : Len(EncodeVarInt[n]) <= Groups
  BY <1>2, LengthAssumption
<1>5. VarIntShape(size) /\ ValueOf(size) = Len(body) /\ Len(size) <= Groups
  BY <1>3, <1>4, EncodingIsFaithful
<1>6. ParseHandshake(body) = [ok |-> TRUE, hostname |-> NormalizeHostname(message)]
  BY <1>2, <1>4, BodyIsUnderstood
<1>7. Encode(message, version) = size \o body
  BY DEF Encode
<1> HIDE DEF size, body
<1>8. size \in Seq(Byte)
  BY <1>5 DEF VarIntShape
<1>9. /\ size \o body \in Seq(Byte) /\ Len(size \o body) = Len(size) + Len(body)
      /\ Piece(size \o body, 1, size) /\ Piece(size \o body, Len(size) + 1, body)
  <2>1. Piece(size, 1, size)
    BY <1>8 DEF Piece
  <2> QED
    BY <2>1, <1>3, <1>8, Appended
<1>10. Piece(stream, 1, size) /\ Piece(stream, Len(size) + 1, body)
  BY <1>1, <1>2, <1>7, <1>9, PieceLeft
<1>11. Intact(version, rest)
  BY <1>2, <1>3, <1>5, <1>6, <1>7, <1>9, <1>10 DEF Intact, size, body
<1> QED
  BY <1>11

\* The invariant holds initially.
LEMMA InitHolds == Init => IInv
<1> SUFFICES ASSUME Init
             PROVE  IInv
  OBVIOUS
<1>1. /\ servers \in Config /\ originalIP \in IP /\ sent = 0 /\ taken = 0 /\ phase = "load"
      /\ lengthBytes = <<>> /\ packet = <<>> /\ handshake = None /\ backend = None /\ out = <<>>
  BY DEF Init
<1>2. PICK host \in Host, version \in Version, rest \in Rest :
         LET intact == Encode(host, version) IN
         \/ message = host /\ stream = intact \o rest
         \/ /\ message = None
            /\ host \in Damaged
            /\ \E k \in DOMAIN intact, b \in {1, Base} :
                 stream = [intact EXCEPT ![k] = (@ + b) % (2 * Base)] \o rest
  BY DEF Init
<1> DEFINE intact == Encode(host, version)
<1>3. intact \in Seq(Byte) /\ rest \in Seq(Byte)
  BY ConfigAssumption, EncodeType
<1>4. /\ message \in Host \cup {None}
      /\ stream \in Seq(Byte)
      /\ message # None => message \in Host /\ stream = Encode(message, version) \o rest
  <2>1. CASE message = host /\ stream = intact \o rest
    BY <2>1, <1>3, ConcatProperties
  <2>2. CASE /\ message = None
             /\ \E k \in DOMAIN intact, b \in {1, Base} :
                  stream = [intact EXCEPT ![k] = (@ + b) % (2 * Base)] \o rest
    <3> HIDE DEF intact
    <3>1. PICK k \in DOMAIN intact, b \in {1, Base} :
             stream = [intact EXCEPT ![k] = (@ + b) % (2 * Base)] \o rest
      BY <2>2
    <3>2. k \in 1..Len(intact) /\ intact[k] \in Byte /\ b \in Nat
      BY <1>3, ByteAssumption
    <3>3. (intact[k] + b) % (2 * Base) \in Byte
      <4>1. intact[k] + b \in Nat /\ 2 * Base \in Nat /\ 2 * Base > 0
        <5>1. intact[k] \in Nat
          BY <3>2, DigitType
        <5> QED
          BY <5>1, <3>2, ByteAssumption
      <4> QED
        BY <4>1 DEF Byte
    <3>4. [intact EXCEPT ![k] = (@ + b) % (2 * Base)] \in Seq(Byte)
      BY <1>3, <3>2, <3>3, ExceptSeq
    <3>5. stream \in Seq(Byte)
      BY <3>1, <3>4, <1>3, ConcatProperties
    <3> QED
      BY <2>2, <3>5
  <2> QED
    BY <1>2, <2>1, <2>2
<1>5. /\ <<>> \in Seq(Byte) /\ Len(<<>>) = 0 /\ ValueOf(<<>>) \in Nat
      /\ Groups \in Nat /\ Groups >= 1 /\ Len(stream) \in Nat
  <2>1. <<>> \in Seq(Byte) /\ Len(<<>>) = 0
    BY EmptySeq
  <2>2. ValueOf(<<>>) \in Nat
    BY <2>1, ValueType
  <2> QED
    BY <2>1, <2>2, <1>4, ByteAssumption
<1>6. TypeOK
  BY <1>1, <1>4, <1>5 DEF TypeOK
<1>7. HandshakeFirst
  BY <1>4 DEF HandshakeFirst
<1>8. ReadFromStart
  BY <1>1, <1>4, <1>5 DEF ReadFromStart, Piece
<1>9. LengthFirst
  BY <1>1, <1>5 DEF LengthFirst
<1>10. Stages /\ Chosen /\ NothingLost /\ IntactIsUnderstood
  BY <1>1 DEF Stages, Chosen, NothingLost, IntactIsUnderstood, Parsed
<1> QED
  BY <1>6, <1>7, <1>8, <1>9, <1>10 DEF IInv

\* No byte of the length of an intact handshake fails it, whatever came before.
LEMMA IntactLengthByte ==
  ASSUME IInv, ReadLengthByte, message # None
  PROVE  handshake' = None
<1>1. PICK version, rest : Intact(version, rest)
  BY IntactParts DEF IInv
<1> DEFINE size == EncodeVarInt[Len(Body(message, version))]
<1>2. /\ VarIntShape(size) /\ ValueOf(size) \in Nat \ {0} /\ Len(size) <= Groups
      /\ Len(size) \in Nat \ {0} /\ Piece(stream, 1, size)
  BY <1>1 DEF Intact, VarIntShape
<1> HIDE DEF size
<1>3. /\ taken = Len(lengthBytes) /\ taken \in Nat /\ taken' = taken + 1
      /\ lengthBytes' \in Seq(Byte) /\ Len(lengthBytes') = taken + 1
      /\ lengthBytes'[taken + 1] = stream[taken + 1]
      /\ \A k \in 1..taken : lengthBytes'[k] = lengthBytes[k] /\ ~IsLast(lengthBytes[k])
      /\ Piece(stream, 1, lengthBytes')
  BY LengthByteEffect DEF IInv, TypeOK
<1>4. /\ \A k \in 1..Len(size) : stream[k] = size[k]
      /\ \A k \in 1..(taken + 1) : stream[k] = lengthBytes'[k]
  <2>1. \A k \in 1..Len(size) : stream[k] = size[k]
    BY <1>2, PieceAtStart
  <2>2. Len(lengthBytes') \in Nat
    BY <1>3
  <2>3. \A k \in 1..Len(lengthBytes') : stream[k] = lengthBytes'[k]
    BY <1>3, <2>2, PieceAtStart
  <2> QED
    BY <1>3, <2>1, <2>3
<1>5. taken < Len(size)
  <2> SUFFICES ASSUME taken >= Len(size)
               PROVE  FALSE
    BY <1>2, <1>3
  <2>1. Len(size) \in 1..taken
    BY <1>2, <1>3
  <2>2. size[Len(size)] = lengthBytes[Len(size)]
    BY <2>1, <1>2, <1>3, <1>4
  <2> QED
    BY <2>1, <2>2, <1>2, <1>3 DEF VarIntShape
<1>6. CASE IsLast(stream[taken'])
  <2>1. VarIntShape(lengthBytes')
    BY <1>3, <1>6 DEF VarIntShape
  <2>2. lengthBytes' = size
    BY <2>1, <1>2, <1>3, PrefixFree
  <2>3. ValueOf(lengthBytes') # 0
    BY <2>2, <1>2
  <2> QED
    BY <1>6, <2>3 DEF ReadLengthByte, IInv, Stages
<1>7. CASE ~IsLast(stream[taken'])
  <2>1. taken + 1 # Len(size)
    BY <1>2, <1>3, <1>4, <1>7 DEF VarIntShape
  <2>2. Len(lengthBytes') # Groups
    BY <2>1, <1>2, <1>3, <1>5, ByteAssumption
  <2> QED
    BY <1>7, <2>2 DEF ReadLengthByte, IInv, Stages
<1> QED
  BY <1>6, <1>7

\* The packet of an intact handshake is understood once its last byte is there.
LEMMA IntactBody ==
  ASSUME IInv, ReadBody, message # None
  PROVE  \/ handshake' = None
         \/ handshake' = [ok |-> TRUE, hostname |-> NormalizeHostname(message)]
<1>1. PICK version, rest : Intact(version, rest)
  BY IntactParts DEF IInv
<1> DEFINE body == Body(message, version)
           size == EncodeVarInt[Len(body)]
<1>2. /\ VarIntShape(size) /\ ValueOf(size) = Len(body)
      /\ Piece(stream, 1, size) /\ Piece(stream, Len(size) + 1, body)
      /\ ParseHandshake(body) = [ok |-> TRUE, hostname |-> NormalizeHostname(message)]
  BY <1>1 DEF Intact
<1> HIDE DEF size, body
<1>3. lengthBytes = size
  <2>1. VarIntShape(lengthBytes) /\ Piece(stream, 1, lengthBytes)
    BY DEF IInv, LengthFirst, ReadFromStart, ReadBody
  <2> QED
    BY <2>1, <1>2, PrefixFree
<1>4. CASE Len(Arrived) < Missing
  BY <1>4 DEF ReadBody, IInv, Stages
<1>5. CASE ~(Len(Arrived) < Missing)
  <2>1. /\ Len(Arrived) = Missing /\ packet' = packet \o Arrived
        /\ Len(packet') = Len(body)
        /\ Piece(stream, Len(size) + 1, packet')
    BY <1>2, <1>3, <1>5, BodyEffect
  <2>2. packet' = body
    <3>1. /\ packet' = SubSeq(stream, Len(size) + 1, Len(size) + 1 + Len(packet') - 1)
          /\ body = SubSeq(stream, Len(size) + 1, Len(size) + 1 + Len(body) - 1)
      BY <2>1, <1>2, PieceIsSubSeq
    <3> QED
      BY <3>1, <2>1
  <2>3. handshake' = ParseHandshake(body)
    BY <1>5, <2>1, <2>2 DEF ReadBody
  <2> QED
    BY <2>3, <1>2
<1> QED
  BY <1>4, <1>5

\* While a handshake is read, less of it is there than there will be.
LEMMA IntactIncomplete ==
  ASSUME IInv, phase \in {"length", "body"}, message # None
  PROVE  \E version \in Version :
            Len(lengthBytes) + Len(packet) < Len(Encode(message, version))
<1>1. PICK version, rest : Intact(version, rest)
  BY IntactParts DEF IInv
<1> DEFINE body == Body(message, version)
           size == EncodeVarInt[Len(body)]
<1>2. /\ version \in Version
      /\ VarIntShape(size) /\ ValueOf(size) = Len(body) /\ Len(body) \in Nat \ {0}
      /\ Piece(stream, 1, size) /\ Len(Encode(message, version)) = Len(size) + Len(body)
  BY <1>1 DEF Intact
<1> HIDE DEF size, body
<1>3. Len(size) \in Nat \ {0} /\ Len(lengthBytes) \in Nat /\ Len(packet) \in Nat
  BY <1>2 DEF VarIntShape, IInv, TypeOK
<1>4. CASE phase = "length"
  <2>1. packet = <<>> /\ \A k \in 1..Len(lengthBytes) : ~IsLast(lengthBytes[k])
    BY <1>3, <1>4 DEF IInv, LengthFirst, TypeOK
  <2>2. \A k \in 1..Len(lengthBytes) : k <= Len(size) => lengthBytes[k] = size[k]
    BY <1>2, <1>3 DEF IInv, ReadFromStart, Piece
  <2>3. Len(lengthBytes) < Len(size)
    BY <2>1, <2>2, <1>2, <1>3 DEF VarIntShape
  <2>4. Len(packet) = 0
    BY <2>1
  <2> QED
    BY <2>3, <2>4, <1>2, <1>3
<1>5. CASE phase = "body"
  <2>1. /\ VarIntShape(lengthBytes) /\ Len(packet) < ValueOf(lengthBytes)
        /\ Piece(stream, 1, lengthBytes)
    BY <1>5 DEF IInv, LengthFirst, ReadFromStart
  <2>2. lengthBytes = size
    BY <2>1, <1>2, PrefixFree
  <2> QED
    BY <2>1, <2>2, <1>2, <1>3
<1> QED
  BY <1>4, <1>5

\* An intact handshake fails only when it is cut short, and else gives its name.
LEMMA UnderstoodStep ==
  ASSUME IInv, [Next]_vars
  PROVE  IntactIsUnderstood'
<1> SUFFICES ASSUME message # None, handshake' # None
             PROVE  \/ Parsed' /\ handshake'.hostname = NormalizeHostname(message)
                    \/ /\ ~Parsed'
                       /\ \E version \in Version :
                             Len(lengthBytes') + Len(packet') < Len(Encode(message, version))
  BY StreamStays DEF IntactIsUnderstood
<1>1. CASE ReadLengthByte
  BY <1>1, IntactLengthByte
<1>2. CASE ReadBody
  BY <1>2, IntactBody DEF Parsed
<1>3. CASE ReadFails
  <2>1. /\ phase \in {"length", "body"} /\ handshake' = Fail
        /\ UNCHANGED <<lengthBytes, packet>>
    BY <1>3 DEF ReadFails
  <2>2. ~Parsed'
    BY <2>1 DEF Parsed, Fail
  <2> QED
    BY <2>1, <2>2, IntactIncomplete
<1>4. CASE ~ReadLengthByte /\ ~ReadBody /\ ~ReadFails
  <2>1. UNCHANGED <<lengthBytes, packet, handshake>>
    BY <1>4, OthersReadNothing
  <2> QED
    BY <2>1 DEF IInv, IntactIsUnderstood, Parsed
<1> QED
  BY <1>1, <1>2, <1>3, <1>4

(***************************************************************************)
(* The theorems.                                                           *)
(***************************************************************************)
\* IInv holds in every state.
THEOREM Invariance == Spec => []IInv
<1>1. IInv /\ [Next]_vars => IInv'
  <2> SUFFICES ASSUME IInv, [Next]_vars
               PROVE  IInv'
    OBVIOUS
  <2>1. HandshakeFirst'
    BY StreamStays DEF IInv, HandshakeFirst
  <2> QED
    BY <2>1, TypeStep, ReadFromStartStep, LengthFirstStep, StagesStep, ChosenStep,
       NothingLostStep, UnderstoodStep DEF IInv
<1> QED
  BY <1>1, InitHolds, PTL DEF Spec

\* What is read, chosen and forwarded has its type, a VarInt at most Groups bytes.
THEOREM TypeCorrect == Spec => []TypeOK
<1>1. IInv => TypeOK
  BY DEF IInv
<1> QED
  BY <1>1, Invariance, PTL

\* Whatever the pieces in which a stream comes, a backend gets it from the first
\* byte on without a gap and nothing twice.
THEOREM StreamKept == Spec => []NothingLost
<1>1. IInv => NothingLost
  BY DEF IInv
<1> QED
  BY <1>1, Invariance, PTL

\* A well formed handshake of any host and version is taken for what it says.
THEOREM Understood == Spec => []IntactIsUnderstood
<1>1. IInv => IntactIsUnderstood
  BY DEF IInv
<1> QED
  BY <1>1, Invariance, PTL

\* An intact handshake that was read goes to a server that lists the name it
\* gives, or without one, or with the address dialed for one, to a server of that
\* address; a handshake with any other name goes nowhere.
THEOREM Routed == Spec => []RoutedAsConfigured
<1>1. IInv => RoutedAsConfigured
  <2> DEFINE name == NormalizeHostname(message)
             listing == {k \in DOMAIN servers :
                           \E h \in servers[k].hostnames : SameName(h, message)}
             dialed == {k \in DOMAIN servers : servers[k].ip = originalIP}
             meant == IF listing # {} THEN listing
                      ELSE {k \in dialed : \/ name = <<>>
                                            \/ /\ name \in DOMAIN LiteralOf
                                               /\ LiteralOf[name] = originalIP}
  <2> SUFFICES ASSUME IInv, message # None, Parsed, phase # "resolve"
               PROVE  IF meant = {} THEN backend = None ELSE backend \in meant
    BY DEF RoutedAsConfigured
  <2>1. handshake.hostname = name /\ handshake # None /\ handshake.ok
    BY DEF IInv, IntactIsUnderstood, Parsed
  <2>2. ByHostname(handshake.hostname) = listing
    BY <2>1 DEF ByHostname, SameName
  <2>3. phase \in {"dial", "write", "relay", "closed"}
    BY <2>1 DEF IInv, TypeOK, Stages
  <2>4. Candidates = meant
    <3>1. CASE listing # {}
      BY <2>1, <2>2, <3>1 DEF Candidates
    <3>2. CASE listing = {}
      BY <2>1, <2>2, <3>2 DEF Candidates, ByIP, ShouldFallbackToOriginalIP
    <3> QED
      BY <3>1, <3>2
  <2> HIDE DEF meant
  <2>5. CASE meant = {}
    BY <2>4, <2>5 DEF IInv, Chosen
  <2>6. CASE meant # {}
    BY <2>1, <2>3, <2>4, <2>6 DEF IInv, Chosen
  <2> QED
    BY <2>5, <2>6
<1> QED
  BY <1>1, Invariance, PTL

\* A client that names no host goes by the address it dialed, whatever names are
\* configured, but for those that Validate lets pass and that are none.
THEOREM Nameless == Spec => []NamelessGoesByAddress
<1>1. IInv => NamelessGoesByAddress
  <2> SUFFICES ASSUME IInv, backend # None, ~Parsed \/ handshake.hostname = <<>>,
                      \A k \in DOMAIN servers :
                         \A h \in servers[k].hostnames : ~NamesNothing(h)
               PROVE  servers[backend].ip = originalIP
    BY DEF NamelessGoesByAddress
  <2>1. backend \in Candidates /\ handshake \in Result /\ Validate(servers)
    BY DEF IInv, Chosen
  <2>2. handshake # None
    BY <2>1, NoResultAssumption
  <2>3. CASE ~Parsed
    <3>1. ~handshake.ok
      BY <2>2, <2>3 DEF Parsed
    <3> QED
      BY <2>1, <3>1 DEF Candidates, ByIP
  <2>4. CASE handshake.hostname = <<>>
    <3>1. ByHostname(<<>>) = {}
      <4> SUFFICES ASSUME NEW k \in DOMAIN servers, NEW h \in servers[k].hostnames,
                          NormalizeHostname(h) = <<>>
                   PROVE  FALSE
        BY DEF ByHostname
      <4>1. h \in Seq(Byte)
        <5> DEFINE Server == [ip : IP \cup {None}, hostnames : SUBSET Seq(Byte)]
        <5>1. servers \in Seq(Server)
          BY ConfigAssumption DEF IInv, TypeOK
        <5>2. servers[k] \in Server
          <6> HIDE DEF Server
          <6>1. k \in 1..Len(servers)
            BY <5>1
          <6> QED
            BY <5>1, <6>1, ElementOfSeq
        <5> QED
          BY <5>2
      <4>2. TrimSpace(h) # <<>>
        BY <2>1 DEF Validate, Blank
      <4> QED
        BY <4>1, <4>2, NormalizeType
    <3>2. backend \in ByIP
      BY <2>1, <2>4, <3>1 DEF Candidates
    <3> QED
      BY <3>2 DEF ByIP
  <2> QED
    BY <2>3, <2>4
<1> QED
  BY <1>1, Invariance, PTL

=================================================================================
