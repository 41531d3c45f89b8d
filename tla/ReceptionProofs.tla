-------------------------- MODULE ReceptionProofs ---------------------------
(***************************************************************************)
(* Proofs about Reception, for all sensors, channels, rolling codes,       *)
(* readings, configurations and times:                                     *)
(*  - the fields of a message tell its sensor and its reading, because     *)
(*    numbers are the values of their bits (Bits, DataLemmas);             *)
(*  - equals and getId tell the same data apart but for the bits that only *)
(*    one of them reads (IdentityIsEquality), and so the same sensors, but *)
(*    for a WH2 and an FT007TH with the same code, twins: the invariants   *)
(*    are about the other sensors, whatever twins there are among them;    *)
(*  - update leaves an item of the same sensor, and reports it in time;    *)
(*  - update leaves the last reading in the item, and reports what changes;*)
(*  - the invariants, and the theorems at the end.                         *)
(*                                                                         *)
(* IdentityIsEquality is about all data there may be, and TypeCorrect      *)
(* holds whatever the decoders do.  The other theorems take from the       *)
(* decoders only that a valid message is the one that its sensor has sent, *)
(* AcceptedIsSent, which TLC checks; a message that has failed a check may *)
(* say anything.                                                           *)
(***************************************************************************)
EXTENDS Reception, DataLemmas

-----------------------------------------------------------------------------
(* The fields of a message                                                 *)

\* A field is the number of its bits.
LEMMA FieldIsValue ==
  ASSUME NEW n \in Nat, NEW q, IsBits(q, n), NEW high \in 0 .. n - 1, NEW low \in 0 .. high
  PROVE  /\ Field(q, high, low) = Value(SubSeq(q, n - high, n - low))
         /\ IsBits(SubSeq(q, n - high, n - low), high - low + 1)
         /\ \A k \in 1 .. high - low + 1 : SubSeq(q, n - high, n - low)[k] = q[n - high + k - 1]
         /\ Field(q, high, low) \in Nat
<1>1. Len(q) = n
  BY DEF IsBits
<1>2. n - high \in 1 .. n /\ n - low \in n - high .. n /\ (n - low) - (n - high) + 1 = high - low + 1
  OBVIOUS
<1>3. Field(q, high, low) = Value(SubSeq(q, n - high, n - low))
  BY <1>1 DEF Field
<1>4. /\ IsBits(SubSeq(q, n - high, n - low), high - low + 1)
      /\ \A k \in 1 .. high - low + 1 : SubSeq(q, n - high, n - low)[k] = q[n - high + k - 1]
  BY <1>2, PartBits
<1>5. high - low + 1 \in Nat
  OBVIOUS
<1>6. Value(SubSeq(q, n - high, n - low)) \in Nat
  BY <1>4, <1>5, ValueType
<1> QED
  BY <1>3, <1>4, <1>6

\* Fields are the same when their bits are.
LEMMA FieldSame ==
  ASSUME NEW n \in Nat, NEW p, NEW q, IsBits(p, n), IsBits(q, n),
         NEW high \in 0 .. n - 1, NEW low \in 0 .. high
  PROVE  Field(p, high, low) = Field(q, high, low) <=> \A k \in n - high .. n - low : p[k] = q[k]
<1> DEFINE a == SubSeq(p, n - high, n - low)
           b == SubSeq(q, n - high, n - low)
           w == high - low + 1
<1>1. /\ Field(p, high, low) = Value(a) /\ IsBits(a, w)
      /\ \A k \in 1 .. w : a[k] = p[n - high + k - 1]
  BY FieldIsValue
<1>2. /\ Field(q, high, low) = Value(b) /\ IsBits(b, w)
      /\ \A k \in 1 .. w : b[k] = q[n - high + k - 1]
  BY FieldIsValue
<1>3. w \in Nat
  OBVIOUS
<1> HIDE DEF a, b
<1>4. ASSUME \A k \in n - high .. n - low : p[k] = q[k]
      PROVE  a = b
  <2>1. \A k \in 1 .. w : n - high + k - 1 \in n - high .. n - low
    OBVIOUS
  <2>2. \A k \in 1 .. w : a[k] = b[k]
    BY <1>1, <1>2, <1>4, <2>1
  <2> HIDE DEF w
  <2> QED
    BY <1>1, <1>2, <1>3, <2>2, BitsEqual
<1>5. ASSUME Value(a) = Value(b), NEW k \in n - high .. n - low
      PROVE  p[k] = q[k]
  <2>1. a = b
    BY <1>1, <1>2, <1>3, <1>5, ValueInjective
  <2>2. k - (n - high) + 1 \in 1 .. w /\ n - high + (k - (n - high) + 1) - 1 = k
    OBVIOUS
  <2> HIDE DEF w
  <2> QED
    BY <1>1, <1>2, <2>1, <2>2
<1> QED
  BY <1>1, <1>2, <1>4, <1>5

\* A part of a field is the same when the field is.
LEMMA FieldPart ==
  ASSUME NEW n \in Nat, NEW p, NEW q, IsBits(p, n), IsBits(q, n),
         NEW high \in 0 .. n - 1, NEW low \in 0 .. high, NEW h \in low .. high, NEW l \in low .. h,
         Field(p, high, low) = Field(q, high, low)
  PROVE  Field(p, h, l) = Field(q, h, l)
<1>1. \A k \in n - high .. n - low : p[k] = q[k]
  BY FieldSame
<1>2. \A k \in n - h .. n - l : p[k] = q[k]
  BY <1>1
<1>3. h \in 0 .. n - 1 /\ l \in 0 .. h
  OBVIOUS
<1> QED
  BY <1>2, <1>3, FieldSame

\* The whole string is a field, too.
LEMMA FieldOfAll ==
  ASSUME NEW n \in Nat \ {0}, NEW q, IsBits(q, n)
  PROVE  Field(q, n - 1, 0) = Value(q)
<1> DEFINE p == SubSeq(q, n - (n - 1), n - 0)
<1>1. n - 1 \in 0 .. n - 1 /\ 0 \in 0 .. n - 1 /\ (n - 1) - 0 + 1 = n /\ \A k \in 1 .. n : n - (n - 1) + k - 1 = k
  OBVIOUS
<1>2. Field(q, n - 1, 0) = Value(p) /\ IsBits(p, n) /\ \A k \in 1 .. n : p[k] = q[k]
  BY <1>1, FieldIsValue
<1> HIDE DEF p
<1> QED
  BY <1>2, BitsEqual

\* A bit as a number.
LEMMA ValueOfBit ==
  ASSUME NEW b \in {0, 1}
  PROVE  Value(<<b>>) = b
<1> DEFINE d == <<b>>
<1>1. Len(d) = 1 /\ d[1] = b
  OBVIOUS
<1> HIDE DEF d
<1>2. PICK g : IsSum(g, 2, d, 1) /\ Value(d) = g[1]
  BY <1>1, ValueIsSum
<1>3. g[0] = 0 /\ g[1] = 2 * g[0] + d[1]
  BY <1>2 DEF IsSum
<1>4. Value(d) = b
  BY <1>1, <1>2, <1>3
<1> QED
  BY <1>4 DEF d

\* A number that the bits have room for.
LEMMA ValueOfSmall ==
  ASSUME NEW n \in Nat, NEW v \in Nat, v < 2 ^ n
  PROVE  Value(Binary(v, n)) = v
<1>1. v % 2 ^ n = v
  BY PowerOfTwo, SmallRemainder
<1>2. v \in Int
  OBVIOUS
<1> QED
  BY <1>1, <1>2, ValueOfBinary

\* A number that fewer bits have room for.
LEMMA ValueOfLow ==
  ASSUME NEW n \in Nat, NEW m \in Nat, m <= n, NEW v \in Nat, v < 2 ^ m, NEW top \in Nat, m = top + 1
  PROVE  Field(Binary(v, n), top, 0) = v
<1> DEFINE p == Binary(v, n)
           q == Binary(v, m)
           a == SubSeq(p, n - top, n - 0)
<1>1. v \in Int /\ top \in 0 .. n - 1 /\ 0 \in 0 .. top /\ top - 0 + 1 = m /\ m \in 0 .. n
  OBVIOUS
<1>2. IsBits(p, n) /\ IsBits(q, m)
  BY <1>1, BinaryIsBits
<1>3. \A k \in 1 .. m : p[n - m + k] = q[k]
  BY <1>1, BinaryLowBits
<1>4. Value(q) = v
  BY ValueOfSmall
<1> HIDE DEF p, q
<1>5. /\ Field(p, top, 0) = Value(a) /\ IsBits(a, m)
      /\ \A k \in 1 .. m : a[k] = p[n - top + k - 1]
  BY <1>1, <1>2, FieldIsValue
<1>6. \A k \in 1 .. m : n - top + k - 1 = n - m + k
  OBVIOUS
<1> HIDE DEF a
<1>7. \A k \in 1 .. m : a[k] = q[k]
  BY <1>3, <1>5, <1>6
<1>8. a = q
  BY <1>2, <1>5, <1>7, BitsEqual
<1> QED
  BY <1>4, <1>5, <1>8 DEF p

\* Two bits.
LEMMA TwoBits ==
  ASSUME NEW b \in {0, 1}, NEW c \in {0, 1}
  PROVE  IsBits(<<b, c>>, 2)
<1>1. <<b, c>> \in Seq({0, 1}) /\ Len(<<b, c>>) = 2
  OBVIOUS
<1> QED
  BY <1>1 DEF IsBits

\* Three bits.
LEMMA ThreeBits == IsBits(<<0, 0, 0>>, 3)
<1>1. <<0, 0, 0>> \in Seq({0, 1}) /\ Len(<<0, 0, 0>>) = 3
  OBVIOUS
<1> QED
  BY <1>1 DEF IsBits

\* The parity of bits is a bit.
LEMMA ParityType ==
  ASSUME NEW n \in Nat, NEW q, IsBits(q, n)
  PROVE  Parity(q) \in {0, 1}
<1> DEFINE ones == {k \in DOMAIN q : q[k] = 1}
<1>1. DOMAIN q = 1 .. n
  BY BitsMembers
<1>2. ones \in SUBSET (1 .. n)
  BY <1>1
<1>3. IsFiniteSet(1 .. n)
  BY FS_Interval
<1>4. IsFiniteSet(ones)
  BY <1>2, <1>3, FS_Subset
<1>5. Cardinality(ones) \in Nat
  BY <1>4, FS_CardinalityType
<1> DEFINE size == Cardinality(ones)
<1> HIDE DEF size
<1>6. size \in Nat => (size % 2) \in {0, 1}
  OBVIOUS
<1> QED
  BY <1>5, <1>6 DEF Parity, size

\* The checksum of groups of bits is a number.
LEMMA SumOfType ==
  ASSUME NEW m \in Nat, NEW w \in Nat \ {0}, NEW q, IsBits(q, w * m)
  PROVE  SumOf(Groups(q, w)) \in Nat
<1> DEFINE groups == Groups(q, w)
<1>1. groups = [k \in 1 .. m |-> SubSeq(q, w * (k - 1) + 1, w * k)]
  <2>1. Len(q) = w * m
    BY DEF IsBits
  <2>2. (w * m) \div w = m
    OBVIOUS
  <2> QED
    BY <2>1, <2>2 DEF Groups
<1>2. ASSUME NEW k \in 1 .. m
      PROVE  Value(groups[k]) \in Nat
  <2> DEFINE i == w * (k - 1) + 1
             j == w * k
             n == w * m
  <2>1. i \in Nat /\ j \in Nat /\ n \in Nat /\ 1 <= i /\ j = i + (w - 1) /\ j <= n
    OBVIOUS
  <2> HIDE DEF i, j, n
  <2>2. i \in 1 .. n /\ j \in i .. n /\ j - i + 1 \in Nat
    BY <2>1
  <2>3. IsBits(q, n)
    BY DEF n
  <2>4. IsBits(SubSeq(q, i, j), j - i + 1)
    BY <2>1, <2>2, <2>3, PartBits
  <2>5. Value(SubSeq(q, i, j)) \in Nat
    BY <2>2, <2>4, ValueType
  <2> QED
    BY <1>1, <2>5 DEF i, j
<1>3. Len(groups) = m
  BY <1>1
<1> HIDE DEF groups
<1> DEFINE e == [k \in 1 .. m |-> Value(groups[k])]
           first == CHOOSE g : g = [k \in 0 .. Len(groups) |-> IF k = 0 THEN 0 ELSE g[k - 1] + Value(groups[k])]
<1>4. SumOf(groups) = first[Len(groups)]
  BY Zenon DEF SumOf
<1>5. \E g : g = [k \in 0 .. Len(groups) |-> IF k = 0 THEN 0 ELSE g[k - 1] + Value(groups[k])]
  <2>1. PICK g : IsSum(g, 1, e, m)
    BY SumExists
  <2>2. \A k \in 1 .. m : e[k] \in Nat
    BY <1>2
  <2>3. \A k \in 0 .. m : g[k] \in Nat
    BY <2>1, <2>2, SumType
  <2>4. g = [k \in 0 .. m |-> IF k = 0 THEN 0 ELSE 1 * g[k - 1] + e[k]]
    BY <2>1 DEF IsSum
  <2> DEFINE r == [k \in 0 .. m |-> IF k = 0 THEN 0 ELSE g[k - 1] + Value(groups[k])]
  <2>5. ASSUME NEW k \in 0 .. m
        PROVE  g[k] = r[k]
    <3>1. CASE k = 0
      BY <2>4, <3>1
    <3>2. CASE k # 0
      <4>1. k \in 1 .. m /\ k - 1 \in 0 .. m
        BY <3>2
      <4>2. g[k - 1] \in Nat /\ e[k] = Value(groups[k])
        BY <2>3, <4>1
      <4>3. g[k] = 1 * g[k - 1] + e[k]
        BY <2>4, <3>2
      <4>4. r[k] = g[k - 1] + Value(groups[k])
        BY <3>2
      <4> HIDE DEF r, e
      <4> QED
        BY <2>2, <4>1, <4>2, <4>3, <4>4
    <3> QED
      BY <3>1, <3>2
  <2>6. g = [k \in 0 .. m |-> g[k]]
    BY <2>4
  <2>7. g = r
    BY <2>5, <2>6
  <2> QED
    BY <1>3, <2>7
<1>6. first = [k \in 0 .. Len(groups) |-> IF k = 0 THEN 0 ELSE first[k - 1] + Value(groups[k])]
  BY <1>5, Zenon
<1> HIDE DEF first, e
<1>7. first[0] = 0 /\ \A k \in 1 .. m : first[k] = first[k - 1] + Value(groups[k])
  BY <1>3, <1>6
<1>8. first[m] \in Nat
  <2> DEFINE T == {k \in Nat : k <= m /\ first[k] \notin Nat}
  <2>1. SUFFICES ASSUME T # {}
                 PROVE  FALSE
    OBVIOUS
  <2>2. T \in SUBSET Nat
    OBVIOUS
  <2>3. PICK k \in T : \A o \in T : k <= o
    BY <2>1, <2>2, LeastExists
  <2>4. k # 0
    BY <1>7, <2>3
  <2>5. k \in 1 .. m /\ k - 1 \in Nat /\ k - 1 <= m
    BY <2>3, <2>4
  <2>6. first[k - 1] \in Nat
    BY <2>3, <2>5
  <2> QED
    BY <1>2, <1>7, <2>3, <2>5, <2>6
<1>9. SumOf(groups) \in Nat
  BY <1>3, <1>4, <1>8
<1> QED
  BY <1>9 DEF groups

-----------------------------------------------------------------------------
(* Where bits lie in a message                                             *)

\* The bits p, n of them, are in q behind the first k.
Placed(q, k, p, n) == \A j \in 1 .. n : q[k + j] = p[j]

\* What is appended is placed behind the rest, which stays where it is.
LEMMA PlacedBehind ==
  ASSUME NEW m \in Nat, NEW n \in Nat, NEW a, NEW b, IsBits(a, m), IsBits(b, n)
  PROVE  IsBits(a \o b, m + n) /\ Placed(a \o b, m, b, n)
<1> DEFINE c == a \o b
           all == m + n
<1>1. Len(a) = m /\ Len(b) = n
  BY DEF IsBits
<1>2. \A j \in 1 .. n : m + j \in m + 1 .. all /\ (m + j) - m = j
  OBVIOUS
<1>3. IsBits(c, all)
  BY ConcatBits
<1>4. \A k \in m + 1 .. all : c[k] = b[k - m]
  BY <1>1, ConcatBits
<1> HIDE DEF c, all
<1>5. Placed(c, m, b, n)
  BY <1>2, <1>4 DEF Placed
<1> QED
  BY <1>3, <1>5 DEF c, all

\* What was placed in the first bits stays there.
LEMMA PlacedBefore ==
  ASSUME NEW m \in Nat, NEW n \in Nat, NEW a, NEW b, IsBits(a, m), IsBits(b, n),
         NEW k \in Nat, NEW w \in Nat, NEW p, Placed(a, k, p, w), k + w <= m
  PROVE  Placed(a \o b, k, p, w)
<1> DEFINE c == a \o b
           all == m + n
<1>1. Len(a) = m /\ Len(b) = n
  BY DEF IsBits
<1>2. \A j \in 1 .. w : k + j \in 1 .. m
  OBVIOUS
<1>3. \A j \in 1 .. m : c[j] = a[j]
  BY <1>1, ConcatBits
<1> HIDE DEF c
<1>4. Placed(c, k, p, w)
  BY <1>2, <1>3 DEF Placed
<1> QED
  BY <1>4 DEF c

\* The bits of a field.
LEMMA FieldBits ==
  ASSUME NEW n \in Nat, NEW p, IsBits(p, n), NEW high \in Nat, NEW low \in Nat, high < n, low <= high,
         NEW w, w = high - low + 1
  PROVE  /\ Field(p, high, low) = Value(SubSeq(p, n - high, n - low))
         /\ IsBits(SubSeq(p, n - high, n - low), w)
         /\ \A j \in 1 .. w : SubSeq(p, n - high, n - low)[j] = p[n - high + j - 1]
<1>1. high \in 0 .. n - 1 /\ low \in 0 .. high
  OBVIOUS
<1> QED
  BY <1>1, FieldIsValue

\* A field of what is placed somewhere.
LEMMA PlacedField ==
  ASSUME NEW all \in Nat, NEW k \in Nat, NEW n \in Nat, NEW q, NEW p, IsBits(q, all), IsBits(p, n),
         Placed(q, k, p, n), k + n <= all,
         NEW high \in Nat, NEW low \in Nat, high < n, low <= high
  PROVE  Field(q, all - k - n + high, all - k - n + low) = Field(p, high, low)
<1> PICK h, l : h = all - k - n + high /\ l = all - k - n + low
  OBVIOUS
<1> DEFINE a == SubSeq(q, all - h, all - l)
           b == SubSeq(p, n - high, n - low)
           w == high - low + 1
<1>1. /\ h \in 0 .. all - 1 /\ l \in 0 .. h /\ h - l + 1 = w
      /\ high \in 0 .. n - 1 /\ low \in 0 .. high /\ w \in Nat
      /\ w = high - low + 1
  OBVIOUS
<1>4. \A j \in 1 .. w : n - high + j - 1 \in 1 .. n /\ all - h + j - 1 = k + (n - high + j - 1)
  OBVIOUS
<1> HIDE DEF w
<1>2. /\ Field(q, h, l) = Value(a) /\ IsBits(a, w)
      /\ \A j \in 1 .. w : a[j] = q[all - h + j - 1]
  <2>1. h \in Nat /\ l \in Nat /\ h < all /\ l <= h /\ w = h - l + 1
    BY <1>1
  <2>2. Field(q, h, l) = Value(a)
    BY <2>1, FieldBits
  <2>3. IsBits(a, w)
    BY <2>1, FieldBits
  <2>4. \A j \in 1 .. w : a[j] = q[all - h + j - 1]
    BY <2>1, FieldBits
  <2> QED
    BY <2>2, <2>3, <2>4
<1>3. /\ Field(p, high, low) = Value(b) /\ IsBits(b, w)
      /\ \A j \in 1 .. w : b[j] = p[n - high + j - 1]
  <2>1. Field(p, high, low) = Value(b)
    BY <1>1, FieldBits
  <2>2. IsBits(b, w)
    BY <1>1, FieldBits
  <2>3. \A j \in 1 .. w : b[j] = p[n - high + j - 1]
    BY <1>1, FieldBits
  <2> QED
    BY <2>1, <2>2, <2>3
<1> HIDE DEF a, b
<1>5. \A j \in 1 .. w : a[j] = b[j]
  BY <1>2, <1>3, <1>4 DEF Placed
<1>6. a = b
  BY <1>1, <1>2, <1>3, <1>5, BitsEqual
<1> QED
  BY <1>2, <1>3, <1>6

\* The field that is all of what is placed somewhere.
LEMMA PlacedValue ==
  ASSUME NEW all \in Nat, NEW k \in Nat, NEW n \in Nat \ {0}, NEW q, NEW p, IsBits(q, all), IsBits(p, n),
         Placed(q, k, p, n), k + n <= all
  PROVE  Field(q, all - k - 1, all - k - n) = Value(p)
<1>1. /\ n - 1 \in Nat /\ 0 \in Nat /\ n - 1 < n /\ 0 <= n - 1
      /\ all - k - n + (n - 1) = all - k - 1 /\ all - k - n + 0 = all - k - n
  OBVIOUS
<1>2. Field(q, all - k - n + (n - 1), all - k - n + 0) = Field(p, n - 1, 0)
  BY <1>1, PlacedField
<1>3. Field(p, n - 1, 0) = Value(p)
  BY FieldOfAll
<1> QED
  BY <1>1, <1>2, <1>3

\* The low bits of a number that fewer bits have room for.
LEMMA SevenOfEight ==
  ASSUME NEW v \in Nat, v < 2 ^ 7
  PROVE  Field(Binary(v, 8), 6, 0) = v
<1>1. {0, 6, 7, 8} \subseteq Nat /\ 7 <= 8 /\ 7 = 6 + 1
  OBVIOUS
<1> QED
  BY <1>1, ValueOfLow, ZenonT(60)

-----------------------------------------------------------------------------
(* The messages of each model: what its sensor sends is in its fields      *)

\* The range of what a message tells.
LEMMA ReadingTypes ==
  ASSUME NEW s \in AllSensors, NEW r \in ReadingsOf(s)
  PROVE  /\ r.t \in Temperatures(s.model) /\ r.h \in Humidities(s.model)
         /\ r.ok \in BOOLEAN
         /\ s.rc \in Nat /\ s.channel \in Nat
         /\ s.rc \in Int /\ s.channel - 1 \in Int
  BY ReadingsAssumption DEF ReadingsAssumption

\* The bits of a TX141.
LEMMA LayoutTX141 ==
  ASSUME NEW s \in AllSensors, s.model = "tx141", NEW r \in ReadingsOf(s), NEW what,
         NEW q, q = DataOf(s, r, what)
  PROVE  /\ IsBits(q, 32)
         /\ Field(q, 19, 8) = r.t + 500
         /\ Field(q, 7, 0) = r.h
<1>1. PICK x, y : x = r.t /\ y = r.h
  OBVIOUS
<1>2. x \in -500 .. 3595 /\ y \in 0 .. 255
  <2>1. x \in Temperatures(s.model) /\ y \in Humidities(s.model)
    BY <1>1, ReadingTypes
  <2>2. x \in -500 .. 3595
    BY <2>1, SMT DEF Temperatures
  <2>3. y \in 0 .. 255
    BY <2>1, SMT DEF Humidities
  <2> QED
    BY <2>2, <2>3
<1>3. PICK t, h : t = x + 500 /\ h = y
  OBVIOUS
<1>4. /\ t \in Int /\ t \in Nat /\ t < 2 ^ 12
      /\ h \in Int /\ h \in Nat /\ h < 2 ^ 8
  <2>1. (x + 500) \in Nat /\ (x + 500) < 2 ^ 12
    BY <1>2, SMT
  <2>2. y \in Nat /\ y < 2 ^ 8
    BY <1>2, SMT
  <2> QED
    BY <1>3, <2>1, <2>2, SMT
<1>5. s.rc \in Int /\ s.channel - 1 \in Int
  BY ReadingTypes
<1>6. PICK bit \in {0, 1} : <<bit>> = BatteryBit(r.ok)
  BY DEF BatteryBit
<1> DEFINE p1 == Binary(s.rc, 8)
           p2 == <<bit>>
           q2 == p1 \o p2
           p3 == <<0>>
           q3 == q2 \o p3
           p4 == Binary(s.channel - 1, 2)
           q4 == q3 \o p4
           p5 == Binary(t, 12)
           q5 == q4 \o p5
           p6 == Binary(h, 8)
           q6 == q5 \o p6
<1>7. q = q6
  BY <1>1, <1>3, <1>6 DEF DataOf
<1>8. /\ IsBits(p1, 8)
      /\ IsBits(p2, 1)
      /\ IsBits(p3, 1)
      /\ IsBits(p4, 2)
      /\ IsBits(p5, 12)
      /\ IsBits(p6, 8)
  BY <1>4, <1>5, <1>6, BinaryIsBits, OneBit
<1>9. Value(p5) = t
  BY <1>4, ValueOfSmall
<1>10. Value(p6) = h
  BY <1>4, ValueOfSmall
<1> HIDE DEF p1, p2, p3, p4, p5, p6, q2, q3, q4, q5, q6
<1>11. /\ {0, 1, 2, 8, 9, 10, 12, 24, 32} \subseteq Nat
      /\ 8 + 1 = 9 /\ 9 + 1 = 10 /\ 10 + 2 = 12 /\ 12 + 12 = 24 /\ 24 + 8 = 32
  OBVIOUS
<1>12. IsBits(q2, 9)
  BY <1>8, <1>11, PlacedBehind DEF q2
<1>13. IsBits(q3, 10)
  BY <1>8, <1>11, <1>12, PlacedBehind DEF q3
<1>14. IsBits(q4, 12)
  BY <1>8, <1>11, <1>13, PlacedBehind DEF q4
<1>15. IsBits(q5, 24) /\ Placed(q5, 12, p5, 12)
  BY <1>8, <1>11, <1>14, PlacedBehind DEF q5
<1>16. /\ IsBits(q6, 32) /\ Placed(q6, 24, p6, 8)
      /\ Placed(q6, 12, p5, 12)
  <2>1. IsBits(q6, 32) /\ Placed(q6, 24, p6, 8)
    BY <1>8, <1>11, <1>15, PlacedBehind DEF q6
  <2>2. Placed(q6, 12, p5, 12)
    BY <1>8, <1>11, <1>15, PlacedBefore DEF q6
  <2> QED
    BY <2>1, <2>2
<1>17. Field(q6, 19, 8) = t
  <2>1. /\ {32, 12, 19, 8} \subseteq Nat /\ 12 \in Nat \ {0}
        /\ 32 - 12 - 1 = 19 /\ 32 - 12 - 12 = 8
    OBVIOUS
  <2> QED
    BY <1>8, <1>9, <1>16, <2>1, PlacedValue
<1>18. Field(q6, 7, 0) = h
  <2>1. /\ {32, 24, 7, 0} \subseteq Nat /\ 8 \in Nat \ {0}
        /\ 32 - 24 - 1 = 7 /\ 32 - 24 - 8 = 0
    OBVIOUS
  <2> QED
    BY <1>8, <1>10, <1>16, <2>1, PlacedValue
<1> QED
  BY <1>1, <1>3, <1>7, <1>16, <1>17, <1>18, SMT

\* The bits of an F007TH or F007TP.
LEMMA LayoutF007TH ==
  ASSUME NEW s \in AllSensors, s.model \in {"f007th", "f007tp"}, NEW r \in ReadingsOf(s), NEW what,
         NEW q, q = DataOf(s, r, what)
  PROVE  /\ IsBits(q, 32)
         /\ Field(q, 19, 8) = r.t + 400
         /\ Field(q, 7, 0) = r.h
<1>1. PICK x, y : x = r.t /\ y = r.h
  OBVIOUS
<1>2. x \in -400 .. 3695 /\ y \in 0 .. 255
  <2>1. x \in Temperatures(s.model) /\ y \in Humidities(s.model)
    BY <1>1, ReadingTypes
  <2>2. CASE s.model = "f007th"
    <3>1. x \in -400 .. 3695
      BY <2>1, <2>2, SMT DEF Temperatures
    <3>2. y \in 0 .. 255
      BY <2>1, <2>2, SMT DEF Humidities
    <3> QED
      BY <3>1, <3>2
  <2>3. CASE s.model = "f007tp"
    <3>1. x \in -400 .. 3695
      BY <2>1, <2>3, SMT DEF Temperatures
    <3>2. y \in 0 .. 255
      BY <2>1, <2>3, SMT DEF Humidities
    <3> QED
      BY <3>1, <3>2
  <2> QED
    BY <2>2, <2>3
<1>3. PICK t, h : t = x + 400 /\ h = y
  OBVIOUS
<1>4. /\ t \in Int /\ t \in Nat /\ t < 2 ^ 12
      /\ h \in Int /\ h \in Nat /\ h < 2 ^ 8
  <2>1. (x + 400) \in Nat /\ (x + 400) < 2 ^ 12
    BY <1>2, SMT
  <2>2. y \in Nat /\ y < 2 ^ 8
    BY <1>2, SMT
  <2> QED
    BY <1>3, <2>1, <2>2, SMT
<1>5. s.rc \in Int /\ s.channel - 1 \in Int
  BY ReadingTypes
<1>6. PICK bit \in {0, 1} : <<bit>> = BatteryBit(r.ok)
  BY DEF BatteryBit
<1> DEFINE p1 == Binary(s.rc, 8)
           p2 == <<bit>>
           q2 == p1 \o p2
           p3 == Binary(s.channel - 1, 3)
           q3 == q2 \o p3
           p4 == Binary(t, 12)
           q4 == q3 \o p4
           p5 == Binary(h, 8)
           q5 == q4 \o p5
<1>7. q = q5
  BY <1>1, <1>3, <1>6 DEF DataOf
<1>8. /\ IsBits(p1, 8)
      /\ IsBits(p2, 1)
      /\ IsBits(p3, 3)
      /\ IsBits(p4, 12)
      /\ IsBits(p5, 8)
  BY <1>4, <1>5, <1>6, BinaryIsBits, OneBit
<1>9. Value(p4) = t
  BY <1>4, ValueOfSmall
<1>10. Value(p5) = h
  BY <1>4, ValueOfSmall
<1> HIDE DEF p1, p2, p3, p4, p5, q2, q3, q4, q5
<1>11. /\ {0, 1, 3, 8, 9, 12, 24, 32} \subseteq Nat
      /\ 8 + 1 = 9 /\ 9 + 3 = 12 /\ 12 + 12 = 24 /\ 24 + 8 = 32
  OBVIOUS
<1>12. IsBits(q2, 9)
  BY <1>8, <1>11, PlacedBehind DEF q2
<1>13. IsBits(q3, 12)
  BY <1>8, <1>11, <1>12, PlacedBehind DEF q3
<1>14. IsBits(q4, 24) /\ Placed(q4, 12, p4, 12)
  BY <1>8, <1>11, <1>13, PlacedBehind DEF q4
<1>15. /\ IsBits(q5, 32) /\ Placed(q5, 24, p5, 8)
      /\ Placed(q5, 12, p4, 12)
  <2>1. IsBits(q5, 32) /\ Placed(q5, 24, p5, 8)
    BY <1>8, <1>11, <1>14, PlacedBehind DEF q5
  <2>2. Placed(q5, 12, p4, 12)
    BY <1>8, <1>11, <1>14, PlacedBefore DEF q5
  <2> QED
    BY <2>1, <2>2
<1>16. Field(q5, 19, 8) = t
  <2>1. /\ {32, 12, 19, 8} \subseteq Nat /\ 12 \in Nat \ {0}
        /\ 32 - 12 - 1 = 19 /\ 32 - 12 - 12 = 8
    OBVIOUS
  <2> QED
    BY <1>8, <1>9, <1>15, <2>1, PlacedValue
<1>17. Field(q5, 7, 0) = h
  <2>1. /\ {32, 24, 7, 0} \subseteq Nat /\ 8 \in Nat \ {0}
        /\ 32 - 24 - 1 = 7 /\ 32 - 24 - 8 = 0
    OBVIOUS
  <2> QED
    BY <1>8, <1>10, <1>15, <2>1, PlacedValue
<1> QED
  BY <1>1, <1>3, <1>7, <1>15, <1>16, <1>17, SMT

\* The bits of an HG02832.
LEMMA LayoutHG02832 ==
  ASSUME NEW s \in AllSensors, s.model = "hg02832", NEW r \in ReadingsOf(s), NEW what,
         NEW q, q = DataOf(s, r, what)
  PROVE  /\ IsBits(q, 32)
         /\ Field(q, 11, 0) = (r.t % 2 ^ 12)
         /\ Field(q, 23, 16) = r.h
         /\ Field(q, 14, 14) = 0
<1>1. PICK x, y : x = r.t /\ y = r.h
  OBVIOUS
<1>2. x \in -2048 .. 2047 /\ y \in 0 .. 255
  <2>1. x \in Temperatures(s.model) /\ y \in Humidities(s.model)
    BY <1>1, ReadingTypes
  <2>2. x \in -2048 .. 2047
    BY <2>1, SMT DEF Temperatures
  <2>3. y \in 0 .. 255
    BY <2>1, SMT DEF Humidities
  <2> QED
    BY <2>2, <2>3
<1>3. PICK t, h : t = x /\ h = y
  OBVIOUS
<1>4. /\ t \in Int
      /\ h \in Int /\ h \in Nat /\ h < 2 ^ 8
  <2>1. x \in Int
    BY <1>2, SMT
  <2>2. y \in Nat /\ y < 2 ^ 8
    BY <1>2, SMT
  <2> QED
    BY <1>3, <2>1, <2>2, SMT
<1>5. s.rc \in Int /\ s.channel - 1 \in Int
  BY ReadingTypes
<1>6. PICK bit \in {0, 1} : <<bit>> = BatteryBit(r.ok)
  BY DEF BatteryBit
<1> DEFINE p1 == Binary(s.rc, 8)
           p2 == Binary(h, 8)
           q2 == p1 \o p2
           p3 == <<bit>>
           q3 == q2 \o p3
           p4 == <<0>>
           q4 == q3 \o p4
           p5 == Binary(s.channel - 1, 2)
           q5 == q4 \o p5
           p6 == Binary(t, 12)
           q6 == q5 \o p6
<1>7. q = q6
  BY <1>1, <1>3, <1>6 DEF DataOf
<1>8. /\ IsBits(p1, 8)
      /\ IsBits(p2, 8)
      /\ IsBits(p3, 1)
      /\ IsBits(p4, 1)
      /\ IsBits(p5, 2)
      /\ IsBits(p6, 12)
  BY <1>4, <1>5, <1>6, BinaryIsBits, OneBit
<1>9. Value(p2) = h
  BY <1>4, ValueOfSmall
<1>10. Value(p4) = 0
  BY ValueOfBit
<1>11. Value(p6) = (t % 2 ^ 12)
  BY <1>4, ValueOfBinary
<1> HIDE DEF p1, p2, p3, p4, p5, p6, q2, q3, q4, q5, q6
<1>12. /\ {0, 1, 2, 8, 12, 16, 17, 18, 20, 32} \subseteq Nat
      /\ 8 + 8 = 16 /\ 16 + 1 = 17 /\ 17 + 1 = 18 /\ 18 + 2 = 20 /\ 20 + 12 = 32
  OBVIOUS
<1>13. IsBits(q2, 16) /\ Placed(q2, 8, p2, 8)
  BY <1>8, <1>12, PlacedBehind DEF q2
<1>14. /\ IsBits(q3, 17)
      /\ Placed(q3, 8, p2, 8)
  <2>1. IsBits(q3, 17)
    BY <1>8, <1>12, <1>13, PlacedBehind DEF q3
  <2>2. Placed(q3, 8, p2, 8)
    BY <1>8, <1>12, <1>13, PlacedBefore DEF q3
  <2> QED
    BY <2>1, <2>2
<1>15. /\ IsBits(q4, 18) /\ Placed(q4, 17, p4, 1)
      /\ Placed(q4, 8, p2, 8)
  <2>1. IsBits(q4, 18) /\ Placed(q4, 17, p4, 1)
    BY <1>8, <1>12, <1>14, PlacedBehind DEF q4
  <2>2. Placed(q4, 8, p2, 8)
    BY <1>8, <1>12, <1>14, PlacedBefore DEF q4
  <2> QED
    BY <2>1, <2>2
<1>16. /\ IsBits(q5, 20)
      /\ Placed(q5, 8, p2, 8) /\ Placed(q5, 17, p4, 1)
  <2>1. IsBits(q5, 20)
    BY <1>8, <1>12, <1>15, PlacedBehind DEF q5
  <2>2. Placed(q5, 8, p2, 8)
    BY <1>8, <1>12, <1>15, PlacedBefore DEF q5
  <2>3. Placed(q5, 17, p4, 1)
    BY <1>8, <1>12, <1>15, PlacedBefore DEF q5
  <2> QED
    BY <2>1, <2>2, <2>3
<1>17. /\ IsBits(q6, 32) /\ Placed(q6, 20, p6, 12)
      /\ Placed(q6, 8, p2, 8) /\ Placed(q6, 17, p4, 1)
  <2>1. IsBits(q6, 32) /\ Placed(q6, 20, p6, 12)
    BY <1>8, <1>12, <1>16, PlacedBehind DEF q6
  <2>2. Placed(q6, 8, p2, 8)
    BY <1>8, <1>12, <1>16, PlacedBefore DEF q6
  <2>3. Placed(q6, 17, p4, 1)
    BY <1>8, <1>12, <1>16, PlacedBefore DEF q6
  <2> QED
    BY <2>1, <2>2, <2>3
<1>18. Field(q6, 23, 16) = h
  <2>1. /\ {32, 8, 23, 16} \subseteq Nat /\ 8 \in Nat \ {0}
        /\ 32 - 8 - 1 = 23 /\ 32 - 8 - 8 = 16
    OBVIOUS
  <2> QED
    BY <1>8, <1>9, <1>17, <2>1, PlacedValue
<1>19. Field(q6, 14, 14) = 0
  <2>1. /\ {32, 17, 14, 14} \subseteq Nat /\ 1 \in Nat \ {0}
        /\ 32 - 17 - 1 = 14 /\ 32 - 17 - 1 = 14
    OBVIOUS
  <2> QED
    BY <1>8, <1>10, <1>17, <2>1, PlacedValue
<1>20. Field(q6, 11, 0) = (t % 2 ^ 12)
  <2>1. /\ {32, 20, 11, 0} \subseteq Nat /\ 12 \in Nat \ {0}
        /\ 32 - 20 - 1 = 11 /\ 32 - 20 - 12 = 0
    OBVIOUS
  <2> QED
    BY <1>8, <1>11, <1>17, <2>1, PlacedValue
<1> QED
  BY <1>1, <1>3, <1>7, <1>17, <1>18, <1>19, <1>20, SMT

\* The bits of a TFA303049.
LEMMA LayoutTFA303049 ==
  ASSUME NEW s \in AllSensors, s.model = "tfa303049", NEW r \in ReadingsOf(s), NEW what,
         NEW q, q = DataOf(s, r, what)
  PROVE  /\ IsBits(q, 32)
         /\ Field(q, 23, 12) = (r.t % 2 ^ 12)
         /\ Field(q, 30, 24) = r.h + 28
<1>1. PICK x, y : x = r.t /\ y = r.h
  OBVIOUS
<1>2. x \in -2048 .. 2047 /\ y \in -28 .. 99
  <2>1. x \in Temperatures(s.model) /\ y \in Humidities(s.model)
    BY <1>1, ReadingTypes
  <2>2. x \in -2048 .. 2047
    BY <2>1, SMT DEF Temperatures
  <2>3. y \in -28 .. 99
    BY <2>1, SMT DEF Humidities
  <2> QED
    BY <2>2, <2>3
<1>3. PICK t, h : t = x /\ h = y + 28
  OBVIOUS
<1>4. /\ t \in Int
      /\ h \in Int /\ h \in Nat /\ h < 2 ^ 7
  <2>1. x \in Int
    BY <1>2, SMT
  <2>2. (y + 28) \in Nat /\ (y + 28) < 2 ^ 7
    BY <1>2, SMT
  <2> QED
    BY <1>3, <2>1, <2>2, SMT
<1>5. s.rc \in Int /\ s.channel - 1 \in Int
  BY ReadingTypes
<1>6. PICK bit \in {0, 1} : <<bit>> = BatteryBit(r.ok)
  BY DEF BatteryBit
<1>7. PICK high \in Int, rc \in Int, channel \in Int :
        /\ high = (s.rc \div 16) /\ rc = (s.rc % 16)
        /\ channel = reverse_2bits[1 + (s.channel % 4)]
  <2>1. s.rc \in Nat /\ s.channel \in Nat
    BY ReadingTypes
  <2>2. (s.rc \div 16) \in Int /\ (s.rc % 16) \in Int
    BY <2>1
  <2>3. 1 + (s.channel % 4) \in 1 .. 4
    BY <2>1
  <2>4. \A k \in 1 .. 4 : reverse_2bits[k] \in Int
    BY SMTT(30) DEF reverse_2bits
  <2> QED
    BY <2>2, <2>3, <2>4
<1> DEFINE p1 == <<1>>
           p2 == Binary(h, 7)
           q2 == p1 \o p2
           p3 == Binary(t, 12)
           q3 == q2 \o p3
           p4 == <<0, 0, 0>>
           q4 == q3 \o p4
           p5 == <<bit>>
           q5 == q4 \o p5
           p6 == Binary(high, 2)
           q6 == q5 \o p6
           p7 == Binary(channel, 2)
           q7 == q6 \o p7
           p8 == Binary(rc, 4)
           q8 == q7 \o p8
<1>8. q = q8
  BY <1>1, <1>3, <1>6, <1>7 DEF DataOf
<1>9. /\ IsBits(p1, 1)
      /\ IsBits(p2, 7)
      /\ IsBits(p3, 12)
      /\ IsBits(p4, 3)
      /\ IsBits(p5, 1)
      /\ IsBits(p6, 2)
      /\ IsBits(p7, 2)
      /\ IsBits(p8, 4)
  BY <1>4, <1>5, <1>6, <1>7, BinaryIsBits, OneBit, ThreeBits
<1>10. Value(p2) = h
  BY <1>4, ValueOfSmall
<1>11. Value(p3) = (t % 2 ^ 12)
  BY <1>4, ValueOfBinary
<1> HIDE DEF p1, p2, p3, p4, p5, p6, p7, p8, q2, q3, q4, q5, q6, q7, q8
<1>12. /\ {0, 1, 2, 3, 4, 7, 8, 12, 20, 23, 24, 26, 28, 32} \subseteq Nat
      /\ 1 + 7 = 8 /\ 8 + 12 = 20 /\ 20 + 3 = 23 /\ 23 + 1 = 24 /\ 24 + 2 = 26
      /\ 26 + 2 = 28 /\ 28 + 4 = 32
  OBVIOUS
<1>13. IsBits(q2, 8) /\ Placed(q2, 1, p2, 7)
  BY <1>9, <1>12, PlacedBehind DEF q2
<1>14. /\ IsBits(q3, 20) /\ Placed(q3, 8, p3, 12)
      /\ Placed(q3, 1, p2, 7)
  <2>1. IsBits(q3, 20) /\ Placed(q3, 8, p3, 12)
    BY <1>9, <1>12, <1>13, PlacedBehind DEF q3
  <2>2. Placed(q3, 1, p2, 7)
    BY <1>9, <1>12, <1>13, PlacedBefore DEF q3
  <2> QED
    BY <2>1, <2>2
<1>15. /\ IsBits(q4, 23)
      /\ Placed(q4, 1, p2, 7) /\ Placed(q4, 8, p3, 12)
  <2>1. IsBits(q4, 23)
    BY <1>9, <1>12, <1>14, PlacedBehind DEF q4
  <2>2. Placed(q4, 1, p2, 7)
    BY <1>9, <1>12, <1>14, PlacedBefore DEF q4
  <2>3. Placed(q4, 8, p3, 12)
    BY <1>9, <1>12, <1>14, PlacedBefore DEF q4
  <2> QED
    BY <2>1, <2>2, <2>3
<1>16. /\ IsBits(q5, 24)
      /\ Placed(q5, 1, p2, 7) /\ Placed(q5, 8, p3, 12)
  <2>1. IsBits(q5, 24)
    BY <1>9, <1>12, <1>15, PlacedBehind DEF q5
  <2>2. Placed(q5, 1, p2, 7)
    BY <1>9, <1>12, <1>15, PlacedBefore DEF q5
  <2>3. Placed(q5, 8, p3, 12)
    BY <1>9, <1>12, <1>15, PlacedBefore DEF q5
  <2> QED
    BY <2>1, <2>2, <2>3
<1>17. /\ IsBits(q6, 26)
      /\ Placed(q6, 1, p2, 7) /\ Placed(q6, 8, p3, 12)
  <2>1. IsBits(q6, 26)
    BY <1>9, <1>12, <1>16, PlacedBehind DEF q6
  <2>2. Placed(q6, 1, p2, 7)
    BY <1>9, <1>12, <1>16, PlacedBefore DEF q6
  <2>3. Placed(q6, 8, p3, 12)
    BY <1>9, <1>12, <1>16, PlacedBefore DEF q6
  <2> QED
    BY <2>1, <2>2, <2>3
<1>18. /\ IsBits(q7, 28)
      /\ Placed(q7, 1, p2, 7) /\ Placed(q7, 8, p3, 12)
  <2>1. IsBits(q7, 28)
    BY <1>9, <1>12, <1>17, PlacedBehind DEF q7
  <2>2. Placed(q7, 1, p2, 7)
    BY <1>9, <1>12, <1>17, PlacedBefore DEF q7
  <2>3. Placed(q7, 8, p3, 12)
    BY <1>9, <1>12, <1>17, PlacedBefore DEF q7
  <2> QED
    BY <2>1, <2>2, <2>3
<1>19. /\ IsBits(q8, 32)
      /\ Placed(q8, 1, p2, 7) /\ Placed(q8, 8, p3, 12)
  <2>1. IsBits(q8, 32)
    BY <1>9, <1>12, <1>18, PlacedBehind DEF q8
  <2>2. Placed(q8, 1, p2, 7)
    BY <1>9, <1>12, <1>18, PlacedBefore DEF q8
  <2>3. Placed(q8, 8, p3, 12)
    BY <1>9, <1>12, <1>18, PlacedBefore DEF q8
  <2> QED
    BY <2>1, <2>2, <2>3
<1>20. Field(q8, 30, 24) = h
  <2>1. /\ {32, 1, 30, 24} \subseteq Nat /\ 7 \in Nat \ {0}
        /\ 32 - 1 - 1 = 30 /\ 32 - 1 - 7 = 24
    OBVIOUS
  <2> QED
    BY <1>9, <1>10, <1>19, <2>1, PlacedValue
<1>21. Field(q8, 23, 12) = (t % 2 ^ 12)
  <2>1. /\ {32, 8, 23, 12} \subseteq Nat /\ 12 \in Nat \ {0}
        /\ 32 - 8 - 1 = 23 /\ 32 - 8 - 12 = 12
    OBVIOUS
  <2> QED
    BY <1>9, <1>11, <1>19, <2>1, PlacedValue
<1> QED
  BY <1>1, <1>3, <1>8, <1>19, <1>20, <1>21, SMT

\* The bits of a WH2 or FT007TH.
LEMMA LayoutWH2 ==
  ASSUME NEW s \in AllSensors, s.model \in {"wh2", "ft007th"}, NEW r \in ReadingsOf(s), NEW what,
         NEW q, q = DataOf(s, r, what)
  PROVE  /\ IsBits(q, 32)
         /\ Field(q, 17, 8) = r.t
         /\ Field(q, 6, 0) = r.h
<1>1. PICK x, y : x = r.t /\ y = r.h
  OBVIOUS
<1>2. x \in 0 .. 1023 /\ y \in 0 .. 127
  <2>1. x \in Temperatures(s.model) /\ y \in Humidities(s.model)
    BY <1>1, ReadingTypes
  <2>2. CASE s.model = "wh2"
    <3>1. x \in 0 .. 1023
      BY <2>1, <2>2, SMT DEF Temperatures
    <3>2. y \in 0 .. 127
      BY <2>1, <2>2, SMT DEF Humidities
    <3> QED
      BY <3>1, <3>2
  <2>3. CASE s.model = "ft007th"
    <3>1. x \in 0 .. 1023
      BY <2>1, <2>3, SMT DEF Temperatures
    <3>2. y \in 0 .. 127
      BY <2>1, <2>3, SMT DEF Humidities
    <3> QED
      BY <3>1, <3>2
  <2> QED
    BY <2>2, <2>3
<1>3. PICK t, h : t = x /\ h = y
  OBVIOUS
<1>4. /\ t \in Int /\ t \in Nat /\ t < 2 ^ 10
      /\ h \in Int /\ h \in Nat /\ h < 2 ^ 7
  <2>1. x \in Nat /\ x < 2 ^ 10
    BY <1>2, SMT
  <2>2. y \in Nat /\ y < 2 ^ 7
    BY <1>2, SMT
  <2> QED
    BY <1>3, <2>1, <2>2, SMT
<1>5. s.rc \in Int /\ s.channel - 1 \in Int
  BY ReadingTypes
<1> DEFINE p1 == Binary(4, 4)
           p2 == Binary(s.rc, 8)
           q2 == p1 \o p2
           p3 == <<0, 0>>
           q3 == q2 \o p3
           p4 == Binary(t, 10)
           q4 == q3 \o p4
           p5 == Binary(h, 8)
           q5 == q4 \o p5
<1>6. ~(r.t < 0)
  BY <1>1, <1>2, SMTT(30)
<1>7. q = q5
  BY <1>1, <1>3, <1>6, SMTT(30) DEF DataOf
<1>8. /\ IsBits(p1, 4)
      /\ IsBits(p2, 8)
      /\ IsBits(p3, 2)
      /\ IsBits(p4, 10)
      /\ IsBits(p5, 8)
  BY <1>4, <1>5, BinaryIsBits, OneBit, TwoBits
<1>9. Value(p4) = t
  BY <1>4, ValueOfSmall
<1>10. Field(p5, 6, 0) = h
  BY <1>4, SevenOfEight
<1> HIDE DEF p1, p2, p3, p4, p5, q2, q3, q4, q5
<1>11. /\ {0, 2, 4, 8, 10, 12, 14, 24, 32} \subseteq Nat
      /\ 4 + 8 = 12 /\ 12 + 2 = 14 /\ 14 + 10 = 24 /\ 24 + 8 = 32
  OBVIOUS
<1>12. IsBits(q2, 12)
  BY <1>8, <1>11, PlacedBehind DEF q2
<1>13. IsBits(q3, 14)
  BY <1>8, <1>11, <1>12, PlacedBehind DEF q3
<1>14. IsBits(q4, 24) /\ Placed(q4, 14, p4, 10)
  BY <1>8, <1>11, <1>13, PlacedBehind DEF q4
<1>15. /\ IsBits(q5, 32) /\ Placed(q5, 24, p5, 8)
      /\ Placed(q5, 14, p4, 10)
  <2>1. IsBits(q5, 32) /\ Placed(q5, 24, p5, 8)
    BY <1>8, <1>11, <1>14, PlacedBehind DEF q5
  <2>2. Placed(q5, 14, p4, 10)
    BY <1>8, <1>11, <1>14, PlacedBefore DEF q5
  <2> QED
    BY <2>1, <2>2
<1>16. Field(q5, 17, 8) = t
  <2>1. /\ {32, 14, 17, 8} \subseteq Nat /\ 10 \in Nat \ {0}
        /\ 32 - 14 - 1 = 17 /\ 32 - 14 - 10 = 8
    OBVIOUS
  <2> QED
    BY <1>8, <1>9, <1>15, <2>1, PlacedValue
<1>17. Field(q5, 6, 0) = h
  <2>1. /\ {0, 6, 8, 24, 32} \subseteq Nat /\ 24 + 8 <= 32 /\ 6 < 8 /\ 0 <= 6
        /\ 32 - 24 - 8 + 6 = 6 /\ 32 - 24 - 8 + 0 = 0
    OBVIOUS
  <2> QED
    BY <1>8, <1>10, <1>15, <2>1, PlacedField
<1> QED
  BY <1>1, <1>3, <1>7, <1>15, <1>16, <1>17, SMT

\* Three digits, and a number made of them.
IsDecimal(v, a, b, c) ==
  /\ a \in Nat /\ a < 2 ^ 4 /\ b \in Nat /\ b < 2 ^ 4 /\ c \in Nat /\ c < 2 ^ 4
  /\ Decimal(v) = Binary(a, 4) \o Binary(b, 4) \o Binary(c, 4)
  /\ a * 100 + b * 10 + c = v /\ a * 10 + b = v \div 10

\* Every number below 1000 has three digits.
LEMMA DecimalExists ==
  ASSUME NEW v \in 0 .. 999
  PROVE  \E a, b, c : IsDecimal(v, a, b, c)
<1>1. PICK a, b, c : a = v \div 100 /\ b = (v \div 10) % 10 /\ c = v % 10
  OBVIOUS
<1>2. a \in Nat /\ a < 2 ^ 4 /\ b \in Nat /\ b < 2 ^ 4 /\ c \in Nat /\ c < 2 ^ 4
  <2>1. (v \div 100) \in Nat /\ (v \div 100) < 2 ^ 4
    BY SMT
  <2>2. ((v \div 10) % 10) \in Nat /\ ((v \div 10) % 10) < 2 ^ 4
    BY SMT
  <2>3. (v % 10) \in Nat /\ (v % 10) < 2 ^ 4
    BY SMT
  <2> QED
    BY <1>1, <2>1, <2>2, <2>3, SMT
<1>3. a * 100 + b * 10 + c = v /\ a * 10 + b = v \div 10
  <2>1. /\ (v \div 100) * 100 + ((v \div 10) % 10) * 10 + (v % 10) = v
        /\ (v \div 100) * 10 + ((v \div 10) % 10) = v \div 10
    BY SMT
  <2> QED
    BY <1>1, <2>1, SMT
<1>4. Decimal(v) = Binary(a, 4) \o Binary(b, 4) \o Binary(c, 4)
  BY <1>1 DEF Decimal
<1> QED
  BY <1>2, <1>3, <1>4 DEF IsDecimal

\* The digits of a number below 1000.
LEMMA LayoutDecimal ==
  ASSUME NEW v, NEW a, NEW b, NEW c, IsDecimal(v, a, b, c), NEW q, q = Decimal(v)
  PROVE  /\ IsBits(q, 12)
         /\ Field(q, 11, 8) = a /\ Field(q, 7, 4) = b /\ Field(q, 3, 0) = c
<1>2. /\ a \in Int /\ a \in Nat /\ a < 2 ^ 4
      /\ b \in Int /\ b \in Nat /\ b < 2 ^ 4
      /\ c \in Int /\ c \in Nat /\ c < 2 ^ 4
  BY DEF IsDecimal
<1> DEFINE p1 == Binary(a, 4)
           p2 == Binary(b, 4)
           q2 == p1 \o p2
           p3 == Binary(c, 4)
           q3 == q2 \o p3
<1>3. q = q3
  BY DEF IsDecimal
<1>4. IsBits(p1, 4) /\ IsBits(p2, 4) /\ IsBits(p3, 4)
  BY <1>2, BinaryIsBits
<1>5. Value(p1) = a /\ Value(p2) = b /\ Value(p3) = c
  BY <1>2, ValueOfSmall
<1> HIDE DEF p1, p2, p3, q2, q3
<1>6. {0, 4, 8, 12} \subseteq Nat /\ 4 + 4 = 8 /\ 8 + 4 = 12 /\ 4 \in Nat \ {0}
  OBVIOUS
<1>7. Placed(p1, 0, p1, 4)
  BY DEF Placed
<1>8. IsBits(q2, 8) /\ Placed(q2, 4, p2, 4)
  BY <1>4, <1>6, PlacedBehind DEF q2
<1>9. Placed(q2, 0, p1, 4)
  BY <1>4, <1>6, <1>7, PlacedBefore DEF q2
<1>10. IsBits(q3, 12) /\ Placed(q3, 8, p3, 4)
  BY <1>4, <1>6, <1>8, PlacedBehind DEF q3
<1>11. Placed(q3, 0, p1, 4)
  BY <1>4, <1>6, <1>8, <1>9, PlacedBefore DEF q3
<1>12. Placed(q3, 4, p2, 4)
  BY <1>4, <1>6, <1>8, PlacedBefore DEF q3
<1>13. Field(q3, 11, 8) = a
  <2>1. 12 - 0 - 1 = 11 /\ 12 - 0 - 4 = 8
    OBVIOUS
  <2> QED
    BY <1>4, <1>5, <1>6, <1>10, <1>11, <2>1, PlacedValue
<1>14. Field(q3, 7, 4) = b
  <2>1. 12 - 4 - 1 = 7 /\ 12 - 4 - 4 = 4
    OBVIOUS
  <2> QED
    BY <1>4, <1>5, <1>6, <1>10, <1>12, <2>1, PlacedValue
<1>15. Field(q3, 3, 0) = c
  <2>1. 12 - 8 - 1 = 3 /\ 12 - 8 - 4 = 0
    OBVIOUS
  <2> QED
    BY <1>4, <1>5, <1>6, <1>10, <2>1, PlacedValue
<1> QED
  BY <1>3, <1>10, <1>13, <1>14, <1>15

\* The bits of a message of a TX7U.
LEMMA LayoutMessage ==
  ASSUME NEW rc \in Int, NEW type \in Nat, type < 2 ^ 4,
         NEW v, NEW a, NEW b, NEW c, IsDecimal(v, a, b, c), NEW q, q = MessageTX7U(rc, type, v)
  PROVE  /\ IsBits(q, 44)
         /\ Field(q, 35, 32) = type
         /\ Field(q, 23, 20) = a /\ Field(q, 19, 16) = b /\ Field(q, 15, 12) = c
<1> DEFINE digits == Decimal(v)
           p1 == Binary(10, 8)
           p2 == Binary(type, 4)
           q2 == p1 \o p2
           p3 == Binary(rc, 7)
           q3 == q2 \o p3
           p4 == <<Parity(digits)>>
           q4 == q3 \o p4
           q5 == q4 \o digits
           p6 == SubSeq(digits, 1, 8)
           q6 == q5 \o p6
           p7 == Binary(SumOf(Groups(q6, 4)), 4)
           q7 == q6 \o p7
<1>1. q = q7
  BY DEF MessageTX7U
<1>2. /\ IsBits(digits, 12)
      /\ Field(digits, 11, 8) = a /\ Field(digits, 7, 4) = b /\ Field(digits, 3, 0) = c
  BY LayoutDecimal
<1> HIDE DEF digits
<1>3. /\ IsBits(p1, 8) /\ IsBits(p2, 4) /\ IsBits(p3, 7) /\ IsBits(p4, 1)
      /\ IsBits(p6, 8)
  <2>1. IsBits(p1, 8) /\ IsBits(p2, 4) /\ IsBits(p3, 7)
    BY BinaryIsBits
  <2>2. IsBits(p4, 1)
    BY <1>2, ParityType, OneBit
  <2>3. IsBits(p6, 8)
    <3>1. 12 \in Nat /\ 1 \in 1 .. 12 /\ 8 \in 1 .. 12 /\ 8 - 1 + 1 = 8
      OBVIOUS
    <3> QED
      BY <1>2, <3>1, PartBits
  <2> QED
    BY <2>1, <2>2, <2>3
<1>4. Value(p2) = type
  BY ValueOfSmall
<1> HIDE DEF p1, p2, p3, p4, p6, q2, q3, q4, q5, q6
<1>5. /\ {0, 1, 4, 7, 8, 12, 19, 20, 32, 40, 44} \subseteq Nat
      /\ 8 + 4 = 12 /\ 12 + 7 = 19 /\ 19 + 1 = 20 /\ 20 + 12 = 32 /\ 32 + 8 = 40
      /\ 40 + 4 = 44
  OBVIOUS
<1>6. IsBits(q2, 12) /\ Placed(q2, 8, p2, 4)
  BY <1>3, <1>5, PlacedBehind DEF q2
<1>7. IsBits(q3, 19) /\ Placed(q3, 8, p2, 4)
  <2>1. IsBits(q3, 19)
    BY <1>3, <1>5, <1>6, PlacedBehind DEF q3
  <2>2. Placed(q3, 8, p2, 4)
    BY <1>3, <1>5, <1>6, PlacedBefore DEF q3
  <2> QED
    BY <2>1, <2>2
<1>8. IsBits(q4, 20) /\ Placed(q4, 8, p2, 4)
  <2>1. IsBits(q4, 20)
    BY <1>3, <1>5, <1>7, PlacedBehind DEF q4
  <2>2. Placed(q4, 8, p2, 4)
    BY <1>3, <1>5, <1>7, PlacedBefore DEF q4
  <2> QED
    BY <2>1, <2>2
<1>9. IsBits(q5, 32) /\ Placed(q5, 20, digits, 12) /\ Placed(q5, 8, p2, 4)
  <2>1. IsBits(q5, 32) /\ Placed(q5, 20, digits, 12)
    BY <1>2, <1>5, <1>8, PlacedBehind DEF q5
  <2>2. Placed(q5, 8, p2, 4)
    BY <1>2, <1>5, <1>8, PlacedBefore DEF q5
  <2> QED
    BY <2>1, <2>2
<1>10. IsBits(q6, 40) /\ Placed(q6, 20, digits, 12) /\ Placed(q6, 8, p2, 4)
  <2>1. IsBits(q6, 40)
    BY <1>3, <1>5, <1>9, PlacedBehind DEF q6
  <2>2. Placed(q6, 20, digits, 12)
    BY <1>3, <1>5, <1>9, PlacedBefore DEF q6
  <2>3. Placed(q6, 8, p2, 4)
    BY <1>3, <1>5, <1>9, PlacedBefore DEF q6
  <2> QED
    BY <2>1, <2>2, <2>3
<1>11. IsBits(p7, 4)
  <2>1. 10 \in Nat /\ 4 \in Nat \ {0} /\ 4 * 10 = 40
    OBVIOUS
  <2>2. SumOf(Groups(q6, 4)) \in Nat
    BY <1>10, <2>1, SumOfType
  <2>3. SumOf(Groups(q6, 4)) \in Int
    BY <2>2
  <2> QED
    BY <2>1, <2>3, BinaryIsBits
<1> HIDE DEF p7, q7
<1>12. IsBits(q7, 44) /\ Placed(q7, 20, digits, 12) /\ Placed(q7, 8, p2, 4)
  <2>1. IsBits(q7, 44)
    BY <1>5, <1>10, <1>11, PlacedBehind DEF q7
  <2>2. Placed(q7, 20, digits, 12)
    BY <1>5, <1>10, <1>11, PlacedBefore DEF q7
  <2>3. Placed(q7, 8, p2, 4)
    BY <1>5, <1>10, <1>11, PlacedBefore DEF q7
  <2> QED
    BY <2>1, <2>2, <2>3
<1>13. Field(q7, 35, 32) = type
  <2>1. 44 \in Nat /\ 8 \in Nat /\ 4 \in Nat \ {0} /\ 44 - 8 - 1 = 35 /\ 44 - 8 - 4 = 32
    OBVIOUS
  <2> QED
    BY <1>3, <1>4, <1>12, <2>1, PlacedValue
<1>14. /\ Field(q7, 23, 20) = Field(digits, 11, 8)
       /\ Field(q7, 19, 16) = Field(digits, 7, 4)
       /\ Field(q7, 15, 12) = Field(digits, 3, 0)
  <2>1. /\ {44, 20, 12} \subseteq Nat /\ 20 + 12 <= 44
        /\ {11, 8, 7, 4, 3, 0} \subseteq Nat
        /\ 44 - 20 - 12 + 11 = 23 /\ 44 - 20 - 12 + 8 = 20
        /\ 44 - 20 - 12 + 7 = 19 /\ 44 - 20 - 12 + 4 = 16
        /\ 44 - 20 - 12 + 3 = 15 /\ 44 - 20 - 12 + 0 = 12
    OBVIOUS
  <2>2. Field(q7, 23, 20) = Field(digits, 11, 8)
    BY <1>2, <1>12, <2>1, PlacedField
  <2>3. Field(q7, 19, 16) = Field(digits, 7, 4)
    BY <1>2, <1>12, <2>1, PlacedField
  <2>4. Field(q7, 15, 12) = Field(digits, 3, 0)
    BY <1>2, <1>12, <2>1, PlacedField
  <2> QED
    BY <2>2, <2>3, <2>4
<1> QED
  BY <1>1, <1>2, <1>12, <1>13, <1>14

\* A message of a TX7U tells one value.
LEMMA LayoutTX7U ==
  ASSUME NEW s \in AllSensors, s.model = "tx6", NEW r \in ReadingsOf(s), NEW what,
         NEW d, d.data = DataOf(s, r, what)
  PROVE  /\ IsBits(d.data, 44)
         /\ what = "T" => TypeTX7U(d) = 0 /\ Digits(d) = r.t + 500
         /\ what # "T" => TypeTX7U(d) = 14 /\ HumidityTX7U(d) = r.h
<1>1. PICK x, y, rc : x = r.t /\ y = r.h /\ rc = s.rc
  OBVIOUS
<1>2. x \in -500 .. 499 /\ y \in 0 .. 99 /\ rc \in Int
  <2>1. x \in Temperatures(s.model) /\ y \in Humidities(s.model) /\ rc \in Int
    BY <1>1, ReadingTypes
  <2>2. x \in -500 .. 499
    BY <2>1, SMT DEF Temperatures
  <2>3. y \in 0 .. 99
    BY <2>1, SMT DEF Humidities
  <2> QED
    BY <2>1, <2>2, <2>3
<1>3. PICK q : q = d.data
  OBVIOUS
<1>4. PICK type, v : /\ what = "T" => type = 0 /\ v = x + 500
                     /\ what # "T" => type = 14 /\ v = y * 10
  OBVIOUS
<1>5. type \in Nat /\ type < 2 ^ 4 /\ v \in 0 .. 999
  <2>1. CASE what = "T"
    <3>1. type = 0 /\ v = x + 500
      BY <1>4, <2>1
    <3> QED
      BY <1>2, <3>1, SMT
  <2>2. CASE what # "T"
    <3>1. type = 14 /\ v = y * 10
      BY <1>4, <2>2
    <3> QED
      BY <1>2, <3>1, SMT
  <2> QED
    BY <2>1, <2>2
<1>6. q = MessageTX7U(rc, type, v)
  BY <1>1, <1>3, <1>4 DEF DataOf
<1>7. PICK a, b, c : IsDecimal(v, a, b, c)
  BY <1>5, DecimalExists
<1>8. /\ IsBits(q, 44) /\ Field(q, 35, 32) = type
      /\ Field(q, 23, 20) = a /\ Field(q, 19, 16) = b /\ Field(q, 15, 12) = c
  BY <1>2, <1>5, <1>6, <1>7, LayoutMessage
<1>9. TypeTX7U(d) = type /\ Digits(d) = a * 100 + b * 10 + c /\ HumidityTX7U(d) = a * 10 + b
  BY <1>3, <1>8 DEF TypeTX7U, Digits, HumidityTX7U
<1>10. a * 100 + b * 10 + c = v /\ a * 10 + b = v \div 10
  BY <1>7 DEF IsDecimal
<1>11. CASE what = "T"
  BY <1>1, <1>3, <1>4, <1>8, <1>9, <1>10, <1>11
<1>12. CASE what # "T"
  <2>1. type = 14 /\ v = y * 10
    BY <1>4, <1>12
  <2>2. v \div 10 = y
    BY <1>2, <2>1, SMT
  <2> QED
    BY <1>1, <1>3, <1>8, <1>9, <1>10, <1>12, <2>1, <2>2
<1> QED
  BY <1>11, <1>12

\* Seven bits with their parity.
LEMMA EvenParityBits ==
  ASSUME NEW v \in Nat, v < 2 ^ 7, NEW q, q = EvenParity(Binary(v, 7))
  PROVE  IsBits(q, 8) /\ Field(q, 6, 0) = v
<1> DEFINE p1 == <<Parity(Binary(v, 7))>>
           p2 == Binary(v, 7)
           q2 == p1 \o p2
<1>1. q = q2
  BY DEF EvenParity
<1>2. IsBits(p1, 1) /\ IsBits(p2, 7)
  <2>1. 7 \in Nat /\ v \in Int
    OBVIOUS
  <2>2. IsBits(p2, 7)
    BY <2>1, BinaryIsBits
  <2>3. IsBits(p1, 1)
    BY <2>1, <2>2, ParityType, OneBit
  <2> QED
    BY <2>2, <2>3
<1>3. Value(p2) = v
  BY ValueOfSmall
<1> HIDE DEF p1, p2, q2
<1>4. {0, 1, 7, 8} \subseteq Nat /\ 1 + 7 = 8 /\ 7 \in Nat \ {0} /\ 8 - 1 - 1 = 6 /\ 8 - 1 - 7 = 0
  OBVIOUS
<1>5. IsBits(q2, 8) /\ Placed(q2, 1, p2, 7)
  BY <1>2, <1>4, PlacedBehind DEF q2
<1>6. Field(q2, 6, 0) = v
  BY <1>2, <1>3, <1>4, <1>5, PlacedValue
<1> QED
  BY <1>1, <1>5, <1>6

\* The status byte of a 00592TXR, which has its parity in the place of its first bit.
LEMMA StatusBits ==
  ASSUME NEW b \in {0, 1}, NEW q, q = <<0, b>> \o Binary(4, 6)
  PROVE  IsBits(<<Parity(q)>>, 1) /\ IsBits(Tail(q), 7)
<1>1. {2, 6, 7, 8} \subseteq Nat /\ 2 + 6 = 8 /\ 4 \in Int /\ 2 \in 1 .. 8 /\ 8 \in 2 .. 8 /\ 8 - 2 + 1 = 7
  OBVIOUS
<1>2. IsBits(<<0, b>>, 2)
  BY TwoBits
<1>3. IsBits(Binary(4, 6), 6)
  BY <1>1, BinaryIsBits
<1>4. IsBits(q, 8)
  BY <1>1, <1>2, <1>3, PlacedBehind
<1>5. Tail(q) = SubSeq(q, 2, 8)
  <2>1. q \in Seq({0, 1}) /\ Len(q) = 8
    BY <1>4 DEF IsBits
  <2> QED
    BY <2>1, SMTT(30)
<1>6. IsBits(Tail(q), 7)
  BY <1>1, <1>4, <1>5, PartBits
<1>7. IsBits(<<Parity(q)>>, 1)
  BY <1>1, <1>4, ParityType, OneBit
<1> QED
  BY <1>6, <1>7

\* What names a 00592TXR in its messages.
NameOf00592TXR(s) == Binary(<<3, 2, 0>>[s.channel], 2) \o Binary(s.rc, 14)

\* The bytes before the checksum
BodyOf00592TXR(s, r) ==
  LET status == <<0, IF r.ok THEN 1 ELSE 0>> \o Binary(4, 6)
  IN  Binary(<<3, 2, 0>>[s.channel], 2) \o Binary(s.rc, 14) \o <<Parity(status)>> \o Tail(status)
        \o EvenParity(Binary(r.h, 7)) \o EvenParity(Binary((r.t + 1000) \div 128, 7))
        \o EvenParity(Binary((r.t + 1000) % 128, 7))

\* The data of a 00592TXR, in the bytes that are read.
LEMMA DataOf00592TXR ==
  ASSUME NEW s, NEW r, NEW what, s.model = "f00592txr"
  PROVE  DataOf(s, r, what) = BodyOf00592TXR(s, r) \o Binary(SumOf(Groups(BodyOf00592TXR(s, r), 8)), 8)
  BY SMTT(30) DEF DataOf, BodyOf00592TXR

\* The bits of a 00592TXR.
LEMMA Layout00592TXR ==
  ASSUME NEW s \in AllSensors, s.model = "f00592txr", NEW r \in ReadingsOf(s), NEW what,
         NEW q, q = DataOf(s, r, what)
  PROVE  /\ IsBits(q, 56)
         /\ Field(q, 55, 40) = Value(NameOf00592TXR(s))
         /\ Field(q, 30, 24) = r.h
         /\ Field(q, 22, 16) * 128 + Field(q, 14, 8) = r.t + 1000
<1>1. PICK x, y : x = r.t /\ y = r.h
  OBVIOUS
<1>2. x \in -1000 .. 15383 /\ y \in 0 .. 127
  <2>1. x \in Temperatures(s.model) /\ y \in Humidities(s.model)
    BY <1>1, ReadingTypes
  <2>2. x \in -1000 .. 15383
    BY <2>1, SMT DEF Temperatures
  <2>3. y \in 0 .. 127
    BY <2>1, SMT DEF Humidities
  <2> QED
    BY <2>2, <2>3
<1>3. PICK high, low, channel, rc, b :
        /\ high = (r.t + 1000) \div 128 /\ low = (r.t + 1000) % 128
        /\ channel = <<3, 2, 0>>[s.channel] /\ rc = s.rc /\ b = IF r.ok THEN 1 ELSE 0
  OBVIOUS
<1>4. /\ high \in Nat /\ high < 2 ^ 7
      /\ low \in Nat /\ low < 2 ^ 7
      /\ y \in Nat /\ y < 2 ^ 7
      /\ high * 128 + low = x + 1000
  <2>1. ((x + 1000) \div 128) \in Nat /\ ((x + 1000) \div 128) < 2 ^ 7
    BY <1>2, SMT
  <2>2. ((x + 1000) % 128) \in Nat /\ ((x + 1000) % 128) < 2 ^ 7
    BY <1>2, SMT
  <2>3. y \in Nat /\ y < 2 ^ 7
    BY <1>2, SMT
  <2>4. ((x + 1000) \div 128) * 128 + ((x + 1000) % 128) = x + 1000
    BY <1>2, SMT
  <2> QED
    BY <1>1, <1>3, <2>1, <2>2, <2>3, <2>4, SMT
<1>5. channel \in Int /\ rc \in Int /\ b \in {0, 1}
  <2>1. s.channel \in 1 .. 3 /\ s.rc \in Int
    BY ReadingTypes, ReadingsAssumption DEF ReadingsAssumption
  <2>2. <<3, 2, 0>>[s.channel] \in Int
    BY <2>1
  <2> QED
    BY <1>3, <2>1, <2>2
<1> DEFINE status == <<0, b>> \o Binary(4, 6)
           p1 == Binary(channel, 2)
           p2 == Binary(rc, 14)
           q2 == p1 \o p2
           p3 == <<Parity(status)>>
           q3 == q2 \o p3
           p4 == Tail(status)
           q4 == q3 \o p4
           p5 == EvenParity(Binary(y, 7))
           q5 == q4 \o p5
           p6 == EvenParity(Binary(high, 7))
           q6 == q5 \o p6
           p7 == EvenParity(Binary(low, 7))
           q7 == q6 \o p7
           p8 == Binary(SumOf(Groups(q7, 8)), 8)
           q8 == q7 \o p8
<1>6. q = q8
  <2>1. q7 = BodyOf00592TXR(s, r)
    BY <1>1, <1>3 DEF BodyOf00592TXR
  <2> HIDE DEF q7
  <2> QED
    BY <2>1, DataOf00592TXR
<1>7. IsBits(p1, 2) /\ IsBits(p2, 14) /\ IsBits(p3, 1) /\ IsBits(p4, 7)
  <2>1. IsBits(p1, 2) /\ IsBits(p2, 14)
    BY <1>5, BinaryIsBits
  <2>2. IsBits(p3, 1) /\ IsBits(p4, 7)
    BY <1>5, StatusBits
  <2> QED
    BY <2>1, <2>2
<1>8. /\ IsBits(p5, 8) /\ Field(p5, 6, 0) = y
      /\ IsBits(p6, 8) /\ Field(p6, 6, 0) = high
      /\ IsBits(p7, 8) /\ Field(p7, 6, 0) = low
  BY <1>4, EvenParityBits
<1>9. Value(q2) = Value(NameOf00592TXR(s))
  BY <1>3 DEF NameOf00592TXR
<1> HIDE DEF status, p1, p2, p3, p4, p5, p6, p7, q2, q3, q4, q5, q6, q7
<1>10. /\ {0, 1, 2, 7, 8, 14, 16, 17, 24, 32, 40, 48, 56} \subseteq Nat
       /\ 2 + 14 = 16 /\ 16 + 1 = 17 /\ 17 + 7 = 24 /\ 24 + 8 = 32
       /\ 32 + 8 = 40 /\ 40 + 8 = 48 /\ 48 + 8 = 56
  OBVIOUS
<1>11. IsBits(q2, 16) /\ Placed(q2, 0, q2, 16)
  <2>1. IsBits(q2, 16)
    BY <1>7, <1>10, PlacedBehind DEF q2
  <2>2. Placed(q2, 0, q2, 16)
    BY DEF Placed
  <2> QED
    BY <2>1, <2>2
<1>12. IsBits(q3, 17) /\ Placed(q3, 0, q2, 16)
  <2>1. IsBits(q3, 17)
    BY <1>7, <1>10, <1>11, PlacedBehind DEF q3
  <2>2. Placed(q3, 0, q2, 16)
    BY <1>7, <1>10, <1>11, PlacedBefore DEF q3
  <2> QED
    BY <2>1, <2>2
<1>13. IsBits(q4, 24) /\ Placed(q4, 0, q2, 16)
  <2>1. IsBits(q4, 24)
    BY <1>7, <1>10, <1>12, PlacedBehind DEF q4
  <2>2. Placed(q4, 0, q2, 16)
    BY <1>7, <1>10, <1>12, PlacedBefore DEF q4
  <2> QED
    BY <2>1, <2>2
<1>14. IsBits(q5, 32) /\ Placed(q5, 24, p5, 8) /\ Placed(q5, 0, q2, 16)
  <2>1. IsBits(q5, 32) /\ Placed(q5, 24, p5, 8)
    BY <1>8, <1>10, <1>13, PlacedBehind DEF q5
  <2>2. Placed(q5, 0, q2, 16)
    BY <1>8, <1>10, <1>13, PlacedBefore DEF q5
  <2> QED
    BY <2>1, <2>2
<1>15. /\ IsBits(q6, 40) /\ Placed(q6, 32, p6, 8)
       /\ Placed(q6, 0, q2, 16) /\ Placed(q6, 24, p5, 8)
  <2>1. IsBits(q6, 40) /\ Placed(q6, 32, p6, 8)
    BY <1>8, <1>10, <1>14, PlacedBehind DEF q6
  <2>2. Placed(q6, 0, q2, 16)
    BY <1>8, <1>10, <1>14, PlacedBefore DEF q6
  <2>3. Placed(q6, 24, p5, 8)
    BY <1>8, <1>10, <1>14, PlacedBefore DEF q6
  <2> QED
    BY <2>1, <2>2, <2>3
<1>16. /\ IsBits(q7, 48) /\ Placed(q7, 40, p7, 8)
       /\ Placed(q7, 0, q2, 16) /\ Placed(q7, 24, p5, 8) /\ Placed(q7, 32, p6, 8)
  <2>1. IsBits(q7, 48) /\ Placed(q7, 40, p7, 8)
    BY <1>8, <1>10, <1>15, PlacedBehind DEF q7
  <2>2. Placed(q7, 0, q2, 16)
    BY <1>8, <1>10, <1>15, PlacedBefore DEF q7
  <2>3. Placed(q7, 24, p5, 8)
    BY <1>8, <1>10, <1>15, PlacedBefore DEF q7
  <2>4. Placed(q7, 32, p6, 8)
    BY <1>8, <1>10, <1>15, PlacedBefore DEF q7
  <2> QED
    BY <2>1, <2>2, <2>3, <2>4
<1>17. IsBits(p8, 8)
  <2>1. 6 \in Nat /\ 8 \in Nat \ {0} /\ 8 * 6 = 48
    OBVIOUS
  <2>2. SumOf(Groups(q7, 8)) \in Nat
    BY <1>16, <2>1, SumOfType
  <2>3. SumOf(Groups(q7, 8)) \in Int
    BY <2>2
  <2> QED
    BY <2>1, <2>3, BinaryIsBits
<1> HIDE DEF p8, q8
<1>18. /\ IsBits(q8, 56) /\ Placed(q8, 0, q2, 16)
       /\ Placed(q8, 24, p5, 8) /\ Placed(q8, 32, p6, 8) /\ Placed(q8, 40, p7, 8)
  <2>1. IsBits(q8, 56)
    BY <1>10, <1>16, <1>17, PlacedBehind DEF q8
  <2>2. Placed(q8, 0, q2, 16)
    BY <1>10, <1>16, <1>17, PlacedBefore DEF q8
  <2>3. Placed(q8, 24, p5, 8)
    BY <1>10, <1>16, <1>17, PlacedBefore DEF q8
  <2>4. Placed(q8, 32, p6, 8)
    BY <1>10, <1>16, <1>17, PlacedBefore DEF q8
  <2>5. Placed(q8, 40, p7, 8)
    BY <1>10, <1>16, <1>17, PlacedBefore DEF q8
  <2> QED
    BY <2>1, <2>2, <2>3, <2>4, <2>5
<1>19. Field(q8, 55, 40) = Value(NameOf00592TXR(s))
  <2>1. {56, 0} \subseteq Nat /\ 16 \in Nat \ {0} /\ 56 - 0 - 1 = 55 /\ 56 - 0 - 16 = 40
    OBVIOUS
  <2> QED
    BY <1>9, <1>11, <1>18, <2>1, PlacedValue
<1>20. Field(q8, 30, 24) = y /\ Field(q8, 22, 16) = high /\ Field(q8, 14, 8) = low
  <2>1. /\ {56, 24, 32, 40, 8, 6, 0} \subseteq Nat /\ 24 + 8 <= 56 /\ 32 + 8 <= 56 /\ 40 + 8 <= 56
        /\ 56 - 24 - 8 + 6 = 30 /\ 56 - 24 - 8 + 0 = 24
        /\ 56 - 32 - 8 + 6 = 22 /\ 56 - 32 - 8 + 0 = 16
        /\ 56 - 40 - 8 + 6 = 14 /\ 56 - 40 - 8 + 0 = 8
    OBVIOUS
  <2>2. Field(q8, 30, 24) = Field(p5, 6, 0)
    BY <1>8, <1>18, <2>1, PlacedField
  <2>3. Field(q8, 22, 16) = Field(p6, 6, 0)
    BY <1>8, <1>18, <2>1, PlacedField
  <2>4. Field(q8, 14, 8) = Field(p7, 6, 0)
    BY <1>8, <1>18, <2>1, PlacedField
  <2> QED
    BY <1>8, <2>2, <2>3, <2>4
<1> QED
  BY <1>1, <1>4, <1>6, <1>18, <1>19, <1>20, SMT

Protocols == {"00592TXR", "TX7U", "WH2", "HG02832", "F007TH", "TFA303049", "TX141", "DS18B20"}

-----------------------------------------------------------------------------
(* What names a sensor                                                     *)

\* Two fields that lie side by side make one.
LEMMA FieldJoin ==
  ASSUME NEW n \in Nat, NEW p, NEW q, IsBits(p, n), IsBits(q, n),
         NEW high \in Nat, NEW mid \in Nat, NEW next \in Nat, NEW low \in Nat,
         high < n, mid <= high, mid <= next + 1, next < n, low <= next, low <= mid,
         Field(p, high, mid) = Field(q, high, mid), Field(p, next, low) = Field(q, next, low)
  PROVE  Field(p, high, low) = Field(q, high, low)
<1>1. \A k \in n - high .. n - mid : p[k] = q[k]
  <2>1. high \in 0 .. n - 1 /\ mid \in 0 .. high
    OBVIOUS
  <2> QED
    BY <2>1, FieldSame
<1>2. \A k \in n - next .. n - low : p[k] = q[k]
  <2>1. next \in 0 .. n - 1 /\ low \in 0 .. next
    OBVIOUS
  <2> QED
    BY <2>1, FieldSame
<1>3. \A k \in n - high .. n - low : p[k] = q[k]
  <2> TAKE k \in n - high .. n - low
  <2>1. k \in n - high .. n - mid \/ k \in n - next .. n - low
    OBVIOUS
  <2> QED
    BY <1>1, <1>2, <2>1
<1>4. high \in 0 .. n - 1 /\ low \in 0 .. high
  OBVIOUS
<1> QED
  BY <1>3, <1>4, FieldSame

\* A field is a number of its width.
LEMMA FieldBound ==
  ASSUME NEW n \in Nat, NEW p, IsBits(p, n), NEW high \in Nat, NEW low \in Nat, high < n, low <= high
  PROVE  Field(p, high, low) \in Nat /\ Field(p, high, low) < 2 ^ (high - low + 1)
<1> PICK w : w = high - low + 1
  OBVIOUS
<1>1. w \in Nat
  OBVIOUS
<1>2. Field(p, high, low) = Value(SubSeq(p, n - high, n - low))
  BY FieldBits
<1>3. IsBits(SubSeq(p, n - high, n - low), w)
  BY FieldBits
<1>4. Value(SubSeq(p, n - high, n - low)) \in Nat
  BY <1>1, <1>3, ValueType
<1>5. Value(SubSeq(p, n - high, n - low)) < 2 ^ w
  BY <1>1, <1>3, ValueBound
<1> QED
  BY <1>2, <1>4, <1>5

\* The protocol and the variant of each model.
LEMMA Models ==
  ASSUME NEW s \in AllSensors, NEW p, p = Model(s).protocol
  PROVE  /\ s.model \in {"f00592txr", "tx6", "wh2", "ft007th", "hg02832", "f007th", "f007tp",
                         "tfa303049", "tx141", "ds18b20"}
         /\ p \in Protocols
         /\ p = "00592TXR" <=> s.model = "f00592txr"
         /\ p = "TX7U" <=> s.model = "tx6"
         /\ p = "WH2" <=> s.model \in {"wh2", "ft007th"}
         /\ p = "HG02832" <=> s.model = "hg02832"
         /\ p = "F007TH" <=> s.model \in {"f007th", "f007tp"}
         /\ p = "TFA303049" <=> s.model = "tfa303049"
         /\ p = "TX141" <=> s.model = "tx141"
         /\ p = "DS18B20" <=> s.model = "ds18b20"
<1> PICK model : model = s.model
  OBVIOUS
<1> DEFINE Row(name, protocol) == model = name => p = protocol
<1>1. model \in {"f00592txr", "tx6", "wh2", "ft007th", "hg02832", "f007th", "f007tp",
                 "tfa303049", "tx141", "ds18b20"}
  BY ReadingsAssumption DEF ReadingsAssumption, ProtocolDefs
<1>2. p = ProtocolDefs[model].protocol
  BY DEF Model
<1>3. Row("f00592txr", "00592TXR")
  BY <1>2 DEF ProtocolDefs, Def00592TXR, Def
<1>4. Row("tx6", "TX7U")
  BY <1>2 DEF ProtocolDefs, DefTX7U, Def
<1>5. Row("wh2", "WH2")
  BY <1>2 DEF ProtocolDefs, DefWH2, Def
<1>6. Row("ft007th", "WH2")
  BY <1>2 DEF ProtocolDefs, DefFT007TH, Def
<1>7. Row("hg02832", "HG02832")
  BY <1>2 DEF ProtocolDefs, DefHG02832, Def
<1>8. Row("f007th", "F007TH")
  BY <1>2 DEF ProtocolDefs, DefF007TH, Def
<1>9. Row("f007tp", "F007TH")
  BY <1>2 DEF ProtocolDefs, DefF007TP, Def
<1>10. Row("tfa303049", "TFA303049")
  BY <1>2 DEF ProtocolDefs, DefTFA303049, Def
<1>11. Row("tx141", "TX141")
  BY <1>2 DEF ProtocolDefs, DefTX141, Def
<1>12. Row("ds18b20", "DS18B20")
  BY <1>2 DEF ProtocolDefs, DefDS18B20, Def
<1> QED
  BY <1>1, <1>3, <1>4, <1>5, <1>6, <1>7, <1>8, <1>9, <1>10, <1>11, <1>12 DEF Protocols

\* The identifier of a sensor.
LEMMA SensorIdParts ==
  ASSUME NEW s
  PROVE  /\ \A p, variant, channel, rc : SensorId(s) = Id(p, variant, channel, rc) =>
              p = Model(s).protocol /\ variant = Model(s).variant /\ rc = s.rc
<1> DEFINE channel == Class(Model(s).protocol, "channels", NoData)[s.channel]
<1>1. SensorId(s) = Id(Model(s).protocol, Model(s).variant, channel, s.rc)
  BY DEF SensorId, getDefId
<1> HIDE DEF channel
<1> QED
  BY <1>1 DEF Id

\* What is known of the data of a sensor, be it a message or stored: its bits are
\* those of a reading, but for TX7U, which merges them, and DS18B20.
IsDataOf(d, s) ==
  /\ d.protocol = Model(s).protocol
  /\ getId(d) = SensorId(s)
  /\ s.model \notin {"tx6", "ds18b20"} => \E r \in ReadingsOf(s) : d.data = DataOf(s, r, "T")
  /\ s.model = "tx6" => IsBits(d.data, 44)

\* The fields that equals and getId read, and the bits that only one of them does.
LEMMA Names00592TXR ==
  ASSUME NEW p, NEW q, IsBits(p, 56), IsBits(q, 56)
  PROVE  Field(p, 47, 40) = Field(q, 47, 40) /\ Field(p, 55, 48) = Field(q, 55, 48)
           <=> /\ Field(p, 55, 54) = Field(q, 55, 54) /\ Field(p, 51, 40) = Field(q, 51, 40)
               /\ Field(p, 53, 52) = Field(q, 53, 52)
<1>1. ASSUME Field(p, 47, 40) = Field(q, 47, 40), Field(p, 55, 48) = Field(q, 55, 48)
      PROVE  /\ Field(p, 55, 54) = Field(q, 55, 54) /\ Field(p, 51, 40) = Field(q, 51, 40)
             /\ Field(p, 53, 52) = Field(q, 53, 52)
  <2>1. /\ {56, 55, 48, 47, 40} \subseteq Nat /\ 55 < 56 /\ 48 <= 55 /\ 48 <= 47 + 1 /\ 47 < 56
        /\ 40 <= 47 /\ 40 <= 48
    OBVIOUS
  <2>2. Field(p, 55, 40) = Field(q, 55, 40)
    BY <1>1, <2>1, FieldJoin
  <2>3. /\ 56 \in Nat /\ 55 \in 0 .. 56 - 1 /\ 40 \in 0 .. 55
        /\ 55 \in 40 .. 55 /\ 54 \in 40 .. 55 /\ 51 \in 40 .. 55 /\ 40 \in 40 .. 51
        /\ 53 \in 40 .. 55 /\ 52 \in 40 .. 53
    OBVIOUS
  <2> QED
    BY <2>2, <2>3, FieldPart
<1>2. ASSUME Field(p, 55, 54) = Field(q, 55, 54), Field(p, 51, 40) = Field(q, 51, 40),
             Field(p, 53, 52) = Field(q, 53, 52)
      PROVE  Field(p, 47, 40) = Field(q, 47, 40) /\ Field(p, 55, 48) = Field(q, 55, 48)
  <2>1. {56, 55, 54, 53, 52, 51, 48, 47, 40} \subseteq Nat
    OBVIOUS
  <2>2. 55 < 56 /\ 54 <= 55 /\ 54 <= 53 + 1 /\ 53 < 56 /\ 52 <= 53 /\ 52 <= 54
    OBVIOUS
  <2>3. Field(p, 55, 52) = Field(q, 55, 52)
    BY <1>2, <2>1, <2>2, FieldJoin
  <2>4. 55 < 56 /\ 52 <= 55 /\ 52 <= 51 + 1 /\ 51 < 56 /\ 40 <= 51 /\ 40 <= 52
    OBVIOUS
  <2>5. Field(p, 55, 40) = Field(q, 55, 40)
    BY <1>2, <2>1, <2>3, <2>4, FieldJoin
  <2>6. /\ 56 \in Nat /\ 55 \in 0 .. 56 - 1 /\ 40 \in 0 .. 55
        /\ 47 \in 40 .. 55 /\ 40 \in 40 .. 47 /\ 55 \in 40 .. 55 /\ 48 \in 40 .. 55
    OBVIOUS
  <2> QED
    BY <2>5, <2>6, FieldPart
<1> QED
  BY <1>1, <1>2

LEMMA NamesHG02832 ==
  ASSUME NEW p, NEW q, IsBits(p, 32), IsBits(q, 32)
  PROVE  Field(p, 13, 12) = Field(q, 13, 12) /\ Field(p, 14, 14) = Field(q, 14, 14)
           <=> Field(p, 14, 12) = Field(q, 14, 12)
<1>1. ASSUME Field(p, 14, 12) = Field(q, 14, 12)
      PROVE  Field(p, 13, 12) = Field(q, 13, 12) /\ Field(p, 14, 14) = Field(q, 14, 14)
  <2>1. /\ 32 \in Nat /\ 14 \in 0 .. 32 - 1 /\ 12 \in 0 .. 14 /\ 13 \in 12 .. 14 /\ 12 \in 12 .. 13
        /\ 14 \in 12 .. 14
    OBVIOUS
  <2> QED
    BY <1>1, <2>1, FieldPart
<1>2. ASSUME Field(p, 13, 12) = Field(q, 13, 12), Field(p, 14, 14) = Field(q, 14, 14)
      PROVE  Field(p, 14, 12) = Field(q, 14, 12)
  <2>1. /\ {32, 14, 13, 12} \subseteq Nat /\ 14 < 32 /\ 14 <= 14 /\ 14 <= 13 + 1 /\ 13 < 32
        /\ 12 <= 13 /\ 12 <= 14
    OBVIOUS
  <2> QED
    BY <1>2, <2>1, FieldJoin
<1> QED
  BY <1>1, <1>2

LEMMA NamesTFA303049 ==
  ASSUME NEW p, NEW q, IsBits(p, 32), IsBits(q, 32)
  PROVE  Field(p, 7, 0) = Field(q, 7, 0)
           <=> /\ Field(p, 5, 4) = Field(q, 5, 4)
               /\ Field(p, 3, 0) + 16 * Field(p, 7, 6) = Field(q, 3, 0) + 16 * Field(q, 7, 6)
<1>3. ASSUME NEW x, IsBits(x, 32)
      PROVE  Field(x, 3, 0) \in 0 .. 15 /\ Field(x, 7, 6) \in Nat
  <2>1. /\ 32 \in Nat /\ 3 \in Nat /\ 0 \in Nat /\ 7 \in Nat /\ 6 \in Nat
        /\ 3 < 32 /\ 0 <= 3 /\ 7 < 32 /\ 6 <= 7
    OBVIOUS
  <2>2. Field(x, 3, 0) \in Nat /\ Field(x, 3, 0) < 2 ^ (3 - 0 + 1)
    BY <1>3, <2>1, FieldBound
  <2>3. Field(x, 7, 6) \in Nat
    BY <1>3, <2>1, FieldBound
  <2>4. 2 ^ (3 - 0 + 1) = 16
    BY SMT
  <2> QED
    BY <2>2, <2>3, <2>4
<1>4. ASSUME Field(p, 5, 4) = Field(q, 5, 4), Field(p, 3, 0) = Field(q, 3, 0), Field(p, 7, 6) = Field(q, 7, 6)
      PROVE  Field(p, 7, 0) = Field(q, 7, 0)
  <2>1. {32, 7, 6, 5, 4, 3, 0} \subseteq Nat
    OBVIOUS
  <2>2. Field(p, 7, 4) = Field(q, 7, 4)
    <3>1. 7 < 32 /\ 6 <= 7 /\ 6 <= 5 + 1 /\ 5 < 32 /\ 4 <= 5 /\ 4 <= 6
      OBVIOUS
    <3> QED
      BY <1>4, <2>1, <3>1, FieldJoin
  <2>3. 7 < 32 /\ 4 <= 7 /\ 4 <= 3 + 1 /\ 3 < 32 /\ 0 <= 3 /\ 0 <= 4
    OBVIOUS
  <2> QED
    BY <1>4, <2>1, <2>2, <2>3, FieldJoin
<1>5. ASSUME Field(p, 7, 0) = Field(q, 7, 0)
      PROVE  Field(p, 5, 4) = Field(q, 5, 4) /\ Field(p, 3, 0) = Field(q, 3, 0) /\ Field(p, 7, 6) = Field(q, 7, 6)
  <2>1. /\ 32 \in Nat /\ 7 \in 0 .. 32 - 1 /\ 0 \in 0 .. 7 /\ 5 \in 0 .. 7 /\ 4 \in 0 .. 5
        /\ 3 \in 0 .. 7 /\ 0 \in 0 .. 3 /\ 7 \in 0 .. 7 /\ 6 \in 0 .. 7
    OBVIOUS
  <2> QED
    BY <1>5, <2>1, FieldPart
<1>6. Field(p, 3, 0) + 16 * Field(p, 7, 6) = Field(q, 3, 0) + 16 * Field(q, 7, 6)
        <=> Field(p, 3, 0) = Field(q, 3, 0) /\ Field(p, 7, 6) = Field(q, 7, 6)
  <2>1. \A x, y \in 0 .. 15 : \A v, w \in Nat : x + 16 * v = y + 16 * w <=> x = y /\ v = w
    OBVIOUS
  <2> QED
    BY <1>3, <2>1
<1> QED
  BY <1>4, <1>5, <1>6

\* What getId returns begins with the protocol.
LEMMA IdHasProtocol ==
  ASSUME NEW d, d.protocol \in Protocols
  PROVE  \E variant, channel, rc : getId(d) = Id(d.protocol, variant, channel, rc)
<1>1. CASE d.protocol = "00592TXR"
  BY <1>1 DEF getId, Class, Class00592TXR
<1>2. CASE d.protocol = "TX7U"
  BY <1>2 DEF getId, Class, ClassTX7U
<1>3. CASE d.protocol = "WH2"
  BY <1>3 DEF getId, Class, ClassWH2
<1>4. CASE d.protocol = "HG02832"
  BY <1>4 DEF getId, Class, ClassHG02832
<1>5. CASE d.protocol = "F007TH"
  BY <1>5 DEF getId, Class, ClassF007TH
<1>6. CASE d.protocol = "TFA303049"
  BY <1>6 DEF getId, Class, ClassTFA303049
<1>7. CASE d.protocol = "TX141"
  BY <1>7 DEF getId, Class, ClassTX141
<1>8. CASE d.protocol = "DS18B20"
  BY <1>8 DEF getId, Class, ClassDS18B20
<1> QED
  BY <1>1, <1>2, <1>3, <1>4, <1>5, <1>6, <1>7, <1>8 DEF Protocols

\* As many bits as a message has
IsWhole(d) ==
  /\ d.protocol = "00592TXR" => IsBits(d.data, 56)
  /\ d.protocol \in {"HG02832", "TFA303049"} => IsBits(d.data, 32)

\* What getId reads and equals does not: the type of a WH2 or FT007TH and of a
\* 00592TXR, and one bit of an HG02832.  What equals reads and getId does not: two
\* bits of a 00592TXR
OnlyInId(d) ==
  CASE d.protocol = "00592TXR" -> Field(d.data, 37, 32)
    [] d.protocol = "WH2"      -> d.variant + 16 * Field(d.data, 31, 28)
    [] d.protocol = "HG02832"  -> Field(d.data, 14, 14)
    [] OTHER                   -> 0
OnlyInEquals(d) == IF d.protocol = "00592TXR" THEN Field(d.data, 53, 52) ELSE 0

\* Of all the data there may be, equals tells apart what getId does, but for the bits
\* that only one of them reads: no sensor has two items, and no two sensors have one,
\* unless it is for these bits (equals and getId of the protocols).
THEOREM IdentityIsEquality ==
  ASSUME NEW d, NEW i, d.protocol \in Protocols, i.protocol \in Protocols, IsWhole(d), IsWhole(i)
  PROVE  equals(d, i) /\ OnlyInId(d) = OnlyInId(i) <=> getId(d) = getId(i) /\ OnlyInEquals(d) = OnlyInEquals(i)
<1>1. CASE d.protocol # i.protocol
  <2>1. ~equals(d, i)
    BY <1>1 DEF equals
  <2>2. getId(d) # getId(i)
    BY <1>1, IdHasProtocol DEF Id
  <2> QED
    BY <2>1, <2>2
<1>2. CASE d.protocol = i.protocol
  <2> PICK p, q : p = d.data /\ q = i.data
    OBVIOUS
  <2> DEFINE Same(high, low) == Field(p, high, low) = Field(q, high, low)
  <2>1. equals(d, i) <=> Class(d.protocol, "uid", d) = Class(d.protocol, "uid", i)
    BY <1>2 DEF equals
  <2>2. CASE d.protocol = "00592TXR"
    <3>1. /\ getId(d) = getId(i) <=> Same(37, 32) /\ Same(55, 54) /\ Same(51, 40)
          /\ equals(d, i) <=> Same(47, 40) /\ Same(55, 48)
      BY <1>2, <2>1, <2>2 DEF getId, Class, Class00592TXR, Id
    <3>2. OnlyInId(d) = Field(p, 37, 32) /\ OnlyInId(i) = Field(q, 37, 32)
      BY <1>2, <2>2 DEF OnlyInId
    <3>3. OnlyInEquals(d) = Field(p, 53, 52) /\ OnlyInEquals(i) = Field(q, 53, 52)
      BY <1>2, <2>2 DEF OnlyInEquals
    <3>4. Same(47, 40) /\ Same(55, 48) <=> Same(55, 54) /\ Same(51, 40) /\ Same(53, 52)
      BY <1>2, <2>2, Names00592TXR DEF IsWhole
    <3> QED
      BY <3>1, <3>2, <3>3, <3>4
  <2>3. CASE d.protocol = "WH2"
    <3>1. /\ getId(d) = getId(i) <=> OnlyInId(d) = OnlyInId(i) /\ Same(27, 20)
          /\ equals(d, i) <=> Same(27, 20)
      BY <1>2, <2>1, <2>3 DEF getId, Class, ClassWH2, Id, OnlyInId
    <3>2. OnlyInEquals(d) = OnlyInEquals(i)
      BY <1>2, <2>3 DEF OnlyInEquals
    <3> QED
      BY <3>1, <3>2
  <2>4. CASE d.protocol = "HG02832"
    <3>1. /\ getId(d) = getId(i) <=> Same(14, 12) /\ Same(31, 24)
          /\ equals(d, i) <=> Same(31, 24) /\ Same(13, 12)
      BY <1>2, <2>1, <2>4 DEF getId, Class, ClassHG02832, Id
    <3>2. OnlyInId(d) = Field(p, 14, 14) /\ OnlyInId(i) = Field(q, 14, 14)
      BY <1>2, <2>4 DEF OnlyInId
    <3>3. OnlyInEquals(d) = OnlyInEquals(i)
      BY <1>2, <2>4 DEF OnlyInEquals
    <3>4. Same(13, 12) /\ Same(14, 14) <=> Same(14, 12)
      BY <1>2, <2>4, NamesHG02832 DEF IsWhole
    <3> QED
      BY <3>1, <3>2, <3>3, <3>4
  <2>5. CASE d.protocol \in {"TFA303049", "F007TH", "TX141", "TX7U", "DS18B20"}
    <3>1. OnlyInId(d) = OnlyInId(i) /\ OnlyInEquals(d) = OnlyInEquals(i)
      BY <1>2, <2>5 DEF OnlyInId, OnlyInEquals
    <3>2. equals(d, i) <=> getId(d) = getId(i)
      <4>1. CASE d.protocol = "TFA303049"
        <5>1. /\ getId(d) = getId(i) <=>
                   Same(5, 4) /\ Field(p, 3, 0) + 16 * Field(p, 7, 6) = Field(q, 3, 0) + 16 * Field(q, 7, 6)
              /\ equals(d, i) <=> Same(7, 0)
          BY <1>2, <2>1, <4>1 DEF getId, Class, ClassTFA303049, Id
        <5> QED
          BY <1>2, <4>1, <5>1, NamesTFA303049 DEF IsWhole
      <4>2. CASE d.protocol = "F007TH"
        BY <1>2, <2>1, <4>2 DEF getId, Class, ClassF007TH, Id
      <4>3. CASE d.protocol = "TX141"
        BY <1>2, <2>1, <4>3 DEF getId, Class, ClassTX141, Id
      <4>4. CASE d.protocol = "TX7U"
        BY <1>2, <2>1, <4>4 DEF getId, Class, ClassTX7U, Id
      <4>5. CASE d.protocol = "DS18B20"
        BY <1>2, <2>1, <4>5 DEF getId, Class, ClassDS18B20, Id
      <4> QED
        BY <2>5, <4>1, <4>2, <4>3, <4>4, <4>5
    <3> QED
      BY <3>1, <3>2
  <2> QED
    BY <2>2, <2>3, <2>4, <2>5 DEF Protocols
<1> QED
  BY <1>1, <1>2

\* The data of a sensor is whole; its type is the one of its model, and what only
\* equals reads depends on the sensor alone.
LEMMA BitsOfSensor ==
  ASSUME NEW s \in AllSensors, NEW d, IsDataOf(d, s)
  PROVE  /\ d.protocol \in Protocols /\ IsWhole(d)
         /\ d.protocol = "00592TXR" => Field(d.data, 55, 40) = Value(NameOf00592TXR(s))
         /\ d.protocol \in {"00592TXR", "WH2"} => OnlyInId(d) = Model(s).variant
         /\ d.protocol = "HG02832" => OnlyInId(d) = 0
<1>1. d.protocol = Model(s).protocol /\ getId(d) = SensorId(s)
  BY DEF IsDataOf
<1>2. d.protocol \in Protocols
  BY <1>1, Models
<1>3. CASE d.protocol = "00592TXR"
  <2>1. s.model = "f00592txr"
    BY <1>1, <1>3, Models
  <2>2. PICK r \in ReadingsOf(s) : d.data = DataOf(s, r, "T")
    BY <2>1 DEF IsDataOf
  <2>3. IsBits(d.data, 56) /\ Field(d.data, 55, 40) = Value(NameOf00592TXR(s))
    BY <2>1, <2>2, Layout00592TXR
  <2>4. PICK channel, rc : getId(d) = Id("00592TXR", OnlyInId(d), channel, rc)
    BY <1>3 DEF getId, Class, Class00592TXR, OnlyInId
  <2>5. OnlyInId(d) = Model(s).variant
    BY <1>1, <2>4, SensorIdParts
  <2> QED
    BY <1>2, <1>3, <2>3, <2>5 DEF IsWhole
<1>4. CASE d.protocol = "WH2"
  <2>1. getId(d) = Id("WH2", OnlyInId(d), 0, Field(d.data, 27, 20))
    BY <1>4 DEF getId, Class, ClassWH2, OnlyInId
  <2>2. OnlyInId(d) = Model(s).variant
    BY <1>1, <2>1, SensorIdParts
  <2> QED
    BY <1>2, <1>4, <2>2 DEF IsWhole
<1>5. CASE d.protocol = "HG02832"
  <2>1. s.model = "hg02832"
    BY <1>1, <1>5, Models
  <2>2. PICK r \in ReadingsOf(s) : d.data = DataOf(s, r, "T")
    BY <2>1 DEF IsDataOf
  <2>3. IsBits(d.data, 32) /\ Field(d.data, 14, 14) = 0
    BY <2>1, <2>2, LayoutHG02832
  <2> QED
    BY <1>2, <1>5, <2>3 DEF IsWhole, OnlyInId
<1>6. CASE d.protocol = "TFA303049"
  <2>1. s.model = "tfa303049"
    BY <1>1, <1>6, Models
  <2>2. PICK r \in ReadingsOf(s) : d.data = DataOf(s, r, "T")
    BY <2>1 DEF IsDataOf
  <2>3. IsBits(d.data, 32)
    BY <2>1, <2>2, LayoutTFA303049
  <2> QED
    BY <1>2, <1>6, <2>3 DEF IsWhole
<1> QED
  BY <1>2, <1>3, <1>4, <1>5, <1>6 DEF IsWhole

\* Of the sensors in range equals tells the same apart as getId, twins aside.
LEMMA NamesAgree ==
  ASSUME NEW group \in SensorGroups, NEW s \in group, NEW o \in group, ~Twins(s, o),
         NEW d, NEW i, IsDataOf(d, s), IsDataOf(i, o)
  PROVE  equals(d, i) <=> getId(d) = getId(i)
<1>1. s \in AllSensors /\ o \in AllSensors /\ (SensorId(s) = SensorId(o) => s = o)
  BY SensorsAssumption DEF SensorsAssumption, AllSensors
<1>2. /\ d.protocol = Model(s).protocol /\ i.protocol = Model(o).protocol
      /\ getId(d) = SensorId(s) /\ getId(i) = SensorId(o)
  BY DEF IsDataOf
<1>3. d.protocol \in Protocols /\ i.protocol \in Protocols /\ IsWhole(d) /\ IsWhole(i)
  BY <1>1, BitsOfSensor
<1>4. equals(d, i) /\ OnlyInId(d) = OnlyInId(i) <=> getId(d) = getId(i) /\ OnlyInEquals(d) = OnlyInEquals(i)
  BY <1>3, IdentityIsEquality
<1>5. ASSUME equals(d, i)
      PROVE  OnlyInId(d) = OnlyInId(i)
  <2>1. d.protocol = i.protocol
    BY <1>5 DEF equals
  <2>2. CASE d.protocol = "00592TXR"
    <3>1. s.model = "f00592txr" /\ o.model = "f00592txr"
      BY <1>1, <1>2, <2>1, <2>2, Models
    <3> QED
      BY <1>1, <2>1, <2>2, <3>1, BitsOfSensor DEF Model
  <2>3. CASE d.protocol = "WH2"
    <3>1. /\ OnlyInId(d) = Model(s).variant /\ OnlyInId(i) = Model(o).variant
          /\ s.model \in {"wh2", "ft007th"} /\ o.model \in {"wh2", "ft007th"}
      BY <1>1, <1>2, <2>1, <2>3, BitsOfSensor, Models
    <3>2. /\ getId(d) = Id("WH2", OnlyInId(d), 0, Field(d.data, 27, 20))
          /\ getId(i) = Id("WH2", OnlyInId(i), 0, Field(i.data, 27, 20))
          /\ Class("WH2", "uid", d) = <<Field(d.data, 27, 20)>>
          /\ Class("WH2", "uid", i) = <<Field(i.data, 27, 20)>>
      BY <2>1, <2>3 DEF getId, Class, ClassWH2, OnlyInId
    <3>3. Field(d.data, 27, 20) = s.rc /\ Field(i.data, 27, 20) = o.rc
      BY <1>2, <3>2, SensorIdParts
    <3>4. s.rc = o.rc
      BY <1>5, <2>1, <2>3, <3>2, <3>3 DEF equals
    <3>5. s.model = o.model
      BY <3>1, <3>4 DEF Twins
    <3> QED
      BY <3>1, <3>5 DEF Model
  <2>4. CASE d.protocol = "HG02832"
    BY <1>1, <2>1, <2>4, BitsOfSensor
  <2>5. CASE d.protocol \notin {"00592TXR", "WH2", "HG02832"}
    BY <2>1, <2>5 DEF OnlyInId
  <2> QED
    BY <2>2, <2>3, <2>4, <2>5
<1>6. ASSUME getId(d) = getId(i)
      PROVE  OnlyInEquals(d) = OnlyInEquals(i)
  <2>1. s = o /\ d.protocol = i.protocol
    BY <1>1, <1>2, <1>6
  <2>2. CASE d.protocol = "00592TXR"
    <3>1. IsBits(d.data, 56) /\ IsBits(i.data, 56) /\ Field(d.data, 55, 40) = Field(i.data, 55, 40)
      BY <1>1, <1>3, <2>1, <2>2, BitsOfSensor DEF IsWhole
    <3>2. 56 \in Nat /\ 55 \in 0 .. 56 - 1 /\ 40 \in 0 .. 55 /\ 53 \in 40 .. 55 /\ 52 \in 40 .. 53
      OBVIOUS
    <3>3. Field(d.data, 53, 52) = Field(i.data, 53, 52)
      BY <3>1, <3>2, FieldPart
    <3> QED
      BY <2>1, <2>2, <3>3 DEF OnlyInEquals
  <2> QED
    BY <2>1, <2>2 DEF OnlyInEquals
<1> QED
  BY <1>4, <1>5, <1>6

DataFields == {"protocol", "data", "variant", "data_time", "t", "h"}
ItemFields == DataFields \cup {"def"}

\* What update puts together of a stored message and a new one has the rolling code
\* of the new one.
LEMMA MergedBits ==
  ASSUME NEW a, NEW b, IsBits(a, 44), IsBits(b, 44)
  PROVE  /\ IsBits(SubSeq(a, 1, 12) \o SubSeq(b, 13, 44), 44)
         /\ Field(SubSeq(a, 1, 12) \o SubSeq(b, 13, 44), 31, 25) = Field(b, 31, 25)
<1> DEFINE p == SubSeq(a, 1, 12)
           q == SubSeq(b, 13, 44)
           c == p \o q
<1>1. /\ 44 \in Nat /\ 1 \in 1 .. 44 /\ 12 \in 1 .. 44 /\ 12 - 1 + 1 = 12
      /\ 13 \in 1 .. 44 /\ 44 \in 13 .. 44 /\ 44 - 13 + 1 = 32 /\ 44 = 12 + 32
      /\ 12 \in Nat /\ 32 \in Nat
  OBVIOUS
<1>2. IsBits(p, 12)
  BY <1>1, PartBits
<1>3. IsBits(q, 32)
  BY <1>1, PartBits
<1>4. \A k \in 1 .. 32 : q[k] = b[13 + k - 1]
  BY <1>1, PartBits
<1> HIDE DEF p, q
<1>5. IsBits(c, 44)
  BY <1>1, <1>2, <1>3, PlacedBehind
<1>10. Placed(c, 12, q, 32)
  BY <1>1, <1>2, <1>3, PlacedBehind
<1> HIDE DEF c
<1>6. \A j \in 1 .. 32 : c[12 + j] = q[j]
  BY <1>10 DEF Placed
<1>7. \A k \in 44 - 31 .. 44 - 25 : c[k] = b[k]
  <2> TAKE k \in 44 - 31 .. 44 - 25
  <2>1. k - 12 \in 1 .. 32 /\ 12 + (k - 12) = k /\ 13 + (k - 12) - 1 = k
    OBVIOUS
  <2> QED
    BY <1>4, <1>6, <2>1
<1>8. 31 \in 0 .. 44 - 1 /\ 25 \in 0 .. 31
  OBVIOUS
<1>9. Field(c, 31, 25) = Field(b, 31, 25)
  BY <1>1, <1>5, <1>7, <1>8, FieldSame
<1> QED
  BY <1>5, <1>9 DEF c, p, q

-----------------------------------------------------------------------------
(* What the classes of the protocols return                                *)

\* What getId looks at.
LEMMA SameIdentity ==
  ASSUME NEW d, NEW e, d.protocol \in Protocols, e.protocol = d.protocol,
         d.protocol # "TX7U" => e.variant = d.variant,
         \/ e.data = d.data
         \/ d.protocol = "DS18B20"
         \/ (d.protocol = "TX7U" /\ Field(e.data, 31, 25) = Field(d.data, 31, 25))
  PROVE  getId(e) = getId(d)
<1>1. CASE d.protocol = "TX7U"
  <2>1. /\ ClassTX7U("getId", d) = Id("TX7U", 0, 0, Field(d.data, 31, 25))
        /\ ClassTX7U("getId", e) = Id("TX7U", 0, 0, Field(e.data, 31, 25))
    BY DEF ClassTX7U
  <2>2. getId(d) = ClassTX7U("getId", d) /\ getId(e) = ClassTX7U("getId", e)
    BY <1>1 DEF getId, Class
  <2>3. Field(e.data, 31, 25) = Field(d.data, 31, 25)
    BY <1>1
  <2> QED
    BY <2>1, <2>2, <2>3
<1>2. CASE d.protocol = "DS18B20"
  <2>1. /\ ClassDS18B20("getId", d) = Id("DS18B20", 0, 0, d.variant)
        /\ ClassDS18B20("getId", e) = Id("DS18B20", 0, 0, e.variant)
    BY DEF ClassDS18B20
  <2>2. getId(d) = ClassDS18B20("getId", d) /\ getId(e) = ClassDS18B20("getId", e)
    BY <1>2 DEF getId, Class
  <2> QED
    BY <1>2, <2>1, <2>2
<1>3. CASE d.protocol \notin {"TX7U", "DS18B20"}
  <2>1. e.data = d.data /\ e.variant = d.variant
    BY <1>3
  <2>2. CASE d.protocol = "00592TXR"
    <3>1. getId(d) = Class00592TXR("getId", d) /\ getId(e) = Class00592TXR("getId", e)
      BY <2>2 DEF getId, Class
    <3> QED
      BY <2>1, <3>1 DEF Class00592TXR
  <2>3. CASE d.protocol = "WH2"
    <3>1. getId(d) = ClassWH2("getId", d) /\ getId(e) = ClassWH2("getId", e)
      BY <2>3 DEF getId, Class
    <3> QED
      BY <2>1, <3>1 DEF ClassWH2
  <2>4. CASE d.protocol = "HG02832"
    <3>1. getId(d) = ClassHG02832("getId", d) /\ getId(e) = ClassHG02832("getId", e)
      BY <2>4 DEF getId, Class
    <3> QED
      BY <2>1, <3>1 DEF ClassHG02832
  <2>5. CASE d.protocol = "F007TH"
    <3>1. getId(d) = ClassF007TH("getId", d) /\ getId(e) = ClassF007TH("getId", e)
      BY <2>5 DEF getId, Class
    <3> QED
      BY <2>1, <3>1 DEF ClassF007TH
  <2>6. CASE d.protocol = "TFA303049"
    <3>1. getId(d) = ClassTFA303049("getId", d) /\ getId(e) = ClassTFA303049("getId", e)
      BY <2>6 DEF getId, Class
    <3> QED
      BY <2>1, <3>1 DEF ClassTFA303049
  <2>7. CASE d.protocol = "TX141"
    <3>1. getId(d) = ClassTX141("getId", d) /\ getId(e) = ClassTX141("getId", e)
      BY <2>7 DEF getId, Class
    <3> QED
      BY <2>1, <3>1 DEF ClassTX141
  <2> QED
    BY <1>3, <2>2, <2>3, <2>4, <2>5, <2>6, <2>7 DEF Protocols
<1> QED
  BY <1>1, <1>2, <1>3

\* The protocols whose update compares fields of one word
WordProtocols == Protocols \ {"TX7U", "DS18B20"}

\* They report what they have, and the temperature at least when it is too old.
LEMMA FlagsOfWord ==
  ASSUME NEW d, d.protocol \in WordProtocols, NEW i
  PROVE  /\ getFeatures(d) \subseteq AllFlags
         /\ Differences(d, i) \subseteq getFeatures(d)
         /\ "T" \in Outdated(d, i) \cap getFeatures(d)
         /\ "T" \in getMetrics(d)
         /\ {"T", "H"} \subseteq Outdated(d, i)
         /\ Differences(d, i) \subseteq AllFlags
<1> DEFINE features == Class(d.protocol, "features", d)
           metrics == Class(d.protocol, "metrics", d)
           outdated == Class(d.protocol, "outdated", d)
           fields == Class(d.protocol, "fields", d)
<1>1. /\ features \subseteq AllFlags /\ "T" \in features /\ {"T", "H"} \subseteq outdated /\ "T" \in metrics
      /\ DOMAIN fields \subseteq features
  <2>1. CASE d.protocol = "00592TXR"
    BY <2>1 DEF Class, Class00592TXR, AllFlags
  <2>2. CASE d.protocol = "WH2"
    BY <2>2 DEF Class, ClassWH2, AllFlags
  <2>3. CASE d.protocol = "HG02832"
    BY <2>3 DEF Class, ClassHG02832, AllFlags
  <2>4. CASE d.protocol = "F007TH"
    BY <2>4 DEF Class, ClassF007TH, AllFlags
  <2>5. CASE d.protocol = "TFA303049"
    BY <2>5 DEF Class, ClassTFA303049, AllFlags
  <2>6. CASE d.protocol = "TX141"
    BY <2>6 DEF Class, ClassTX141, AllFlags
  <2> QED
    BY <2>1, <2>2, <2>3, <2>4, <2>5, <2>6 DEF WordProtocols, Protocols
<1>2. getFeatures(d) = features /\ getMetrics(d) = metrics /\ outdated \subseteq Outdated(d, i)
  BY DEF getFeatures, getMetrics, Outdated
<1>3. Differences(d, i) \subseteq DOMAIN fields
  BY DEF Differences
<1> QED
  BY <1>1, <1>2, <1>3

\* A message of one value has the flag of its value.
LEMMA FlagsOfValue ==
  ASSUME NEW d, d.t = NoValue, d.h = NoValue
  PROVE  /\ d.protocol = "DS18B20" => getFeatures(d) = {"T"} /\ getMetrics(d) = {"T"}
         /\ d.protocol = "TX7U" =>
              /\ getFeatures(d) = getMetrics(d)
              /\ TypeTX7U(d) = 0 => getMetrics(d) = {"T"}
              /\ TypeTX7U(d) = 14 => getMetrics(d) = {"H"}
              /\ TypeTX7U(d) \notin {0, 14} => getMetrics(d) = {}
<1>1. CASE d.protocol = "DS18B20"
  <2>1. getFeatures(d) = ClassDS18B20("features", d) /\ getMetrics(d) = ClassDS18B20("metrics", d)
    BY <1>1 DEF getFeatures, getMetrics, Class
  <2> QED
    BY <1>1, <2>1 DEF ClassDS18B20
<1>2. CASE d.protocol = "TX7U"
  <2> DEFINE sent == CASE TypeTX7U(d) = 0 -> {"T"} [] TypeTX7U(d) = 14 -> {"H"} [] OTHER -> {}
  <2>1. getFeatures(d) = ClassTX7U("features", d) /\ getMetrics(d) = ClassTX7U("metrics", d)
    BY <1>2 DEF getFeatures, getMetrics, Class
  <2>2. ClassTX7U("features", d) = sent /\ ClassTX7U("metrics", d) = sent
    BY DEF ClassTX7U
  <2>3. 0 # 14
    OBVIOUS
  <2> QED
    BY <1>2, <2>1, <2>2, <2>3
<1> QED
  BY <1>1, <1>2

-----------------------------------------------------------------------------
(* What update and copyFields leave                                        *)

\* The members of the stored data, the definition aside
IsStored(i) ==
  /\ DOMAIN i \in {DataFields, ItemFields}
  /\ i.protocol \in Protocols
  /\ i.protocol = "TX7U" => IsBits(i.data, 44)

\* The data of a valid message
IsReading(d) ==
  /\ IsStored(d)
  /\ d.t = NoValue /\ d.h = NoValue
  /\ getMetrics(d) # {}

\* An item that has not been changed was not too old.
Unchanged(u, i, time, max_gap) ==
  u.item = i /\ (max_gap = 0 \/ time - i.data_time <= max_gap)

\* An item gets the time of the message, and something of it is reported.
Renewed(u, d, time) ==
  /\ IsStored(u.item)
  /\ u.item.data_time = time
  /\ getId(u.item) = getId(d)
  /\ u.changed \cap getFeatures(d) # {}

\* The members of what update returns.
LEMMA UpdatedMembers ==
  ASSUME NEW changed, NEW i
  PROVE  Updated(changed, i).changed = changed /\ Updated(changed, i).item = i
  BY DEF Updated

\* update of most protocols.
LEMMA UpdateWord ==
  ASSUME NEW d, IsReading(d), d.protocol \in WordProtocols, NEW i,
         NEW time \in Nat, i.data_time \in Nat, NEW max_gap \in Nat,
         NEW u, u = updateWord(d, i, time, max_gap)
  PROVE  Unchanged(u, i, time, max_gap) \/ Renewed(u, d, time)
<1> DEFINE gap == time - i.data_time
           changed == IF max_gap > 0 /\ gap > max_gap THEN Outdated(d, i) ELSE Differences(d, i)
           new == [d EXCEPT !.data_time = time]
<1>1. u = IF gap < 2 THEN Updated(TIME_NOT_CHANGED, i)
          ELSE IF changed = {} THEN Updated({}, i) ELSE Updated(changed, new)
  BY DEF updateWord
<1>2. gap \in Int
  OBVIOUS
<1>3. /\ "T" \in Outdated(d, i) \cap getFeatures(d)
      /\ Differences(d, i) \subseteq getFeatures(d)
  BY FlagsOfWord
<1>4. /\ IsStored(new)
      /\ new.data_time = time
      /\ getId(new) = getId(d)
  <2>1. /\ DOMAIN new = DOMAIN d /\ new.protocol = d.protocol /\ new.data = d.data
        /\ new.variant = d.variant /\ new.data_time = time
    BY DEF IsReading, IsStored, DataFields, ItemFields
  <2> HIDE DEF new
  <2>2. d.protocol \in Protocols
    BY DEF IsReading, IsStored
  <2>3. getId(new) = getId(d)
    BY <2>1, <2>2, SameIdentity
  <2> QED
    BY <2>1, <2>3 DEF IsReading, IsStored
<1> HIDE DEF new
<1>5. CASE gap < 2
  BY <1>1, <1>5, UpdatedMembers DEF Unchanged
<1>6. CASE gap >= 2 /\ changed = {}
  <2>1. ~(max_gap > 0 /\ gap > max_gap)
    BY <1>3, <1>6
  <2>2. u.item = i
    BY <1>1, <1>2, <1>6, UpdatedMembers
  <2> QED
    BY <1>2, <2>1, <2>2 DEF Unchanged
<1>7. CASE gap >= 2 /\ changed # {}
  <2>1. u = Updated(changed, new)
    BY <1>1, <1>2, <1>7
  <2>2. changed \cap getFeatures(d) # {}
    BY <1>3, <1>7
  <2> QED
    BY <1>4, <2>1, <2>2, UpdatedMembers DEF Renewed
<1> QED
  BY <1>2, <1>5, <1>6, <1>7

\* update of a message with one value.
LEMMA UpdateValue ==
  ASSUME NEW d, NEW flag, flag \in getFeatures(d), NEW same,
         NEW i, IsStored(i), DOMAIN i = ItemFields, getId(i) = getId(d),
         NEW stored, IsStored(stored), DOMAIN stored = ItemFields, getId(stored) = getId(d),
         NEW time \in Nat, i.data_time \in Nat, NEW max_gap \in Nat,
         NEW u, u = updateValue(flag, same, stored, i, time, max_gap)
  PROVE  Unchanged(u, i, time, max_gap) \/ Renewed(u, d, time)
<1> DEFINE gap == time - i.data_time
           Late(x) == [x EXCEPT !.data_time = time]
<1>1. u = IF ~same THEN Updated({flag}, Late(stored))
          ELSE IF gap < 2 THEN Updated(TIME_NOT_CHANGED, i)
          ELSE IF max_gap = 0 \/ gap < max_gap THEN Updated({}, i)
          ELSE Updated({flag}, Late(i))
  BY DEF updateValue
<1>2. gap \in Int
  OBVIOUS
<1>3. ASSUME NEW x, IsStored(x), DOMAIN x = ItemFields, getId(x) = getId(d), u = Updated({flag}, Late(x))
      PROVE  Renewed(u, d, time)
  <2> DEFINE new == Late(x)
  <2>1. /\ DOMAIN new = DOMAIN x /\ new.protocol = x.protocol /\ new.data = x.data
        /\ new.variant = x.variant /\ new.data_time = time
    BY <1>3 DEF DataFields, ItemFields
  <2> HIDE DEF new
  <2>2. x.protocol \in Protocols
    BY <1>3 DEF IsStored
  <2>3. getId(new) = getId(x)
    BY <2>1, <2>2, SameIdentity
  <2>4. u.changed = {flag} /\ u.item = new
    BY <1>3, UpdatedMembers DEF new
  <2> QED
    BY <1>3, <2>1, <2>3, <2>4 DEF Renewed, IsStored
<1> HIDE DEF Late
<1>4. CASE ~same
  BY <1>1, <1>3, <1>4
<1>5. CASE same /\ gap < 2
  BY <1>1, <1>2, <1>5, UpdatedMembers DEF Unchanged
<1>6. CASE same /\ ~(gap < 2) /\ (max_gap = 0 \/ gap < max_gap)
  BY <1>1, <1>2, <1>6, UpdatedMembers DEF Unchanged
<1>7. CASE same /\ ~(gap < 2) /\ ~(max_gap = 0 \/ gap < max_gap)
  BY <1>1, <1>3, <1>7
<1> QED
  BY <1>4, <1>5, <1>6, <1>7

\* Protocol::update: an item that it leaves was reported recently enough; one that it
\* changes still is the item of its sensor, and is reported.
LEMMA UpdateLeaves ==
  ASSUME NEW d, IsReading(d), NEW i, IsStored(i), DOMAIN i = ItemFields,
         equals(d, i), getId(d) = getId(i),
         NEW time \in Nat, i.data_time \in Nat, NEW max_gap \in Nat,
         NEW u, u = update(d, i, time, max_gap)
  PROVE  Unchanged(u, i, time, max_gap) \/ Renewed(u, d, time)
<1>1. d.protocol \in Protocols /\ i.protocol = d.protocol /\ d.t = NoValue /\ d.h = NoValue
  BY DEF IsReading, IsStored, equals
<1>2. CASE d.protocol \in WordProtocols
  <2>1. u = updateWord(d, i, time, max_gap)
    BY <1>2 DEF update, WordProtocols
  <2> QED
    BY <1>2, <2>1, UpdateWord
<1>3. CASE d.protocol = "DS18B20"
  <2> DEFINE stored == [i EXCEPT !.data = d.data]
             same == d.data = i.data
  <2>1. u = updateValue("T", same, stored, i, time, max_gap)
    BY <1>3 DEF update
  <2>2. /\ DOMAIN stored = ItemFields /\ stored.protocol = i.protocol /\ stored.variant = i.variant
    BY DEF DataFields, ItemFields
  <2> HIDE DEF stored, same
  <2>3. getId(stored) = getId(i)
    BY <1>1, <1>3, <2>2, SameIdentity
  <2>4. IsStored(stored)
    BY <1>1, <1>3, <2>2 DEF IsStored
  <2>5. "T" \in getFeatures(d)
    BY <1>1, <1>3, FlagsOfValue
  <2>6. getId(stored) = getId(d) /\ getId(i) = getId(d)
    BY <2>3
  <2> QED
    BY <2>1, <2>2, <2>4, <2>5, <2>6, UpdateValue
<1>4. CASE d.protocol = "TX7U"
  <2> DEFINE data == SubSeq(i.data, 1, 12) \o SubSeq(d.data, 13, 44)
             merged == [i EXCEPT !.data = SubSeq(@, 1, 12) \o SubSeq(d.data, 13, 44)]
             hot == [merged EXCEPT !.t = Digits(d)]
             wet == [merged EXCEPT !.h = HumidityTX7U(d)]
             sameT == i.t = Digits(d)
             sameH == i.h = HumidityTX7U(d)
  <2>1. /\ TypeTX7U(d) = 0 => u = updateValue("T", sameT, hot, i, time, max_gap)
        /\ TypeTX7U(d) = 14 => u = updateValue("H", sameH, wet, i, time, max_gap)
    <3>1. u = updateTX7U(d, i, time, max_gap)
      BY <1>4 DEF update
    <3>2. 0 # 14
      OBVIOUS
    <3> QED
      BY <3>1, <3>2 DEF updateTX7U
  <2>2. /\ DOMAIN hot = ItemFields /\ hot.protocol = i.protocol /\ hot.data = data
        /\ DOMAIN wet = ItemFields /\ wet.protocol = i.protocol /\ wet.data = data
    BY DEF DataFields, ItemFields
  <2>3. IsBits(data, 44) /\ Field(data, 31, 25) = Field(d.data, 31, 25)
    <3>1. IsBits(i.data, 44) /\ IsBits(d.data, 44)
      BY <1>1, <1>4 DEF IsReading, IsStored
    <3> QED
      BY <3>1, MergedBits
  <2> HIDE DEF data, merged, hot, wet, sameT, sameH
  <2>4. /\ getId(hot) = getId(d) /\ IsStored(hot)
        /\ getId(wet) = getId(d) /\ IsStored(wet)
    <3>1. getId(hot) = getId(d) /\ getId(wet) = getId(d)
      BY <1>1, <1>4, <2>2, <2>3, SameIdentity
    <3> QED
      BY <1>1, <1>4, <2>2, <2>3, <3>1 DEF IsStored
  <2>5. TypeTX7U(d) \in {0, 14}
    BY <1>1, <1>4, FlagsOfValue DEF IsReading
  <2>6. /\ TypeTX7U(d) = 0 => "T" \in getFeatures(d)
        /\ TypeTX7U(d) = 14 => "H" \in getFeatures(d)
    BY <1>1, <1>4, FlagsOfValue
  <2>7. CASE TypeTX7U(d) = 0
    BY <2>1, <2>2, <2>4, <2>6, <2>7, UpdateValue
  <2>8. CASE TypeTX7U(d) = 14
    BY <2>1, <2>2, <2>4, <2>6, <2>8, UpdateValue
  <2> QED
    BY <2>5, <2>7, <2>8
<1> QED
  BY <1>1, <1>2, <1>3, <1>4 DEF WordProtocols

\* An item is its data with a definition.
LEMMA WithDefMembers ==
  ASSUME NEW x, DOMAIN x \in {DataFields, ItemFields}, NEW def, NEW w, w = WithDef(x, def)
  PROVE  /\ DOMAIN w = ItemFields /\ w.def = def
         /\ w.protocol = x.protocol /\ w.data = x.data /\ w.variant = x.variant
         /\ w.data_time = x.data_time /\ w.t = x.t /\ w.h = x.h
         /\ IsStored(x) => IsStored(w) /\ getId(w) = getId(x)
<1>1. /\ DOMAIN w = ItemFields /\ w.def = def
      /\ w.protocol = x.protocol /\ w.data = x.data /\ w.variant = x.variant
      /\ w.data_time = x.data_time /\ w.t = x.t /\ w.h = x.h
  BY DEF WithDef, DataFields, ItemFields
<1>2. ASSUME IsStored(x)
      PROVE  IsStored(w) /\ getId(w) = getId(x)
  <2>1. x.protocol \in Protocols
    BY <1>2 DEF IsStored
  <2>2. getId(w) = getId(x)
    BY <1>1, <2>1, SameIdentity
  <2> QED
    BY <1>1, <1>2, <2>2 DEF IsStored
<1> QED
  BY <1>1, <1>2

\* What copyFields keeps of any message.
LEMMA CopyShape ==
  ASSUME NEW d, DOMAIN d = DataFields
  PROVE  DOMAIN copyFields(d) = DataFields /\ copyFields(d).data_time = d.data_time
<1>1. CASE d.protocol # "TX7U"
  BY <1>1 DEF copyFields
<1>2. CASE d.protocol = "TX7U"
  <2>1. copyFields(d) \in {[d EXCEPT !.t = Digits(d)], [d EXCEPT !.h = HumidityTX7U(d)],
                           [d EXCEPT !.data = Binary(0, 44)]}
    <3>1. 0 # 14
      OBVIOUS
    <3> QED
      BY <1>2, <3>1 DEF copyFields
  <2> QED
    BY <2>1 DEF DataFields
<1> QED
  BY <1>1, <1>2

\* A message that has a value is copied as the item of its sensor.
LEMMA CopyLeaves ==
  ASSUME NEW d, IsReading(d), DOMAIN d = DataFields
  PROVE  IsStored(copyFields(d)) /\ getId(copyFields(d)) = getId(d)
<1>1. CASE d.protocol # "TX7U"
  <2>1. copyFields(d) = d
    BY <1>1 DEF copyFields
  <2> QED
    BY <2>1 DEF IsReading
<1>2. CASE d.protocol = "TX7U"
  <2>1. TypeTX7U(d) \in {0, 14}
    BY <1>2, FlagsOfValue DEF IsReading
  <2>2. copyFields(d) \in {[d EXCEPT !.t = Digits(d)], [d EXCEPT !.h = HumidityTX7U(d)]}
    BY <1>2, <2>1 DEF copyFields
  <2>3. /\ DOMAIN copyFields(d) = DataFields
        /\ copyFields(d).protocol = d.protocol /\ copyFields(d).data = d.data
        /\ copyFields(d).variant = d.variant
    BY <2>2 DEF DataFields
  <2>4. d.protocol \in Protocols
    BY DEF IsReading, IsStored
  <2>5. getId(copyFields(d)) = getId(d)
    BY <2>3, <2>4, SameIdentity
  <2> QED
    BY <2>3, <2>5 DEF IsReading, IsStored
<1> QED
  BY <1>1, <1>2

\* What update keeps of any item, whatever it is called with.
LEMMA UpdateShape ==
  ASSUME NEW d, DOMAIN d = DataFields, NEW i, DOMAIN i = ItemFields, NEW time, NEW max_gap,
         NEW u, u = update(d, i, time, max_gap)
  PROVE  /\ DOMAIN u.item \in {DataFields, ItemFields}
         /\ u.item.data_time \in {time, i.data_time}
<1>1. ASSUME NEW x, DOMAIN x \in {DataFields, ItemFields}, NEW changed,
             u = Updated(changed, [x EXCEPT !.data_time = time])
      PROVE  DOMAIN u.item \in {DataFields, ItemFields} /\ u.item.data_time = time
  <2>1. u.item = [x EXCEPT !.data_time = time]
    BY <1>1, UpdatedMembers
  <2> QED
    BY <1>1, <2>1 DEF DataFields, ItemFields
<1>2. ASSUME NEW changed, u = Updated(changed, i)
      PROVE  DOMAIN u.item \in {DataFields, ItemFields} /\ u.item.data_time = i.data_time
  BY <1>2, UpdatedMembers
<1>3. ASSUME NEW flag, NEW same, NEW stored, DOMAIN stored = ItemFields,
             u = updateValue(flag, same, stored, i, time, max_gap)
      PROVE  DOMAIN u.item \in {DataFields, ItemFields} /\ u.item.data_time \in {time, i.data_time}
  <2>1. \/ u = Updated({flag}, [stored EXCEPT !.data_time = time])
        \/ u = Updated(TIME_NOT_CHANGED, i)
        \/ u = Updated({}, i)
        \/ u = Updated({flag}, [i EXCEPT !.data_time = time])
    BY <1>3 DEF updateValue
  <2> QED
    BY <1>1, <1>2, <1>3, <2>1
<1>4. CASE d.protocol = "TX7U"
  <2> DEFINE merged == [i EXCEPT !.data = SubSeq(@, 1, 12) \o SubSeq(d.data, 13, 44)]
             hot == [merged EXCEPT !.t = Digits(d)]
             wet == [merged EXCEPT !.h = HumidityTX7U(d)]
             sameT == i.t = Digits(d)
             sameH == i.h = HumidityTX7U(d)
  <2>1. \/ u = updateValue("T", sameT, hot, i, time, max_gap)
        \/ u = updateValue("H", sameH, wet, i, time, max_gap)
        \/ u = Updated({}, i)
    <3>1. u = updateTX7U(d, i, time, max_gap)
      BY <1>4 DEF update
    <3>2. 0 # 14
      OBVIOUS
    <3> QED
      BY <3>1, <3>2 DEF updateTX7U
  <2>2. DOMAIN hot = ItemFields /\ DOMAIN wet = ItemFields
    BY DEF ItemFields, DataFields
  <2> HIDE DEF hot, wet, sameT, sameH
  <2> QED
    BY <1>2, <1>3, <2>1, <2>2
<1>5. CASE d.protocol = "DS18B20"
  <2> DEFINE stored == [i EXCEPT !.data = d.data]
             same == d.data = i.data
  <2>1. u = updateValue("T", same, stored, i, time, max_gap)
    BY <1>5 DEF update
  <2>2. DOMAIN stored = ItemFields
    OBVIOUS
  <2> HIDE DEF stored, same
  <2> QED
    BY <1>3, <2>1, <2>2
<1>6. CASE d.protocol \notin {"TX7U", "DS18B20"}
  <2>1. u = updateWord(d, i, time, max_gap)
    BY <1>6 DEF update
  <2>2. \/ u = Updated(TIME_NOT_CHANGED, i)
        \/ u = Updated({}, i)
        \/ \E changed : u = Updated(changed, [d EXCEPT !.data_time = time])
    BY <2>1 DEF updateWord
  <2> QED
    BY <1>1, <1>2, <2>2
<1> QED
  BY <1>4, <1>5, <1>6

\* Something that is reported is sent.
LEMMA SentSomething ==
  ASSUME NEW d, IsReading(d), NEW changed, changed \cap getFeatures(d) # {}
  PROVE  Sent(d, changed) # {}
<1>1. getFeatures(d) \subseteq AllFlags
  <2>1. CASE d.protocol \in WordProtocols
    BY <2>1, FlagsOfWord
  <2>2. CASE d.protocol \notin WordProtocols
    <3>1. d.protocol \in {"TX7U", "DS18B20"}
      BY <2>2 DEF IsReading, IsStored, WordProtocols
    <3>2. {"T"} \subseteq AllFlags /\ {"H"} \subseteq AllFlags
      BY DEF AllFlags
    <3> QED
      BY <3>1, <3>2, FlagsOfValue DEF IsReading
  <2> QED
    BY <2>1, <2>2
<1>2. changed # TIME_NOT_CHANGED
  BY <1>1 DEF AllFlags, TIME_NOT_CHANGED
<1>3. FlagsToSend(changed, TRUE) = changed
  BY DEF FlagsToSend
<1> QED
  BY <1>2, <1>3 DEF Sent, Uploaded

-----------------------------------------------------------------------------
(* The types                                                               *)

TypeInv ==
  /\ TypeOK
  /\ sensors \in SensorGroups /\ config \in Configurations /\ definitions \subseteq sensors
  /\ heard # Nothing => heard.sensor \in sensors
  /\ last = [s \in sensors |-> last[s]] /\ reported = [s \in sensors |-> reported[s]]
  /\ \A i \in items : DOMAIN i = ItemFields

\* What the main loop knows of a message.
LEMMA DataMembers ==
  ASSUME NEW m, NEW d, d = SensorDataOf(m)
  PROVE  /\ DOMAIN d = DataFields
         /\ d.protocol = m.protocol /\ d.data = m.data /\ d.variant = m.variant
         /\ d.data_time = now /\ d.t = NoValue /\ d.h = NoValue
  BY DEF SensorDataOf, DataFields

\* update puts a message into the one item it has found, or makes a new one.
LEMMA ItemsAfterUpdate ==
  ASSUME NEW d
  PROVE  \/ /\ Find(d) = {}
            /\ UpdateItems(d).items = items \cup {WithDef(copyFields(d), FindDef(getId(d)))}
            /\ UpdateItems(d).changed = getMetrics(d) \cup {NEW_UID}
         \/ \E i \in Find(d) :
              LET u == update(d, i, now, config.max_unchanged_gap)
              IN  /\ UpdateItems(d).items = (items \ {i}) \cup {WithDef(u.item, i.def)}
                  /\ UpdateItems(d).changed = u.changed
<1>1. CASE Find(d) = {}
  BY <1>1 DEF UpdateItems
<1>2. CASE Find(d) # {}
  <2> DEFINE i == CHOOSE i \in Find(d) : TRUE
             u == update(d, i, now, config.max_unchanged_gap)
  <2>1. i \in Find(d)
    BY <1>2
  <2>2. /\ UpdateItems(d).items = (items \ {i}) \cup {WithDef(u.item, i.def)}
        /\ UpdateItems(d).changed = u.changed
    BY <1>2 DEF UpdateItems
  <2> HIDE DEF i
  <2> QED
    BY <2>1, <2>2
<1> QED
  BY <1>1, <1>2

\* A definition is one of the configuration.
LEMMA FoundDef ==
  ASSUME NEW id
  PROVE  FindDef(id) \in definitions \cup {NULL_SENSOR}
  BY DEF FindDef

\* The main loop keeps the types when it handles a valid message.
LEMMA HandleValidTypes ==
  ASSUME TypeInv, NEW success \in BOOLEAN, HandleValid(success)
  PROVE  TypeInv'
<1> DEFINE d == SensorDataOf(heard.message)
           s == heard.sensor
           Shape(i) == /\ DOMAIN i = ItemFields
                       /\ i.def \in definitions \cup {NULL_SENSOR}
                       /\ i.data_time \in 0 .. now
<1>1. /\ DOMAIN d = DataFields /\ d.data_time = now
      /\ s \in sensors /\ now \in 0 .. MAX_TIME
      /\ \A i \in items : Shape(i)
  <2>1. DOMAIN d = DataFields /\ d.data_time = now
    BY DataMembers
  <2> QED
    BY <2>1 DEF TypeInv, TypeOK, HandleValid
<1>2. now \in Nat /\ now \in 0 .. now
  BY <1>1, ReceptionAssumption DEF ReceptionAssumption
<1> HIDE DEF d
<1>3. \A i \in UpdateItems(d).items : Shape(i)
  <2>1. CASE /\ Find(d) = {}
             /\ UpdateItems(d).items = items \cup {WithDef(copyFields(d), FindDef(getId(d)))}
    <3> DEFINE w == WithDef(copyFields(d), FindDef(getId(d)))
    <3>1. DOMAIN copyFields(d) = DataFields /\ copyFields(d).data_time = now
      BY <1>1, CopyShape
    <3>2. DOMAIN w = ItemFields /\ w.def = FindDef(getId(d)) /\ w.data_time = now
      BY <3>1, WithDefMembers
    <3>3. FindDef(getId(d)) \in definitions \cup {NULL_SENSOR}
      BY FoundDef
    <3> HIDE DEF w
    <3>4. Shape(w)
      BY <1>2, <3>2, <3>3
    <3> QED
      BY <1>1, <2>1, <3>4 DEF w
  <2>2. ASSUME NEW i \in Find(d),
               UpdateItems(d).items =
                 (items \ {i}) \cup {WithDef(update(d, i, now, config.max_unchanged_gap).item, i.def)}
        PROVE  \A j \in UpdateItems(d).items : Shape(j)
    <3> DEFINE u == update(d, i, now, config.max_unchanged_gap)
               w == WithDef(u.item, i.def)
    <3>1. i \in items /\ Shape(i)
      BY <1>1 DEF Find
    <3>2. DOMAIN u.item \in {DataFields, ItemFields} /\ u.item.data_time \in {now, i.data_time}
      BY <1>1, <3>1, UpdateShape
    <3> HIDE DEF u
    <3>3. DOMAIN w = ItemFields /\ w.def = i.def /\ w.data_time \in {now, i.data_time}
      BY <3>2, WithDefMembers
    <3> HIDE DEF w
    <3>4. Shape(w)
      BY <1>2, <3>1, <3>3
    <3>5. UpdateItems(d).items = (items \ {i}) \cup {w}
      BY <2>2 DEF u, w
    <3> QED
      BY <1>1, <3>4, <3>5
  <2> QED
    BY <2>1, <2>2, ItemsAfterUpdate
<1>4. items' = UpdateItems(d).items
  BY DEF HandleValid, StoreAndUpload, d
<1>5. /\ last' = [last EXCEPT ![s] = Got(heard, heard.reading.t, heard.reading.h)]
      /\ reported' = reported \/ reported' = [reported EXCEPT ![s] = now]
      /\ heard' = Nothing
      /\ sensors' = sensors /\ config' = config /\ definitions' = definitions /\ now' = now
  BY DEF HandleValid, StoreAndUpload, Upload, configVars
<1>6. Got(heard, heard.reading.t, heard.reading.h).time = now
  BY DEF Got
<1> HIDE DEF s
<1>7. /\ last' = [o \in sensors |-> last'[o]]
      /\ \A o \in sensors : last'[o].time \in -1 .. now
  <2>1. /\ last = [o \in sensors |-> last[o]]
        /\ \A o \in sensors : last[o].time \in -1 .. now
    BY DEF TypeInv, TypeOK
  <2> QED
    BY <1>1, <1>2, <1>5, <1>6, <2>1
<1>8. /\ reported' = [o \in sensors |-> reported'[o]]
      /\ \A o \in sensors : reported'[o] \in -1 .. now
  <2>1. /\ reported = [o \in sensors |-> reported[o]]
        /\ \A o \in sensors : reported[o] \in -1 .. now
    BY DEF TypeInv, TypeOK
  <2> QED
    BY <1>1, <1>2, <1>5, <2>1
<1>9. \A i \in items' : Shape(i)
  BY <1>3, <1>4
<1>10. TypeOK'
  BY <1>1, <1>5, <1>7, <1>8, <1>9 DEF TypeOK
<1> QED
  BY <1>5, <1>7, <1>8, <1>9, <1>10 DEF TypeInv

\* The records of a sensor are of this sensor.
LEMMA RecordsSensor ==
  ASSUME NEW s \in AllSensors, NEW x \in RecordsOf[s]
  PROVE  x.sensor = s
<1>1. x \in IF IsRadio(s) THEN RadioRecords(s) ELSE W1Records(s)
  BY DEF RecordsOf
<1>2. CASE IsRadio(s)
  <2>1. PICK r \in ReadingsOf(s), what \in WhatIsSent(s), kind \in Kinds : x = Recorded(s, r, what, kind)
    BY <1>1, <1>2 DEF RadioRecords
  <2> QED
    BY <2>1 DEF Recorded, Heard
<1>3. CASE ~IsRadio(s)
  <2>1. PICK r \in ReadingsOf(s), file \in Files : x = PollW1(s, r, file)
    BY <1>1, <1>3 DEF W1Records
  <2> QED
    BY <2>1 DEF PollW1
<1> QED
  BY <1>2, <1>3

\* TypeInv is inductive: nothing in it depends on what the decoders do, for all
\* sensors, readings and configurations.
LEMMA TypeInvariant == Spec => []TypeInv
<1>1. Init => TypeInv
  <2> SUFFICES ASSUME Init
               PROVE  TypeInv
    OBVIOUS
  <2>1. /\ now = 0 /\ heard = Nothing /\ items = {} /\ definitions \subseteq sensors
        /\ last = [s \in sensors |-> NoReport] /\ reported = [s \in sensors |-> NoValue]
        /\ sensors \in SensorGroups /\ config \in Configurations
    BY DEF Init
  <2>2. NoReport.time = -1 /\ NoValue = -1
    BY DEF NoReport, NoValue
  <2>3. 0 \in 0 .. MAX_TIME /\ -1 \in -1 .. 0
    BY ReceptionAssumption DEF ReceptionAssumption
  <2>4. TypeOK
    BY <2>1, <2>2, <2>3 DEF TypeOK
  <2> QED
    BY <2>1, <2>4 DEF TypeInv
<1>2. TypeInv /\ [Next]_vars => TypeInv'
  <2> SUFFICES ASSUME TypeInv, [Next]_vars
               PROVE  TypeInv'
    OBVIOUS
  <2>1. ASSUME NEW s \in sensors, NEW h \in RecordsOf[s], Receive(h)
        PROVE  TypeInv'
    <3>1. h.sensor = s
      BY RecordsSensor DEF TypeInv, AllSensors
    <3> QED
      BY <2>1, <3>1 DEF Receive, configVars, TypeInv, TypeOK
  <2>2. ASSUME NEW success \in BOOLEAN, HandleValid(success)
        PROVE  TypeInv'
    BY <2>2, HandleValidTypes
  <2>3. ASSUME NEW success \in BOOLEAN, HandleCorrupted(success)
        PROVE  TypeInv'
    BY <2>3 DEF HandleCorrupted, configVars, TypeInv, TypeOK
  <2>4. CASE HandleUndecoded
    BY <2>4 DEF HandleUndecoded, configVars, TypeInv, TypeOK
  <2>5. CASE Tick
    <3>1. /\ now' = now + TICK /\ now + TICK <= MAX_TIME
          /\ heard' = heard /\ items' = items /\ last' = last /\ reported' = reported
          /\ sensors' = sensors /\ config' = config /\ definitions' = definitions
      BY <2>5 DEF Tick, configVars
    <3>2. now \in 0 .. MAX_TIME /\ TICK \in Nat /\ MAX_TIME \in Nat
      BY ReceptionAssumption DEF ReceptionAssumption, TypeInv, TypeOK
    <3>3. now' \in 0 .. MAX_TIME /\ -1 .. now \subseteq -1 .. now' /\ 0 .. now \subseteq 0 .. now'
      BY <3>1, <3>2
    <3>4. TypeOK'
      BY <3>1, <3>3 DEF TypeInv, TypeOK
    <3> QED
      BY <3>1, <3>4 DEF TypeInv
  <2>6. CASE UNCHANGED vars
    BY <2>6 DEF vars, configVars, TypeInv, TypeOK
  <2> QED
    BY <2>1, <2>2, <2>3, <2>4, <2>5, <2>6 DEF Next
<1> QED
  BY <1>1, <1>2, PTL DEF Spec

\* The times are in order and the names those of the configuration, whatever the
\* decoders make of the pulses (f007th_send.cpp, SensorsData::update).
THEOREM TypeCorrect == Spec => []TypeOK
<1>1. TypeInv => TypeOK
  BY DEF TypeInv
<1> QED
  BY <1>1, TypeInvariant, PTL

-----------------------------------------------------------------------------
(* What getters return of a message                                        *)

\* The sensors whose message is one word with all the values
IsWord(s) == s.model \notin {"tx6", "ds18b20"}

\* The Celsius of a reading, as the code computes it
CelsiusOf(s, t) == IF s.model \in {"f007th", "f007tp"} THEN Quotient((t - 320) * 5, 9) ELSE t

\* v are the twelve bits of t in two's complement.
IsTwelveBits(v, t) == t \in -2048 .. 2047 /\ v = (t % 2 ^ 12)

\* Twelve bits in two's complement are read as their number.
LEMMA SignedTwelve ==
  ASSUME NEW v, NEW t, IsTwelveBits(v, t)
  PROVE  Signed(v, 12) = t
<1>1. 2 ^ 12 = 4096 /\ 2 ^ (12 - 1) = 2048
  BY SMT
<1>2. t \in -2048 .. 2047 /\ v = (t % 2 ^ 12)
  BY DEF IsTwelveBits
<1>3. v = (t % 4096)
  BY <1>1, <1>2
<1>4. v = IF t >= 0 THEN t ELSE t + 4096
  BY <1>2, <1>3, SMT
<1>5. Signed(v, 12) = IF v >= 2048 THEN v - 4096 ELSE v
  BY <1>1 DEF Signed
<1> QED
  BY <1>2, <1>4, <1>5, SMT

\* The variant of an F007TP is not 0.
LEMMA VariantOfF007TH ==
  ASSUME NEW s \in AllSensors, NEW d, getId(d) = SensorId(s), d.protocol = "F007TH",
         d.protocol = Model(s).protocol
  PROVE  d.variant = 0 <=> s.model = "f007th"
<1>1. s.model \in {"f007th", "f007tp"}
  BY Models
<1>2. getId(d) = ClassF007TH("getId", d)
  BY DEF getId, Class
<1>3. getId(d) = Id("F007TH", d.variant, Field(d.data, 22, 20), Field(d.data, 31, 24))
  BY <1>2 DEF ClassF007TH
<1>4. d.variant = Model(s).variant
  BY <1>3, SensorIdParts
<1>5. s.model = "f007th" => Model(s).variant = 0
  BY DEF Model, ProtocolDefs, DefF007TH, Def
<1>6. s.model = "f007tp" => Model(s).variant = 1
  BY DEF Model, ProtocolDefs, DefF007TP, Def
<1>7. 0 # 1
  OBVIOUS
<1> QED
  BY <1>1, <1>4, <1>5, <1>6, <1>7

\* What is read of a 00592TXR.
LEMMA Values00592TXR ==
  ASSUME NEW s \in AllSensors, s.model = "f00592txr", NEW r \in ReadingsOf(s),
         NEW d, d.protocol = "00592TXR", d.data = DataOf(s, r, "T")
  PROVE  /\ getTemperatureCx10(d) = r.t
         /\ getHumidity(d) = r.h
         /\ getFeatures(d) = AllFlags
<1>7. PICK q, x, y : q = d.data /\ x = r.t /\ y = r.h
  OBVIOUS
<1>1. Field(q, 30, 24) = y /\ Field(q, 22, 16) * 128 + Field(q, 14, 8) = x + 1000
  BY <1>7, Layout00592TXR
<1>2. x \in Int
  <2>1. x \in Temperatures("f00592txr")
    BY <1>7, ReadingTypes
  <2>2. x \in -1000 .. 15383
    BY <2>1, SMT DEF Temperatures
  <2> QED
    BY <2>2, SMT
<1>8. /\ getTemperatureCx10(d) = Class00592TXR("Celsius", d) /\ getHumidity(d) = Class00592TXR("humidity", d)
      /\ getFeatures(d) = Class00592TXR("features", d)
  BY DEF getTemperatureCx10, getHumidity, getFeatures, Class
<1>13. PICK v : v = Field(q, 22, 16) * 128 + Field(q, 14, 8)
  OBVIOUS
<1>9. /\ getTemperatureCx10(d) = Field(q, 22, 16) * 128 + Field(q, 14, 8) - 1000
      /\ getHumidity(d) = Field(q, 30, 24) /\ getFeatures(d) = AllFlags
  BY <1>7, <1>8 DEF Class00592TXR
<1>14. Field(q, 22, 16) \in Nat /\ Field(q, 14, 8) \in Nat
  <2>1. IsBits(q, 56)
    BY <1>7, Layout00592TXR
  <2>2. 56 \in Nat /\ 22 \in Nat /\ 16 \in Nat /\ 14 \in Nat /\ 8 \in Nat /\ 22 < 56 /\ 16 <= 22 /\ 14 < 56 /\ 8 <= 14
    OBVIOUS
  <2>3. Field(q, 22, 16) \in Nat
    BY <2>1, <2>2, FieldBound
  <2>4. Field(q, 14, 8) \in Nat
    BY <2>1, <2>2, FieldBound
  <2> QED
    BY <2>3, <2>4
<1>12. getTemperatureCx10(d) = v - 1000
  BY <1>9, <1>13, <1>14, SMT
<1>10. v = x + 1000
  BY <1>1, <1>13
<1>11. v - 1000 = x
  BY <1>2, <1>10, SMT
<1> QED
  BY <1>7, <1>1, <1>9, <1>11, <1>12

\* What is read of a WH2, whose sign is never set.
LEMMA ValuesWH2 ==
  ASSUME NEW s \in AllSensors, s.model \in {"wh2", "ft007th"}, NEW r \in ReadingsOf(s),
         NEW d, d.protocol = "WH2", d.data = DataOf(s, r, "T")
  PROVE  /\ getTemperatureCx10(d) = r.t
         /\ getHumidity(d) = r.h
         /\ getFeatures(d) = {"T", "H"}
<1>7. PICK q, x, y : q = d.data /\ x = r.t /\ y = r.h
  OBVIOUS
<1>1. Field(q, 17, 8) = x /\ Field(q, 6, 0) = y
  BY <1>7, LayoutWH2
<1>2. x \in 0 .. 1023
  <2>1. x \in Temperatures(s.model)
    BY <1>7, ReadingTypes
  <2>2. CASE s.model = "wh2"
    BY <2>1, <2>2, SMT DEF Temperatures
  <2>3. CASE s.model = "ft007th"
    BY <2>1, <2>3, SMT DEF Temperatures
  <2> QED
    BY <2>2, <2>3
<1>8. /\ getTemperatureCx10(d) = ClassWH2("Celsius", d) /\ getHumidity(d) = ClassWH2("humidity", d)
      /\ getFeatures(d) = ClassWH2("features", d)
  BY DEF getTemperatureCx10, getHumidity, getFeatures, Class
<1>9. /\ getTemperatureCx10(d) = IF (x \div 2048) % 2 = 1 THEN -(x % 2048) ELSE x
      /\ getHumidity(d) = y /\ getFeatures(d) = {"T", "H"}
  BY <1>1, <1>7, <1>8 DEF ClassWH2
<1>10. (x \div 2048) % 2 = 0
  BY <1>2, SMT
<1> QED
  BY <1>7, <1>9, <1>10

\* What is read of an HG02832.
LEMMA ValuesHG02832 ==
  ASSUME NEW s \in AllSensors, s.model = "hg02832", NEW r \in ReadingsOf(s),
         NEW d, d.protocol = "HG02832", d.data = DataOf(s, r, "T")
  PROVE  /\ getTemperatureCx10(d) = r.t
         /\ getHumidity(d) = r.h
         /\ getFeatures(d) = AllFlags
<1>7. PICK q, x, y : q = d.data /\ x = r.t /\ y = r.h
  OBVIOUS
<1>1. Field(q, 11, 0) = (x % 2 ^ 12) /\ Field(q, 23, 16) = y
  BY <1>7, LayoutHG02832
<1>2. x \in -2048 .. 2047
  <2>1. x \in Temperatures("hg02832") /\ y \in Humidities("hg02832")
    BY <1>7, ReadingTypes
  <2> QED
    BY <2>1, SMT DEF Temperatures
<1>8. /\ getTemperatureCx10(d) = ClassHG02832("Celsius", d) /\ getHumidity(d) = ClassHG02832("humidity", d)
      /\ getFeatures(d) = ClassHG02832("features", d)
  BY DEF getTemperatureCx10, getHumidity, getFeatures, Class
<1>9. /\ getTemperatureCx10(d) = Signed(Field(q, 11, 0), 12)
      /\ getHumidity(d) = Field(q, 23, 16) /\ getFeatures(d) = AllFlags
  BY <1>7, <1>8 DEF ClassHG02832
<1>10. IsTwelveBits(Field(q, 11, 0), x)
  BY <1>1, <1>2 DEF IsTwelveBits
<1>11. Signed(Field(q, 11, 0), 12) = x
  BY <1>10, SignedTwelve
<1> QED
  BY <1>7, <1>1, <1>2, <1>9, <1>11

\* What is read of a TFA303049.
LEMMA ValuesTFA303049 ==
  ASSUME NEW s \in AllSensors, s.model = "tfa303049", NEW r \in ReadingsOf(s),
         NEW d, d.protocol = "TFA303049", d.data = DataOf(s, r, "T")
  PROVE  /\ getTemperatureCx10(d) = r.t
         /\ getHumidity(d) = r.h
         /\ getFeatures(d) = AllFlags
<1>7. PICK q, x, y : q = d.data /\ x = r.t /\ y = r.h
  OBVIOUS
<1>1. Field(q, 23, 12) = (x % 2 ^ 12) /\ Field(q, 30, 24) = y + 28
  BY <1>7, LayoutTFA303049
<1>2. x \in -2048 .. 2047 /\ (y + 28) - 28 = y
  <2>1. x \in Temperatures("tfa303049") /\ y \in Humidities("tfa303049")
    BY <1>7, ReadingTypes
  <2>2. x \in -2048 .. 2047
    BY <2>1, SMT DEF Temperatures
  <2>3. y \in -28 .. 99
    BY <2>1, SMT DEF Humidities
  <2>4. (y + 28) - 28 = y
    BY <2>3, SMT
  <2> QED
    BY <2>2, <2>4
<1>8. /\ getTemperatureCx10(d) = ClassTFA303049("Celsius", d) /\ getHumidity(d) = ClassTFA303049("humidity", d)
      /\ getFeatures(d) = ClassTFA303049("features", d)
  BY DEF getTemperatureCx10, getHumidity, getFeatures, Class
<1>9. /\ getTemperatureCx10(d) = Signed(Field(q, 23, 12), 12)
      /\ getHumidity(d) = Field(q, 30, 24) - 28 /\ getFeatures(d) = AllFlags
  BY <1>7, <1>8 DEF ClassTFA303049
<1>10. IsTwelveBits(Field(q, 23, 12), x)
  BY <1>1, <1>2 DEF IsTwelveBits
<1>11. Signed(Field(q, 23, 12), 12) = x
  BY <1>10, SignedTwelve
<1> QED
  BY <1>7, <1>1, <1>2, <1>9, <1>11

\* What is read of a TX141.
LEMMA ValuesTX141 ==
  ASSUME NEW s \in AllSensors, s.model = "tx141", NEW r \in ReadingsOf(s),
         NEW d, d.protocol = "TX141", d.data = DataOf(s, r, "T")
  PROVE  /\ getTemperatureCx10(d) = r.t
         /\ getHumidity(d) = r.h
         /\ getFeatures(d) = AllFlags
<1>7. PICK q, x, y : q = d.data /\ x = r.t /\ y = r.h
  OBVIOUS
<1>1. Field(q, 19, 8) = x + 500 /\ Field(q, 7, 0) = y
  BY <1>7, LayoutTX141
<1>2. x \in Int
  <2>1. x \in Temperatures("tx141")
    BY <1>7, ReadingTypes
  <2>2. x \in -500 .. 3595
    BY <2>1, SMT DEF Temperatures
  <2> QED
    BY <2>2, SMT
<1>8. /\ getTemperatureCx10(d) = ClassTX141("Celsius", d) /\ getHumidity(d) = ClassTX141("humidity", d)
      /\ getFeatures(d) = ClassTX141("features", d)
  BY DEF getTemperatureCx10, getHumidity, getFeatures, Class
<1>9. /\ getTemperatureCx10(d) = Field(q, 19, 8) - 500
      /\ getHumidity(d) = Field(q, 7, 0) /\ getFeatures(d) = AllFlags
  BY <1>7, <1>8 DEF ClassTX141
<1>10. (x + 500) - 500 = x
  BY <1>2, SMT
<1> QED
  BY <1>7, <1>1, <1>9, <1>10

\* What is read of an F007TH or F007TP.
LEMMA ValuesF007TH ==
  ASSUME NEW s \in AllSensors, s.model \in {"f007th", "f007tp"}, NEW r \in ReadingsOf(s),
         NEW d, d.protocol = "F007TH", d.data = DataOf(s, r, "T")
  PROVE  /\ getTemperatureCx10(d) = Quotient((r.t - 320) * 5, 9)
         /\ getTemperatureFx10(d) = r.t
         /\ d.variant = 0 => getHumidity(d) = r.h
         /\ getFeatures(d) = AllFlags
<1>7. PICK q, x, y : q = d.data /\ x = r.t /\ y = r.h
  OBVIOUS
<1>1. Field(q, 19, 8) = x + 400 /\ Field(q, 7, 0) = y
  BY <1>7, LayoutF007TH
<1>2. x \in Int
  <2>1. x \in Temperatures(s.model)
    BY <1>7, ReadingTypes
  <2>2. s.model = "f007th" => x \in -400 .. 3695
    BY <2>1, SMT DEF Temperatures
  <2>3. s.model = "f007tp" => x \in -400 .. 3695
    BY <2>1, SMT DEF Temperatures
  <2>4. x \in -400 .. 3695
    BY <2>2, <2>3
  <2> QED
    BY <2>4, SMT
<1>8. /\ getTemperatureCx10(d) = ClassF007TH("Celsius", d) /\ getHumidity(d) = ClassF007TH("humidity", d)
      /\ getFeatures(d) = ClassF007TH("features", d)
  BY DEF getTemperatureCx10, getHumidity, getFeatures, Class
<1>3. getTemperatureFx10(d) = ClassF007TH("Fahrenheit", d)
  BY DEF getTemperatureFx10, Class
<1>9. /\ getTemperatureCx10(d) = Quotient((Field(q, 19, 8) - 720) * 5, 9)
      /\ getHumidity(d) = IF d.variant = 0 THEN Field(q, 7, 0) ELSE 0
      /\ getFeatures(d) = AllFlags
      /\ getTemperatureFx10(d) = Field(q, 19, 8) - 400
  BY <1>3, <1>7, <1>8 DEF ClassF007TH
<1>10. (x + 400) - 400 = x /\ (x + 400) - 720 = x - 320
  BY <1>2, SMT
<1> QED
  BY <1>7, <1>1, <1>9, <1>10

\* What is read of a sensor whose message is one word.
LEMMA WordValues ==
  ASSUME NEW s \in AllSensors, IsWord(s), NEW d, IsDataOf(d, s),
         NEW r \in ReadingsOf(s), d.data = DataOf(s, r, "T")
  PROVE  /\ getTemperatureCx10(d) = CelsiusOf(s, r.t)
         /\ s.model \in {"f007th", "f007tp"} => getTemperatureFx10(d) = r.t
         /\ s.model # "f007tp" => getHumidity(d) = r.h
         /\ {"T", "H"} \subseteq getFeatures(d) /\ getFeatures(d) \subseteq AllFlags
         /\ hasHumidity(d) <=> s.model # "f007tp"
<1>1. /\ d.protocol = Model(s).protocol /\ getId(d) = SensorId(s)
      /\ d.protocol \in Protocols /\ d.protocol \notin {"TX7U", "DS18B20"}
  BY Models DEF IsDataOf, IsWord
<1>2. {"T", "H"} \subseteq AllFlags
  BY DEF AllFlags
<1>3. hasHumidity(d) <=> "H" \in getFeatures(d) /\ (d.protocol = "F007TH" => d.variant = 0)
  BY DEF hasHumidity
<1>4. CASE s.model \notin {"f007th", "f007tp"}
  <2>1. d.protocol # "F007TH" /\ s.model # "f007tp"
    BY <1>1, <1>4, Models
  <2>2. CelsiusOf(s, r.t) = r.t
    BY <1>4 DEF CelsiusOf
  <2>3. /\ getTemperatureCx10(d) = r.t /\ getHumidity(d) = r.h
        /\ getFeatures(d) \in {AllFlags, {"T", "H"}}
    <3>1. CASE d.protocol = "00592TXR"
      <4>1. s.model = "f00592txr"
        BY <1>1, <3>1, Models
      <4> QED
        BY <3>1, <4>1, Values00592TXR
    <3>2. CASE d.protocol = "WH2"
      <4>1. s.model \in {"wh2", "ft007th"}
        BY <1>1, <3>2, Models
      <4> QED
        BY <3>2, <4>1, ValuesWH2
    <3>3. CASE d.protocol = "HG02832"
      <4>1. s.model = "hg02832"
        BY <1>1, <3>3, Models
      <4> QED
        BY <3>3, <4>1, ValuesHG02832
    <3>4. CASE d.protocol = "TFA303049"
      <4>1. s.model = "tfa303049"
        BY <1>1, <3>4, Models
      <4> QED
        BY <3>4, <4>1, ValuesTFA303049
    <3>5. CASE d.protocol = "TX141"
      <4>1. s.model = "tx141"
        BY <1>1, <3>5, Models
      <4> QED
        BY <3>5, <4>1, ValuesTX141
    <3> QED
      BY <1>1, <2>1, <3>1, <3>2, <3>3, <3>4, <3>5 DEF Protocols
  <2> QED
    BY <1>2, <1>3, <1>4, <2>1, <2>2, <2>3
<1>5. CASE s.model \in {"f007th", "f007tp"}
  <2>1. d.protocol = "F007TH"
    BY <1>1, <1>5, Models
  <2>2. d.variant = 0 <=> s.model = "f007th"
    BY <1>1, <2>1, VariantOfF007TH
  <2>3. /\ getTemperatureCx10(d) = Quotient((r.t - 320) * 5, 9)
        /\ getTemperatureFx10(d) = r.t
        /\ d.variant = 0 => getHumidity(d) = r.h
        /\ getFeatures(d) = AllFlags
    BY <1>5, <2>1, ValuesF007TH
  <2>4. CelsiusOf(s, r.t) = Quotient((r.t - 320) * 5, 9)
    BY <1>5 DEF CelsiusOf
  <2> QED
    BY <1>2, <1>3, <1>5, <2>1, <2>2, <2>3, <2>4
<1> QED
  BY <1>4, <1>5

\* A flag that is not reported belongs to a field that is the same.
LEMMA NoDifference ==
  ASSUME NEW d, NEW i, NEW flag \in DOMAIN Class(d.protocol, "fields", d), flag \notin Differences(d, i),
         NEW high, NEW low, Class(d.protocol, "fields", d)[flag] = <<high, low>>
  PROVE  Field(d.data, high, low) = Field(i.data, high, low)
  BY DEF Differences, Differ

\* Numbers of twelve bits are told apart by their bits.
LEMMA TwelveBitsDiffer ==
  ASSUME NEW v, NEW x, NEW y, IsTwelveBits(v, x), IsTwelveBits(v, y)
  PROVE  x = y
  BY SignedTwelve

\* update of the words sees when a value has changed.
LEMMA WordDifferences ==
  ASSUME NEW s \in AllSensors, IsWord(s), NEW d, NEW i, IsDataOf(d, s),
         NEW r \in ReadingsOf(s), NEW o \in ReadingsOf(s),
         d.data = DataOf(s, r, "T"), i.data = DataOf(s, o, "T")
  PROVE  /\ "T" \notin Differences(d, i) => r.t = o.t
         /\ "H" \notin Differences(d, i) /\ s.model # "f007tp" => r.h = o.h
<1>1. /\ d.protocol = Model(s).protocol /\ getId(d) = SensorId(s)
      /\ d.protocol \in Protocols /\ d.protocol \notin {"TX7U", "DS18B20"}
  BY Models DEF IsDataOf, IsWord
<1> DEFINE fields == Class(d.protocol, "fields", d)
<1>2. PICK p, q : p = d.data /\ q = i.data
  OBVIOUS
<1>3. CASE d.protocol = "00592TXR"
  <2>1. s.model = "f00592txr"
    BY <1>1, <1>3, Models
  <2>2. fields = [T |-> <<23, 8>>, H |-> <<31, 24>>, B |-> <<39, 32>>]
    BY <1>3 DEF Class, Class00592TXR
  <2>3. "T" \in DOMAIN fields /\ fields["T"] = <<23, 8>> /\ "H" \in DOMAIN fields /\ fields["H"] = <<31, 24>>
    BY <2>2
  <2>4. /\ IsBits(p, 56) /\ IsBits(q, 56)
        /\ Field(p, 30, 24) = r.h /\ Field(q, 30, 24) = o.h
        /\ Field(p, 22, 16) * 128 + Field(p, 14, 8) = r.t + 1000
        /\ Field(q, 22, 16) * 128 + Field(q, 14, 8) = o.t + 1000
    BY <1>2, <2>1, Layout00592TXR
  <2>5. ASSUME "T" \notin Differences(d, i)
        PROVE  r.t = o.t
    <3>1. Field(p, 23, 8) = Field(q, 23, 8)
      BY <1>2, <2>3, <2>5, NoDifference
    <3>2. IsBits(p, 56) /\ IsBits(q, 56)
      BY <2>4
    <3>3. Field(p, 22, 16) = Field(q, 22, 16)
      <4>1. 56 \in Nat /\ 23 \in 0 .. 56 - 1 /\ 8 \in 0 .. 23 /\ 22 \in 8 .. 23 /\ 16 \in 8 .. 22
        OBVIOUS
      <4> QED
        BY <3>1, <3>2, <4>1, FieldPart
    <3>9. Field(p, 14, 8) = Field(q, 14, 8)
      <4>1. 56 \in Nat /\ 23 \in 0 .. 56 - 1 /\ 8 \in 0 .. 23 /\ 14 \in 8 .. 23 /\ 8 \in 8 .. 14
        OBVIOUS
      <4> QED
        BY <3>1, <3>2, <4>1, FieldPart
    <3>4. r.t + 1000 = o.t + 1000
      BY <2>4, <3>3, <3>9
    <3>5. PICK x, y : x = r.t /\ y = o.t
      OBVIOUS
    <3>6. x \in Int
      <4>1. x \in Temperatures("f00592txr")
        BY <2>1, <3>5, ReadingTypes
      <4> QED
        BY <4>1, SMT DEF Temperatures
    <3>10. y \in Int
      <4>1. y \in Temperatures("f00592txr")
        BY <2>1, <3>5, ReadingTypes
      <4> QED
        BY <4>1, SMT DEF Temperatures
    <3>7. x + 1000 = y + 1000
      BY <3>4, <3>5
    <3>8. x = y
      BY <3>6, <3>7, <3>10, SMT
    <3> QED
      BY <3>5, <3>8
  <2>6. ASSUME "H" \notin Differences(d, i)
        PROVE  r.h = o.h
    <3>1. Field(p, 31, 24) = Field(q, 31, 24)
      BY <1>2, <2>3, <2>6, NoDifference
    <3>2. 56 \in Nat /\ 31 \in 0 .. 56 - 1 /\ 24 \in 0 .. 31 /\ 30 \in 24 .. 31 /\ 24 \in 24 .. 30
      OBVIOUS
    <3>4. IsBits(p, 56) /\ IsBits(q, 56)
      BY <2>4
    <3>3. Field(p, 30, 24) = Field(q, 30, 24)
      BY <3>1, <3>2, <3>4, FieldPart, ZenonT(60)
    <3> QED
      BY <2>4, <3>3
  <2> QED
    BY <2>5, <2>6
<1>4. CASE d.protocol = "WH2"
  <2>1. s.model \in {"wh2", "ft007th"}
    BY <1>1, <1>4, Models
  <2>2. fields = [T |-> <<17, 8>>, H |-> <<7, 0>>]
    BY <1>4 DEF Class, ClassWH2
  <2>3. "T" \in DOMAIN fields /\ fields["T"] = <<17, 8>> /\ "H" \in DOMAIN fields /\ fields["H"] = <<7, 0>>
    BY <2>2
  <2>4. /\ IsBits(p, 32) /\ IsBits(q, 32)
        /\ Field(p, 6, 0) = r.h /\ Field(q, 6, 0) = o.h
        /\ Field(p, 17, 8) = r.t /\ Field(q, 17, 8) = o.t
    BY <1>2, <2>1, LayoutWH2
  <2>5. "T" \notin Differences(d, i) => r.t = o.t
    BY <1>2, <2>3, <2>4, NoDifference
  <2>6. ASSUME "H" \notin Differences(d, i)
        PROVE  r.h = o.h
    <3>1. Field(p, 7, 0) = Field(q, 7, 0)
      BY <1>2, <2>3, <2>6, NoDifference
    <3>2. 32 \in Nat /\ 7 \in 0 .. 32 - 1 /\ 0 \in 0 .. 7 /\ 6 \in 0 .. 7 /\ 0 \in 0 .. 6
      OBVIOUS
    <3>4. IsBits(p, 32) /\ IsBits(q, 32)
      BY <2>4
    <3>3. Field(p, 6, 0) = Field(q, 6, 0)
      BY <3>1, <3>2, <3>4, FieldPart
    <3> QED
      BY <2>4, <3>3
  <2> QED
    BY <2>5, <2>6
<1>5. CASE d.protocol = "HG02832"
  <2>1. s.model = "hg02832"
    BY <1>1, <1>5, Models
  <2>2. fields = [T |-> <<11, 0>>, H |-> <<23, 16>>, B |-> <<15, 15>>]
    BY <1>5 DEF Class, ClassHG02832
  <2>3. "T" \in DOMAIN fields /\ fields["T"] = <<11, 0>> /\ "H" \in DOMAIN fields /\ fields["H"] = <<23, 16>>
    BY <2>2
  <2>4. /\ Field(p, 23, 16) = r.h /\ Field(q, 23, 16) = o.h
        /\ Field(p, 11, 0) = (r.t % 2 ^ 12) /\ Field(q, 11, 0) = (o.t % 2 ^ 12)
    BY <1>2, <2>1, LayoutHG02832
  <2>5. IsTwelveBits(Field(p, 11, 0), r.t) /\ IsTwelveBits(Field(q, 11, 0), o.t)
    <3>1. PICK x, y : x = r.t /\ y = o.t
      OBVIOUS
    <3>2. x \in Temperatures("hg02832") /\ y \in Temperatures("hg02832")
      BY <2>1, <3>1, ReadingTypes
    <3>3. x \in -2048 .. 2047
      BY <3>2, SMT DEF Temperatures
    <3>4. y \in -2048 .. 2047
      BY <3>2, SMT DEF Temperatures
    <3> QED
      BY <2>4, <3>1, <3>3, <3>4 DEF IsTwelveBits
  <2>6. "T" \notin Differences(d, i) => r.t = o.t
    BY <1>2, <2>3, <2>5, NoDifference, TwelveBitsDiffer
  <2>7. "H" \notin Differences(d, i) => r.h = o.h
    BY <1>2, <2>3, <2>4, NoDifference
  <2> QED
    BY <2>6, <2>7
<1>6. CASE d.protocol = "TFA303049"
  <2>1. s.model = "tfa303049"
    BY <1>1, <1>6, Models
  <2>2. fields = [T |-> <<23, 12>>, H |-> <<30, 24>>, B |-> <<8, 8>>]
    BY <1>6 DEF Class, ClassTFA303049
  <2>3. "T" \in DOMAIN fields /\ fields["T"] = <<23, 12>> /\ "H" \in DOMAIN fields /\ fields["H"] = <<30, 24>>
    BY <2>2
  <2>4. /\ Field(p, 30, 24) = r.h + 28 /\ Field(q, 30, 24) = o.h + 28
        /\ Field(p, 23, 12) = (r.t % 2 ^ 12) /\ Field(q, 23, 12) = (o.t % 2 ^ 12)
    BY <1>2, <2>1, LayoutTFA303049
  <2>5. IsTwelveBits(Field(p, 23, 12), r.t) /\ IsTwelveBits(Field(q, 23, 12), o.t)
    <3>1. PICK x, y : x = r.t /\ y = o.t
      OBVIOUS
    <3>2. x \in Temperatures("tfa303049") /\ y \in Temperatures("tfa303049")
      BY <2>1, <3>1, ReadingTypes
    <3>3. x \in -2048 .. 2047
      BY <3>2, SMT DEF Temperatures
    <3>4. y \in -2048 .. 2047
      BY <3>2, SMT DEF Temperatures
    <3> QED
      BY <2>4, <3>1, <3>3, <3>4 DEF IsTwelveBits
  <2>6. "T" \notin Differences(d, i) => r.t = o.t
    BY <1>2, <2>3, <2>5, NoDifference, TwelveBitsDiffer
  <2>7. ASSUME "H" \notin Differences(d, i)
        PROVE  r.h = o.h
    <3>1. PICK x, y : x = r.h /\ y = o.h
      OBVIOUS
    <3>2. x \in Humidities("tfa303049") /\ y \in Humidities("tfa303049")
      BY <2>1, <3>1, ReadingTypes
    <3>3. x \in -28 .. 99
      BY <3>2, SMT DEF Humidities
    <3>4. y \in -28 .. 99
      BY <3>2, SMT DEF Humidities
    <3>5. Field(p, 30, 24) = Field(q, 30, 24)
      BY <1>2, <2>3, <2>7, NoDifference
    <3>6. x + 28 = y + 28
      BY <2>4, <3>1, <3>5
    <3>7. x = y
      BY <3>3, <3>4, <3>6, SMT
    <3> QED
      BY <3>1, <3>7
  <2> QED
    BY <2>6, <2>7
<1>7. CASE d.protocol = "TX141" \/ d.protocol = "F007TH"
  <2>1. CASE d.protocol = "TX141"
    <3>1. s.model = "tx141"
      BY <1>1, <2>1, Models
    <3>2. fields = [T |-> <<19, 8>>, H |-> <<7, 0>>, B |-> <<23, 23>>]
      BY <2>1 DEF Class, ClassTX141
    <3>3. "T" \in DOMAIN fields /\ fields["T"] = <<19, 8>> /\ "H" \in DOMAIN fields /\ fields["H"] = <<7, 0>>
      BY <3>2
    <3>4. /\ Field(p, 7, 0) = r.h /\ Field(q, 7, 0) = o.h
          /\ Field(p, 19, 8) = r.t + 500 /\ Field(q, 19, 8) = o.t + 500
      BY <1>2, <3>1, LayoutTX141
    <3>5. "H" \notin Differences(d, i) => r.h = o.h
      BY <1>2, <3>3, <3>4, NoDifference
    <3>6. ASSUME "T" \notin Differences(d, i)
          PROVE  r.t = o.t
      <4>1. PICK x, y : x = r.t /\ y = o.t
        OBVIOUS
      <4>2. x \in Temperatures("tx141") /\ y \in Temperatures("tx141")
        BY <3>1, <4>1, ReadingTypes
      <4>3. x \in -500 .. 3595
        BY <4>2, SMT DEF Temperatures
      <4>4. y \in -500 .. 3595
        BY <4>2, SMT DEF Temperatures
      <4>5. Field(p, 19, 8) = Field(q, 19, 8)
        BY <1>2, <3>3, <3>6, NoDifference
      <4>6. x + 500 = y + 500
        BY <3>4, <4>1, <4>5
      <4>7. x = y
        BY <4>3, <4>4, <4>6, SMT
      <4> QED
        BY <4>1, <4>7
    <3> QED
      BY <3>5, <3>6
  <2>2. CASE d.protocol = "F007TH"
    <3>1. s.model \in {"f007th", "f007tp"} /\ (d.variant = 0 <=> s.model = "f007th")
      BY <1>1, <2>2, Models, VariantOfF007TH
    <3>2. fields = IF d.variant = 0 THEN [T |-> <<19, 8>>, H |-> <<7, 0>>, B |-> <<2, 2>>]
                                    ELSE [T |-> <<19, 8>>, B |-> <<2, 2>>]
      BY <2>2 DEF Class, ClassF007TH
    <3>3. /\ "T" \in DOMAIN fields /\ fields["T"] = <<19, 8>>
          /\ d.variant = 0 => "H" \in DOMAIN fields /\ fields["H"] = <<7, 0>>
      BY <3>2
    <3>4. /\ Field(p, 7, 0) = r.h /\ Field(q, 7, 0) = o.h
          /\ Field(p, 19, 8) = r.t + 400 /\ Field(q, 19, 8) = o.t + 400
      BY <1>2, <3>1, LayoutF007TH
    <3>5. "H" \notin Differences(d, i) /\ d.variant = 0 => r.h = o.h
      BY <1>2, <3>3, <3>4, NoDifference
    <3>6. ASSUME "T" \notin Differences(d, i)
          PROVE  r.t = o.t
      <4>1. PICK x, y : x = r.t /\ y = o.t
        OBVIOUS
      <4>2. x \in Temperatures(s.model) /\ y \in Temperatures(s.model)
        BY <4>1, ReadingTypes
      <4>3. x \in -400 .. 3695
        <5>1. s.model = "f007th" => x \in -400 .. 3695
          BY <4>2, SMT DEF Temperatures
        <5>2. s.model = "f007tp" => x \in -400 .. 3695
          BY <4>2, SMT DEF Temperatures
        <5> QED
          BY <3>1, <5>1, <5>2
      <4>4. y \in -400 .. 3695
        <5>1. s.model = "f007th" => y \in -400 .. 3695
          BY <4>2, SMT DEF Temperatures
        <5>2. s.model = "f007tp" => y \in -400 .. 3695
          BY <4>2, SMT DEF Temperatures
        <5> QED
          BY <3>1, <5>1, <5>2
      <4>5. Field(p, 19, 8) = Field(q, 19, 8)
        BY <1>2, <3>3, <3>6, NoDifference
      <4>6. x + 400 = y + 400
        BY <3>4, <4>1, <4>5
      <4>7. x = y
        BY <4>3, <4>4, <4>6, SMT
      <4> QED
        BY <4>1, <4>7
    <3> QED
      BY <3>1, <3>5, <3>6
  <2> QED
    BY <1>7, <2>1, <2>2
<1> QED
  BY <1>1, <1>3, <1>4, <1>5, <1>6, <1>7 DEF Protocols

-----------------------------------------------------------------------------
(* What the stored data holds                                              *)

\* The data d of a valid message is the reading r of the sensor s.
IsMessageOf(d, s, r, what) ==
  /\ IsDataOf(d, s) /\ DOMAIN d = DataFields
  /\ d.t = NoValue /\ d.h = NoValue
  /\ r \in ReadingsOf(s) /\ what \in WhatIsSent(s)
  /\ IsRadio(s) => d.data = DataOf(s, r, what)
  /\ ~IsRadio(s) => r.t \in Thousandths /\ r.t >= 0 /\ d.data = Binary(r.t, 24)

\* The data i of the sensor s holds the temperature t and the humidity h.
Holds(i, s, t, h) ==
  /\ IsDataOf(i, s)
  /\ IsWord(s) => \E o \in ReadingsOf(s) : /\ i.data = DataOf(s, o, "T") /\ o.t = t
                                           /\ s.model # "f007tp" => o.h = h
  /\ s.model = "tx6" => /\ t # NoValue => i.t = t + 500 /\ t \in Temperatures("tx6")
                        /\ h # NoValue => i.h = h
  /\ s.model = "ds18b20" => t \in Thousandths /\ t >= 0 /\ i.data = Binary(t, 24)

\* The values that data of a sensor has
HasT(i, s) == s.model = "tx6" => i.t # NoValue
HasH(i, s) == s.model \notin {"f007tp", "ds18b20"} /\ (s.model = "tx6" => i.h # NoValue)

\* The definition of an item aside, which getters do not look at, and its time
SameData(x, y) ==
  x.protocol = y.protocol /\ x.data = y.data /\ x.variant = y.variant /\ x.t = y.t /\ x.h = y.h

\* What is read of a TX7U.
LEMMA ValuesTX7U ==
  ASSUME NEW d, d.protocol = "TX7U"
  PROVE  /\ getTemperatureCx10(d) = (IF d.t # NoValue THEN d.t ELSE Digits(d)) - 500
         /\ getHumidity(d) = IF d.h # NoValue THEN d.h ELSE HumidityTX7U(d)
         /\ d.t # NoValue => "T" \in getFeatures(d)
         /\ d.h # NoValue => "H" \in getFeatures(d)
<1>1. /\ getTemperatureCx10(d) = ClassTX7U("Celsius", d) /\ getHumidity(d) = ClassTX7U("humidity", d)
      /\ getFeatures(d) = ClassTX7U("features", d)
  BY DEF getTemperatureCx10, getHumidity, getFeatures, Class
<1>2. ClassTX7U("Celsius", d) = (IF d.t # NoValue THEN d.t ELSE Digits(d)) - 500
  BY DEF ClassTX7U
<1>3. ClassTX7U("humidity", d) = IF d.h # NoValue THEN d.h ELSE HumidityTX7U(d)
  BY DEF ClassTX7U
<1>4. /\ d.t # NoValue => "T" \in ClassTX7U("features", d)
      /\ d.h # NoValue => "H" \in ClassTX7U("features", d)
  BY DEF ClassTX7U
<1> QED
  BY <1>1, <1>2, <1>3, <1>4

\* What is read of a DS18B20.
LEMMA ValuesDS18B20 ==
  ASSUME NEW d, d.protocol = "DS18B20"
  PROVE  /\ getTemperatureCx10(d) = Quotient(Value(d.data) + 50, 100)
         /\ getTemperatureFx10(d) = Quotient(Value(d.data) * 9 + 250, 500) + 320
         /\ getFeatures(d) = {"T"}
<1>1. /\ getTemperatureCx10(d) = ClassDS18B20("Celsius", d) /\ getFeatures(d) = ClassDS18B20("features", d)
      /\ getTemperatureFx10(d) = ClassDS18B20("Fahrenheit", d)
  BY DEF getTemperatureCx10, getTemperatureFx10, getFeatures, Class
<1> QED
  BY <1>1 DEF ClassDS18B20

\* The value in a message of a TX7U.
LEMMA MessageOfTX7U ==
  ASSUME NEW s \in AllSensors, s.model = "tx6", NEW d, NEW r, NEW what, IsMessageOf(d, s, r, what)
  PROVE  /\ d.protocol = "TX7U" /\ what \in {"T", "H"}
         /\ what = "T" => /\ TypeTX7U(d) = 0 /\ Digits(d) = r.t + 500 /\ Digits(d) # NoValue
                          /\ getFeatures(d) = {"T"} /\ getTemperatureCx10(d) = Digits(d) - 500
         /\ what = "H" => /\ TypeTX7U(d) = 14 /\ HumidityTX7U(d) = r.h /\ HumidityTX7U(d) # NoValue
                          /\ getFeatures(d) = {"H"} /\ getHumidity(d) = HumidityTX7U(d)
<1>1. d.protocol = "TX7U" /\ what \in {"T", "H"} /\ d.t = NoValue /\ d.h = NoValue
  BY Models DEF IsMessageOf, IsDataOf, WhatIsSent
<1>2. r \in ReadingsOf(s) /\ d.data = DataOf(s, r, what)
  BY DEF IsMessageOf, IsRadio
<1>3. PICK x, y : x = r.t /\ y = r.h
  OBVIOUS
<1>4. x \in -500 .. 499 /\ y \in 0 .. 99
  <2>1. x \in Temperatures("tx6") /\ y \in Humidities("tx6")
    BY <1>2, <1>3, ReadingTypes
  <2>2. x \in -500 .. 499
    BY <2>1, SMT DEF Temperatures
  <2>3. y \in 0 .. 99
    BY <2>1, SMT DEF Humidities
  <2> QED
    BY <2>2, <2>3
<1>5. x + 500 # NoValue /\ y # NoValue
  BY <1>4, SMT DEF NoValue
<1>6. /\ getFeatures(d) = getMetrics(d)
      /\ TypeTX7U(d) = 0 => getMetrics(d) = {"T"}
      /\ TypeTX7U(d) = 14 => getMetrics(d) = {"H"}
  BY <1>1, FlagsOfValue
<1>7. /\ getTemperatureCx10(d) = Digits(d) - 500
      /\ getHumidity(d) = HumidityTX7U(d)
  BY <1>1, ValuesTX7U
<1>8. CASE what = "T"
  <2>1. TypeTX7U(d) = 0 /\ Digits(d) = r.t + 500
    BY <1>2, <1>8, LayoutTX7U
  <2> QED
    BY <1>1, <1>3, <1>5, <1>6, <1>7, <1>8, <2>1
<1>9. CASE what = "H"
  <2>1. TypeTX7U(d) = 14 /\ HumidityTX7U(d) = r.h
    BY <1>2, <1>9, LayoutTX7U
  <2> QED
    BY <1>1, <1>3, <1>5, <1>6, <1>7, <1>9, <2>1
<1> QED
  BY <1>1, <1>8, <1>9

\* A message of the other sensors has all their values.
LEMMA MessageOfWord ==
  ASSUME NEW s \in AllSensors, IsWord(s), NEW d, NEW r, NEW what, IsMessageOf(d, s, r, what)
  PROVE  what = "T" /\ r \in ReadingsOf(s) /\ d.data = DataOf(s, r, "T")
  BY DEF IsMessageOf, IsWord, IsRadio, WhatIsSent

\* After update with the reading r of a sensor, whose item holds the reading o and is
\* `gap` seconds old, it holds the reading p.
IsStep(s, p, r, o, gap, u) ==
  /\ u.item.data = DataOf(s, p, "T")
  /\ u.changed = TIME_NOT_CHANGED => p = o /\ gap < 2
  /\ u.changed # TIME_NOT_CHANGED => p.t = r.t /\ (s.model # "f007tp" => p.h = r.h)
  /\ "T" \notin u.changed => p.t = o.t
  /\ "H" \notin u.changed /\ s.model # "f007tp" => p.h = o.h

\* update of the words.
LEMMA WordUpdate ==
  ASSUME NEW s \in AllSensors, IsWord(s), NEW d, NEW i, IsDataOf(d, s), IsDataOf(i, s),
         NEW r \in ReadingsOf(s), NEW o \in ReadingsOf(s),
         d.data = DataOf(s, r, "T"), i.data = DataOf(s, o, "T"), DOMAIN d = DataFields,
         NEW time \in Nat, i.data_time \in Nat, NEW max_gap \in Nat,
         NEW u, u = update(d, i, time, max_gap)
  PROVE  \E p \in ReadingsOf(s) : IsStep(s, p, r, o, time - i.data_time, u) /\ u.item.protocol = d.protocol
<1> DEFINE gap == time - i.data_time
           changed == IF max_gap > 0 /\ gap > max_gap THEN Outdated(d, i) ELSE Differences(d, i)
           new == [d EXCEPT !.data_time = time]
<1>1. d.protocol \in WordProtocols /\ i.protocol = d.protocol
  BY Models DEF IsDataOf, IsWord, WordProtocols
<1>2. u = IF gap < 2 THEN Updated(TIME_NOT_CHANGED, i)
          ELSE IF changed = {} THEN Updated({}, i) ELSE Updated(changed, new)
  BY <1>1 DEF update, updateWord, WordProtocols
<1>3. gap \in Int
  OBVIOUS
<1>4. new.data = d.data /\ new.protocol = d.protocol
  BY DEF DataFields
<1> HIDE DEF new
<1>5. /\ {"T", "H"} \subseteq Outdated(d, i)
      /\ Differences(d, i) \subseteq AllFlags
  BY <1>1, FlagsOfWord
<1>6. changed # TIME_NOT_CHANGED /\ {} # TIME_NOT_CHANGED
  <2>1. "same time" \notin AllFlags /\ "same time" \in TIME_NOT_CHANGED /\ "T" \notin TIME_NOT_CHANGED
    BY DEF AllFlags, TIME_NOT_CHANGED
  <2>2. changed = Outdated(d, i) \/ changed = Differences(d, i)
    OBVIOUS
  <2> HIDE DEF changed
  <2> QED
    BY <1>5, <2>1, <2>2
<1>7. /\ "T" \notin changed => r.t = o.t
      /\ "H" \notin changed /\ s.model # "f007tp" => r.h = o.h
  BY <1>5, WordDifferences
<1> HIDE DEF changed
<1>8. CASE gap < 2
  <2>1. u.changed = TIME_NOT_CHANGED /\ u.item = i
    BY <1>2, <1>8, UpdatedMembers
  <2>2. IsStep(s, o, r, o, gap, u)
    BY <1>8, <2>1 DEF IsStep
  <2> QED
    BY <1>1, <2>1, <2>2
<1>9. CASE ~(gap < 2) /\ changed = {}
  <2>1. u.changed = {} /\ u.item = i
    BY <1>2, <1>9, UpdatedMembers
  <2>2. IsStep(s, o, r, o, gap, u)
    BY <1>6, <1>7, <1>9, <2>1 DEF IsStep
  <2> QED
    BY <1>1, <2>1, <2>2
<1>10. CASE ~(gap < 2) /\ changed # {}
  <2>1. u.changed = changed /\ u.item = new
    BY <1>2, <1>10, UpdatedMembers
  <2>2. IsStep(s, r, r, o, gap, u)
    BY <1>4, <1>6, <1>7, <2>1 DEF IsStep
  <2> QED
    BY <1>4, <2>1, <2>2
<1> QED
  BY <1>8, <1>9, <1>10

\* An item with another time
At(x, time) == [x EXCEPT !.data_time = time]

\* The time is no value.
LEMMA SameWithTime ==
  ASSUME NEW x, DOMAIN x = ItemFields, NEW time
  PROVE  SameData(At(x, time), x)
  BY DEF At, SameData, DataFields, ItemFields

\* update of a DS18B20: the stored value is that of the message.
LEMMA DS18B20Update ==
  ASSUME NEW d, NEW i, DOMAIN i = ItemFields, d.protocol = "DS18B20", NEW time, NEW max_gap,
         NEW u, u = update(d, i, time, max_gap)
  PROVE  /\ u.item.data = d.data /\ u.item.protocol = i.protocol
         /\ "T" \notin u.changed => d.data = i.data
<1> DEFINE stored == [i EXCEPT !.data = d.data]
<1>1. u = updateValue("T", d.data = i.data, stored, i, time, max_gap)
  BY DEF update
<1>2. DOMAIN stored = ItemFields /\ stored.protocol = i.protocol /\ stored.data = d.data
  BY DEF DataFields, ItemFields
<1> HIDE DEF stored
<1>3. CASE d.data = i.data
  <2>1. \/ \E changed : u = Updated(changed, i)
        \/ u = Updated({"T"}, At(i, time))
    BY <1>1, <1>3 DEF updateValue, At
  <2>2. SameData(u.item, i)
    BY <2>1, UpdatedMembers, SameWithTime DEF SameData
  <2> QED
    BY <1>3, <2>2 DEF SameData
<1>4. CASE d.data # i.data
  <2>1. u = Updated({"T"}, At(stored, time))
    BY <1>1, <1>4 DEF updateValue, At
  <2>2. SameData(u.item, stored) /\ "T" \in u.changed
    BY <1>2, <2>1, UpdatedMembers, SameWithTime
  <2> QED
    BY <1>2, <2>2 DEF SameData
<1> QED
  BY <1>3, <1>4

\* update of a TX7U: the value of the message replaces the stored one, the other
\* stays.
LEMMA TX7UUpdate ==
  ASSUME NEW d, NEW i, DOMAIN i = ItemFields, d.protocol = "TX7U", NEW time, NEW max_gap,
         NEW u, u = update(d, i, time, max_gap)
  PROVE  /\ TypeTX7U(d) = 0 =>
              /\ u.item.t = Digits(d) /\ u.item.h = i.h /\ u.item.protocol = i.protocol
              /\ "T" \notin u.changed => i.t = Digits(d)
         /\ TypeTX7U(d) = 14 =>
              /\ u.item.h = HumidityTX7U(d) /\ u.item.t = i.t /\ u.item.protocol = i.protocol
              /\ "H" \notin u.changed => i.h = HumidityTX7U(d)
<1> DEFINE merged == [i EXCEPT !.data = SubSeq(@, 1, 12) \o SubSeq(d.data, 13, 44)]
           hot == [merged EXCEPT !.t = Digits(d)]
           wet == [merged EXCEPT !.h = HumidityTX7U(d)]
<1>1. /\ TypeTX7U(d) = 0 => u = updateValue("T", i.t = Digits(d), hot, i, time, max_gap)
      /\ TypeTX7U(d) = 14 => u = updateValue("H", i.h = HumidityTX7U(d), wet, i, time, max_gap)
  <2>1. u = updateTX7U(d, i, time, max_gap)
    BY DEF update
  <2>2. 0 # 14
    OBVIOUS
  <2> QED
    BY <2>1, <2>2 DEF updateTX7U
<1>2. /\ DOMAIN hot = ItemFields /\ hot.protocol = i.protocol /\ hot.t = Digits(d) /\ hot.h = i.h
      /\ DOMAIN wet = ItemFields /\ wet.protocol = i.protocol /\ wet.h = HumidityTX7U(d) /\ wet.t = i.t
  BY DEF DataFields, ItemFields
<1> HIDE DEF merged, hot, wet
<1>4. CASE TypeTX7U(d) = 0
  <2>1. CASE i.t = Digits(d)
    <3>1. \/ \E changed : u = Updated(changed, i)
          \/ u = Updated({"T"}, At(i, time))
      BY <1>1, <1>4, <2>1 DEF updateValue, At
    <3>2. SameData(u.item, i)
      BY <3>1, UpdatedMembers, SameWithTime DEF SameData
    <3> QED
      BY <1>4, <2>1, <3>2 DEF SameData
  <2>2. CASE i.t # Digits(d)
    <3>1. u = Updated({"T"}, At(hot, time))
      BY <1>1, <1>4, <2>2 DEF updateValue, At
    <3>2. SameData(u.item, hot) /\ "T" \in u.changed
      BY <1>2, <3>1, UpdatedMembers, SameWithTime
    <3> QED
      BY <1>2, <1>4, <3>2 DEF SameData
  <2> QED
    BY <2>1, <2>2
<1>5. CASE TypeTX7U(d) = 14
  <2>1. CASE i.h = HumidityTX7U(d)
    <3>1. \/ \E changed : u = Updated(changed, i)
          \/ u = Updated({"H"}, At(i, time))
      BY <1>1, <1>5, <2>1 DEF updateValue, At
    <3>2. SameData(u.item, i)
      BY <3>1, UpdatedMembers, SameWithTime DEF SameData
    <3> QED
      BY <1>5, <2>1, <3>2 DEF SameData
  <2>2. CASE i.h # HumidityTX7U(d)
    <3>1. u = Updated({"H"}, At(wet, time))
      BY <1>1, <1>5, <2>2 DEF updateValue, At
    <3>2. SameData(u.item, wet) /\ "H" \in u.changed
      BY <1>2, <3>1, UpdatedMembers, SameWithTime
    <3> QED
      BY <1>2, <1>5, <3>2 DEF SameData
  <2> QED
    BY <2>1, <2>2
<1>6. 0 # 14
  OBVIOUS
<1> QED
  BY <1>4, <1>5, <1>6

\* What becomes of the values of an item i when a message d is stored, of which
\* update reports some, and leaves n.
Serves(n, i, d, s, changed) ==
  /\ "T" \in getFeatures(d) /\ changed # TIME_NOT_CHANGED => getTemperatureCx10(n) = getTemperatureCx10(d)
  /\ HasT(n, s) /\ "T" \notin changed \cap getFeatures(d) =>
       HasT(i, s) /\ getTemperatureCx10(n) = getTemperatureCx10(i)
  /\ HasH(n, s) /\ "H" \in getFeatures(d) /\ changed # TIME_NOT_CHANGED => getHumidity(n) = getHumidity(d)
  /\ HasH(n, s) /\ "H" \notin changed \cap getFeatures(d) => HasH(i, s) /\ getHumidity(n) = getHumidity(i)

\* The item of a sensor with one word follows its messages.
LEMMA WordFollows ==
  ASSUME NEW s \in AllSensors, IsWord(s), NEW d, NEW r, NEW what, IsMessageOf(d, s, r, what),
         NEW i, NEW t, NEW h, Holds(i, s, t, h),
         NEW time \in Nat, i.data_time \in Nat, NEW max_gap \in Nat,
         time - i.data_time < 2 => r.t = t /\ r.h = h,
         NEW u, u = update(d, i, time, max_gap),
         NEW n, SameData(n, u.item), getId(n) = SensorId(s)
  PROVE  Holds(n, s, r.t, r.h) /\ Serves(n, i, d, s, u.changed)
<1>1. PICK o \in ReadingsOf(s) : i.data = DataOf(s, o, "T") /\ o.t = t /\ (s.model # "f007tp" => o.h = h)
  BY DEF Holds
<1>2. r \in ReadingsOf(s) /\ d.data = DataOf(s, r, "T")
  BY MessageOfWord
<1>3. IsDataOf(d, s) /\ IsDataOf(i, s) /\ DOMAIN d = DataFields
  BY DEF IsMessageOf, Holds
<1>4. PICK p \in ReadingsOf(s) : IsStep(s, p, r, o, time - i.data_time, u) /\ u.item.protocol = d.protocol
  BY <1>1, <1>2, <1>3, WordUpdate
<1>5. n.data = DataOf(s, p, "T") /\ n.protocol = d.protocol
  BY <1>4 DEF SameData, IsStep
<1>6. IsDataOf(n, s)
  BY <1>3, <1>5 DEF IsDataOf, IsWord
<1>7. p.t = r.t /\ (s.model # "f007tp" => p.h = r.h)
  BY <1>1, <1>4 DEF IsStep
<1>8. s.model \notin {"tx6", "ds18b20"}
  BY DEF IsWord
<1>9. Holds(n, s, r.t, r.h)
  BY <1>5, <1>6, <1>7, <1>8 DEF Holds
<1>10. /\ getTemperatureCx10(n) = CelsiusOf(s, p.t)
       /\ s.model # "f007tp" => getHumidity(n) = p.h
  BY <1>5, <1>6, WordValues
<1>11. /\ getTemperatureCx10(d) = CelsiusOf(s, r.t)
       /\ s.model # "f007tp" => getHumidity(d) = r.h
       /\ {"T", "H"} \subseteq getFeatures(d)
  BY <1>2, <1>3, WordValues
<1>12. /\ getTemperatureCx10(i) = CelsiusOf(s, o.t)
       /\ s.model # "f007tp" => getHumidity(i) = o.h
  BY <1>1, <1>3, WordValues
<1>13. /\ HasT(n, s) /\ HasT(i, s)
       /\ HasH(n, s) => HasH(i, s) /\ s.model # "f007tp"
  BY <1>8 DEF HasT, HasH
<1>14. "T" \notin u.changed \cap getFeatures(d) => p.t = o.t
  BY <1>4, <1>11 DEF IsStep
<1>15. "H" \notin u.changed \cap getFeatures(d) /\ s.model # "f007tp" => p.h = o.h
  BY <1>4, <1>11 DEF IsStep
<1>16. Serves(n, i, d, s, u.changed)
  BY <1>7, <1>10, <1>11, <1>12, <1>13, <1>14, <1>15 DEF Serves
<1> QED
  BY <1>9, <1>16

\* The item of a TX7U follows its messages, which have one value each.
LEMMA TX7UFollows ==
  ASSUME NEW s \in AllSensors, s.model = "tx6", NEW d, NEW r, NEW what, IsMessageOf(d, s, r, what),
         NEW i, NEW t, NEW h, Holds(i, s, t, h), DOMAIN i = ItemFields,
         NEW time \in Nat, i.data_time \in Nat, NEW max_gap \in Nat,
         NEW u, u = update(d, i, time, max_gap),
         NEW n, SameData(n, u.item), getId(n) = SensorId(s), IsStored(n)
  PROVE  /\ Holds(n, s, IF what = "T" THEN r.t ELSE t, IF what = "H" THEN r.h ELSE h)
         /\ Serves(n, i, d, s, u.changed)
<1>1. /\ d.protocol = "TX7U" /\ what \in {"T", "H"}
      /\ what = "T" => /\ TypeTX7U(d) = 0 /\ Digits(d) = r.t + 500 /\ Digits(d) # NoValue
                       /\ getFeatures(d) = {"T"} /\ getTemperatureCx10(d) = Digits(d) - 500
      /\ what = "H" => /\ TypeTX7U(d) = 14 /\ HumidityTX7U(d) = r.h /\ HumidityTX7U(d) # NoValue
                       /\ getFeatures(d) = {"H"} /\ getHumidity(d) = HumidityTX7U(d)
  BY MessageOfTX7U
<1>2. /\ TypeTX7U(d) = 0 =>
           /\ u.item.t = Digits(d) /\ u.item.h = i.h /\ u.item.protocol = i.protocol
           /\ "T" \notin u.changed => i.t = Digits(d)
      /\ TypeTX7U(d) = 14 =>
           /\ u.item.h = HumidityTX7U(d) /\ u.item.t = i.t /\ u.item.protocol = i.protocol
           /\ "H" \notin u.changed => i.h = HumidityTX7U(d)
  BY <1>1, TX7UUpdate
<1>3. i.protocol = "TX7U" /\ Model(s).protocol = "TX7U" /\ r \in ReadingsOf(s)
  BY Models DEF Holds, IsDataOf, IsMessageOf
<1>4. n.protocol = "TX7U" /\ n.t = u.item.t /\ n.h = u.item.h
  BY <1>1, <1>2, <1>3 DEF SameData
<1>5. IsDataOf(n, s)
  BY <1>3, <1>4 DEF IsDataOf, IsStored
<1>6. r.t \in Temperatures("tx6")
  BY <1>3, ReadingTypes
<1>7. /\ t # NoValue => i.t = t + 500 /\ t \in Temperatures("tx6")
      /\ h # NoValue => i.h = h
  BY DEF Holds
<1>8. Holds(n, s, IF what = "T" THEN r.t ELSE t, IF what = "H" THEN r.h ELSE h)
  <2>1. CASE what = "T"
    <3>1. n.t = r.t + 500 /\ n.h = i.h
      BY <1>1, <1>2, <1>4, <2>1
    <3> QED
      BY <1>5, <1>6, <1>7, <2>1, <3>1 DEF Holds, IsWord
  <2>2. CASE what = "H"
    <3>1. n.h = r.h /\ n.t = i.t
      BY <1>1, <1>2, <1>4, <2>2
    <3> QED
      BY <1>5, <1>7, <2>2, <3>1 DEF Holds, IsWord
  <2> QED
    BY <1>1, <2>1, <2>2
<1>9. /\ n.t # NoValue => getTemperatureCx10(n) = n.t - 500
      /\ n.h # NoValue => getHumidity(n) = n.h
      /\ i.t # NoValue => getTemperatureCx10(i) = i.t - 500
      /\ i.h # NoValue => getHumidity(i) = i.h
  BY <1>3, <1>4, ValuesTX7U
<1>10. /\ HasT(n, s) <=> n.t # NoValue
       /\ HasT(i, s) <=> i.t # NoValue
       /\ HasH(n, s) <=> n.h # NoValue
       /\ HasH(i, s) <=> i.h # NoValue
  BY DEF HasT, HasH
<1>11. CASE what = "T"
  <2>1. n.t = Digits(d) /\ n.t # NoValue /\ n.h = i.h /\ ("T" \notin u.changed => i.t = n.t)
    BY <1>1, <1>2, <1>4, <1>11
  <2>2. getFeatures(d) = {"T"} /\ getTemperatureCx10(d) = n.t - 500
    BY <1>1, <1>11, <2>1
  <2>3. Serves(n, i, d, s, u.changed)
    BY <1>9, <1>10, <2>1, <2>2 DEF Serves
  <2> QED
    BY <1>8, <2>3
<1>12. CASE what = "H"
  <2>1. n.h = HumidityTX7U(d) /\ n.h # NoValue /\ n.t = i.t /\ ("H" \notin u.changed => i.h = n.h)
    BY <1>1, <1>2, <1>4, <1>12
  <2>2. getFeatures(d) = {"H"} /\ getHumidity(d) = n.h
    BY <1>1, <1>12, <2>1
  <2>3. Serves(n, i, d, s, u.changed)
    BY <1>9, <1>10, <2>1, <2>2 DEF Serves
  <2> QED
    BY <1>8, <2>3
<1> QED
  BY <1>1, <1>11, <1>12

\* The item of a DS18B20 follows its messages.
LEMMA DS18B20Follows ==
  ASSUME NEW s \in AllSensors, s.model = "ds18b20", NEW d, NEW r, NEW what, IsMessageOf(d, s, r, what),
         NEW i, NEW t, NEW h, Holds(i, s, t, h), DOMAIN i = ItemFields,
         NEW time \in Nat, i.data_time \in Nat, NEW max_gap \in Nat,
         NEW u, u = update(d, i, time, max_gap),
         NEW n, SameData(n, u.item), getId(n) = SensorId(s)
  PROVE  Holds(n, s, r.t, r.h) /\ Serves(n, i, d, s, u.changed)
<1>1. /\ d.protocol = "DS18B20" /\ i.protocol = "DS18B20" /\ Model(s).protocol = "DS18B20"
      /\ r.t \in Thousandths /\ r.t >= 0 /\ d.data = Binary(r.t, 24)
  BY Models DEF Holds, IsDataOf, IsMessageOf, IsRadio
<1>2. /\ u.item.data = d.data /\ u.item.protocol = i.protocol
      /\ "T" \notin u.changed => d.data = i.data
  BY <1>1, DS18B20Update
<1>3. n.protocol = "DS18B20" /\ n.data = d.data
  BY <1>1, <1>2 DEF SameData
<1>4. IsDataOf(n, s)
  BY <1>1, <1>3 DEF IsDataOf
<1>5. Holds(n, s, r.t, r.h)
  BY <1>1, <1>3, <1>4 DEF Holds, IsWord
<1>6. /\ getTemperatureCx10(n) = Quotient(Value(n.data) + 50, 100)
      /\ getTemperatureCx10(d) = Quotient(Value(d.data) + 50, 100)
      /\ getTemperatureCx10(i) = Quotient(Value(i.data) + 50, 100)
      /\ getFeatures(d) = {"T"}
  BY <1>1, <1>3, ValuesDS18B20
<1>7. HasT(i, s) /\ ~HasH(n, s)
  BY DEF HasT, HasH
<1>8. "T" \notin u.changed \cap getFeatures(d) => n.data = i.data
  BY <1>2, <1>3, <1>6
<1>9. Serves(n, i, d, s, u.changed)
  BY <1>3, <1>6, <1>7, <1>8 DEF Serves
<1> QED
  BY <1>5, <1>9

\* The item of any sensor follows its messages: it has the values that came last, and
\* update reports the ones that are new.
LEMMA ItemFollows ==
  ASSUME NEW s \in AllSensors, NEW d, NEW r, NEW what, IsMessageOf(d, s, r, what),
         NEW i, NEW t, NEW h, Holds(i, s, t, h), DOMAIN i = ItemFields,
         NEW time \in Nat, i.data_time \in Nat, NEW max_gap \in Nat,
         s.model # "tx6" /\ time - i.data_time < 2 => r.t = t /\ r.h = h,
         NEW u, u = update(d, i, time, max_gap),
         NEW n, SameData(n, u.item), getId(n) = SensorId(s), IsStored(n)
  PROVE  /\ Holds(n, s, IF what = "T" THEN r.t ELSE t, IF what = "H" \/ s.model # "tx6" THEN r.h ELSE h)
         /\ Serves(n, i, d, s, u.changed)
<1>1. CASE s.model = "tx6"
  BY <1>1, TX7UFollows
<1>2. s.model # "tx6" => what = "T"
  BY DEF IsMessageOf, WhatIsSent
<1>3. CASE s.model = "ds18b20"
  <2>1. Holds(n, s, r.t, r.h) /\ Serves(n, i, d, s, u.changed)
    BY <1>3, DS18B20Follows
  <2> QED
    BY <1>2, <1>3, <2>1
<1>4. CASE s.model \notin {"tx6", "ds18b20"}
  <2>1. IsWord(s)
    BY <1>4 DEF IsWord
  <2>2. Holds(n, s, r.t, r.h) /\ Serves(n, i, d, s, u.changed)
    BY <1>4, <2>1, WordFollows
  <2> QED
    BY <1>2, <1>4, <2>2
<1> QED
  BY <1>1, <1>3, <1>4

\* All values of a word are reported when it is new.
LEMMA MetricsOfWord ==
  ASSUME NEW d, d.protocol \in WordProtocols, d.protocol = "F007TH" => d.variant = 0
  PROVE  {"T", "H"} \subseteq getMetrics(d)
<1> DEFINE metrics == Class(d.protocol, "metrics", d)
<1>1. {"T", "H"} \subseteq metrics
  <2>1. CASE d.protocol = "00592TXR"
    BY <2>1 DEF Class, Class00592TXR, AllFlags
  <2>2. CASE d.protocol = "WH2"
    BY <2>2 DEF Class, ClassWH2, AllFlags
  <2>3. CASE d.protocol = "HG02832"
    BY <2>3 DEF Class, ClassHG02832, AllFlags
  <2>4. CASE d.protocol = "F007TH"
    BY <2>4 DEF Class, ClassF007TH, AllFlags
  <2>5. CASE d.protocol = "TFA303049"
    BY <2>5 DEF Class, ClassTFA303049, AllFlags
  <2>6. CASE d.protocol = "TX141"
    BY <2>6 DEF Class, ClassTX141, AllFlags
  <2> QED
    BY <2>1, <2>2, <2>3, <2>4, <2>5, <2>6 DEF WordProtocols, Protocols
<1> QED
  BY <1>1 DEF getMetrics

\* The values of a new item n are those of the message d, and reported.
Fills(n, d, s) ==
  /\ HasT(n, s) => "T" \in getMetrics(d) \cap getFeatures(d) /\ getTemperatureCx10(n) = getTemperatureCx10(d)
  /\ HasH(n, s) => "H" \in getMetrics(d) \cap getFeatures(d) /\ getHumidity(n) = getHumidity(d)

\* A new item has the values of its message.
LEMMA ItemBegins ==
  ASSUME NEW s \in AllSensors, NEW d, NEW r, NEW what, IsMessageOf(d, s, r, what),
         NEW n, SameData(n, copyFields(d)), getId(n) = SensorId(s), IsStored(n)
  PROVE  /\ Holds(n, s, IF what = "T" THEN r.t ELSE NoValue,
                        IF what = "H" \/ s.model # "tx6" THEN r.h ELSE NoValue)
         /\ Fills(n, d, s)
<1>1. CASE s.model = "tx6"
  <2>1. /\ d.protocol = "TX7U" /\ what \in {"T", "H"}
        /\ what = "T" => /\ TypeTX7U(d) = 0 /\ Digits(d) = r.t + 500 /\ Digits(d) # NoValue
                         /\ getFeatures(d) = {"T"} /\ getTemperatureCx10(d) = Digits(d) - 500
        /\ what = "H" => /\ TypeTX7U(d) = 14 /\ HumidityTX7U(d) = r.h /\ HumidityTX7U(d) # NoValue
                         /\ getFeatures(d) = {"H"} /\ getHumidity(d) = HumidityTX7U(d)
    BY <1>1, MessageOfTX7U
  <2>2. /\ Model(s).protocol = "TX7U" /\ r \in ReadingsOf(s) /\ DOMAIN d = DataFields
        /\ d.t = NoValue /\ d.h = NoValue
    BY <1>1, Models DEF IsMessageOf
  <2>3. /\ TypeTX7U(d) = 0 => copyFields(d) = [d EXCEPT !.t = Digits(d)]
        /\ TypeTX7U(d) = 14 => copyFields(d) = [d EXCEPT !.h = HumidityTX7U(d)]
    <3>1. 0 # 14
      OBVIOUS
    <3> QED
      BY <2>1, <3>1 DEF copyFields
  <2>4. /\ copyFields(d).protocol = d.protocol
        /\ what = "T" => copyFields(d).t = r.t + 500 /\ copyFields(d).h = NoValue
        /\ what = "H" => copyFields(d).h = r.h /\ copyFields(d).t = NoValue
    <3>1. CASE what = "T"
      BY <2>1, <2>2, <2>3, <3>1 DEF DataFields
    <3>2. CASE what = "H"
      BY <2>1, <2>2, <2>3, <3>2 DEF DataFields
    <3> QED
      BY <2>1, <3>1, <3>2
  <2>5. /\ n.protocol = "TX7U"
        /\ what = "T" => n.t = r.t + 500 /\ n.h = NoValue
        /\ what = "H" => n.h = r.h /\ n.t = NoValue
    BY <2>1, <2>4 DEF SameData
  <2>6. IsDataOf(n, s)
    BY <1>1, <2>2, <2>5 DEF IsDataOf, IsStored
  <2>7. r.t \in Temperatures("tx6")
    BY <1>1, <2>2, ReadingTypes
  <2>8. /\ n.t # NoValue => getTemperatureCx10(n) = n.t - 500
        /\ n.h # NoValue => getHumidity(n) = n.h
    BY <2>5, ValuesTX7U
  <2>9. getMetrics(d) = getFeatures(d)
    BY <2>1, <2>2, FlagsOfValue
  <2>10. /\ HasT(n, s) <=> n.t # NoValue
         /\ HasH(n, s) <=> n.h # NoValue
    BY <1>1 DEF HasT, HasH
  <2>11. CASE what = "T"
    <3>1. Holds(n, s, r.t, NoValue)
      BY <1>1, <2>5, <2>6, <2>7, <2>11 DEF Holds, IsWord
    <3>2. Fills(n, d, s)
      BY <2>1, <2>5, <2>8, <2>9, <2>10, <2>11 DEF Fills
    <3> QED
      BY <1>1, <2>11, <3>1, <3>2
  <2>12. CASE what = "H"
    <3>1. Holds(n, s, NoValue, r.h)
      BY <1>1, <2>5, <2>6, <2>12 DEF Holds, IsWord
    <3>2. Fills(n, d, s)
      BY <2>1, <2>5, <2>8, <2>9, <2>10, <2>12 DEF Fills
    <3> QED
      BY <1>1, <2>12, <3>1, <3>2
  <2> QED
    BY <2>1, <2>11, <2>12
<1>2. CASE s.model # "tx6"
  <2>1. what = "T" /\ r \in ReadingsOf(s) /\ IsDataOf(d, s) /\ d.protocol = Model(s).protocol
    BY <1>2 DEF IsMessageOf, WhatIsSent, IsDataOf
  <2>2. d.protocol # "TX7U"
    BY <1>2, <2>1, Models
  <2>3. n.protocol = d.protocol /\ n.data = d.data /\ n.variant = d.variant
    BY <2>2 DEF copyFields, SameData
  <2>4. CASE s.model = "ds18b20"
    <3>1. d.protocol = "DS18B20" /\ r.t \in Thousandths /\ r.t >= 0 /\ d.data = Binary(r.t, 24)
          /\ d.t = NoValue /\ d.h = NoValue
      BY <2>1, <2>4, Models DEF IsMessageOf, IsRadio
    <3>2. IsDataOf(n, s)
      BY <2>1, <2>3, <2>4 DEF IsDataOf
    <3>3. Holds(n, s, r.t, r.h)
      BY <2>3, <2>4, <3>1, <3>2 DEF Holds, IsWord
    <3>4. getTemperatureCx10(n) = getTemperatureCx10(d)
      BY <2>3, <3>1, ValuesDS18B20
    <3>5. "T" \in getMetrics(d) \cap getFeatures(d) /\ ~HasH(n, s)
      BY <2>4, <3>1, FlagsOfValue DEF HasH
    <3> QED
      BY <1>2, <2>1, <3>3, <3>4, <3>5 DEF Fills
  <2>5. CASE s.model # "ds18b20"
    <3>1. IsWord(s) /\ d.data = DataOf(s, r, "T") /\ d.protocol \in WordProtocols
      BY <1>2, <2>1, <2>5, Models DEF IsMessageOf, IsWord, IsRadio, WordProtocols
    <3>2. IsDataOf(n, s)
      BY <1>2, <2>1, <2>3, <2>5 DEF IsDataOf
    <3>3. Holds(n, s, r.t, r.h)
      BY <1>2, <2>1, <2>3, <2>5, <3>1, <3>2 DEF Holds
    <3>4. /\ getTemperatureCx10(d) = CelsiusOf(s, r.t)
          /\ s.model # "f007tp" => getHumidity(d) = r.h
          /\ {"T", "H"} \subseteq getFeatures(d)
      BY <2>1, <3>1, WordValues
    <3>5. /\ getTemperatureCx10(n) = CelsiusOf(s, r.t)
          /\ s.model # "f007tp" => getHumidity(n) = r.h
      BY <2>1, <2>3, <3>1, <3>2, WordValues
    <3>6. "T" \in getMetrics(d)
      BY <3>1, FlagsOfWord
    <3>7. HasH(n, s) => s.model # "f007tp"
      BY DEF HasH
    <3>8. s.model # "f007tp" => "H" \in getMetrics(d)
      <4> SUFFICES ASSUME s.model # "f007tp"
                   PROVE  "H" \in getMetrics(d)
        OBVIOUS
      <4>1. d.protocol = "F007TH" => d.variant = 0
        <5> SUFFICES ASSUME d.protocol = "F007TH"
                     PROVE  d.variant = 0
          OBVIOUS
        <5>1. s.model = "f007th"
          BY <2>1, Models
        <5>2. getId(d) = SensorId(s)
          BY <2>1 DEF IsDataOf
        <5> QED
          BY <2>1, <5>1, <5>2, VariantOfF007TH
      <4> QED
        BY <3>1, <4>1, MetricsOfWord
    <3> QED
      BY <1>2, <2>1, <3>3, <3>4, <3>5, <3>6, <3>7, <3>8 DEF Fills
  <2> QED
    BY <2>4, <2>5
<1> QED
  BY <1>1, <1>2

-----------------------------------------------------------------------------
(* What getters return of it                                               *)

\* The divisions of the code that convert temperatures lose less than their divisor.
LEMMA QuotientBounds ==
  ASSUME NEW a \in Int
  PROVE  /\ Quotient(a, 9) \in Int /\ Between(a - 9 * Quotient(a, 9), -9, 9)
         /\ Quotient(a, 50) \in Int /\ Between(a - 50 * Quotient(a, 50), -50, 50)
         /\ Quotient(a, 100) \in Int /\ Between(a - 100 * Quotient(a, 100), -100, 100)
         /\ Quotient(a, 500) \in Int /\ Between(a - 500 * Quotient(a, 500), -500, 500)
         /\ a >= 0 => /\ a >= 100 * Quotient(a, 100)
                      /\ a >= 500 * Quotient(a, 500)
<1>1. Quotient(a, 9) \in Int /\ Between(a - 9 * Quotient(a, 9), -9, 9)
  BY SMT DEF Quotient, Between
<1>2. Quotient(a, 50) \in Int /\ Between(a - 50 * Quotient(a, 50), -50, 50)
  BY SMT DEF Quotient, Between
<1>3. /\ Quotient(a, 100) \in Int /\ Between(a - 100 * Quotient(a, 100), -100, 100)
      /\ a >= 0 => a >= 100 * Quotient(a, 100)
  BY SMT DEF Quotient, Between
<1>4. /\ Quotient(a, 500) \in Int /\ Between(a - 500 * Quotient(a, 500), -500, 500)
      /\ a >= 0 => a >= 500 * Quotient(a, 500)
  BY SMT DEF Quotient, Between
<1> QED
  BY <1>1, <1>2, <1>3, <1>4

\* The data of a DS18B20 is its temperature.
LEMMA ThousandthsRead ==
  ASSUME NEW t \in Thousandths, t >= 0
  PROVE  Value(Binary(t, 24)) = t
<1>1. 24 \in Nat /\ 2 ^ 24 \in Nat \ {0}
  BY PowerOfTwo
<1>2. t \in Nat /\ t < 2 ^ 24
  BY <1>1, SMT DEF Thousandths
<1>3. t % 2 ^ 24 = t
  BY <1>1, <1>2, SmallRemainder
<1>4. t \in Int
  BY <1>2
<1>5. Value(Binary(t, 24)) = t % 2 ^ 24
  BY <1>1, <1>4, ValueOfBinary
<1> QED
  BY <1>3, <1>5

\* The temperature of a stored item.
LEMMA TemperatureRead ==
  ASSUME NEW s \in AllSensors, NEW i, NEW t, NEW h, Holds(i, s, t, h), t # NoValue
  PROVE  /\ hasTemperature(i) /\ HasT(i, s)
         /\ ~FahrenheitIsWrong(i) => Between(ScaleError(i), -9, 9)
         /\ s.model \in {"f007th", "f007tp"} => getTemperatureFx10(i) = t
         /\ s.model = "ds18b20" => Within(100 * getTemperatureCx10(i) - t, -50, 50)
         /\ s.model \notin {"f007th", "f007tp", "ds18b20"} => getTemperatureCx10(i) = t
<1>1. IsDataOf(i, s) /\ i.protocol = Model(s).protocol
  BY DEF Holds, IsDataOf
<1>2. PICK c, f : c = getTemperatureCx10(i) /\ f = getTemperatureFx10(i)
  OBVIOUS
<1>3. ScaleError(i) = 5 * f - 1600 - 9 * c
  BY <1>2 DEF ScaleError
\* From Celsius, as most protocols do
<1>4. ASSUME f = Converted(c), c \in Int
      PROVE  Between(ScaleError(i), -9, 9)
  <2>1. f = Quotient(c * 90 + 25, 50) + 320
    BY <1>4 DEF Converted
  <2>2. PICK q : q = Quotient(c * 90 + 25, 50)
    OBVIOUS
  <2>3. c * 90 + 25 \in Int
    BY <1>4
  <2>4. q \in Int /\ Between((c * 90 + 25) - 50 * q, -50, 50)
    BY <2>2, <2>3, QuotientBounds
  <2>5. f = q + 320
    BY <2>1, <2>2
  <2> QED
    BY <1>3, <1>4, <2>4, <2>5, SMT DEF Between
<1>8. i.protocol \notin {"F007TH", "TFA303049", "DS18B20"} => f = Converted(c)
  BY <1>2 DEF getTemperatureFx10
<1>9. i.protocol = "TFA303049" /\ ~FahrenheitIsWrong(i) => f = Converted(c)
  <2> SUFFICES ASSUME i.protocol = "TFA303049", ~FahrenheitIsWrong(i)
               PROVE  f = Converted(c)
    OBVIOUS
  <2>1. PICK x : x = Signed(Field(i.data, 23, 12), 12)
    OBVIOUS
  <2>2. c = x
    BY <1>2, <2>1 DEF getTemperatureCx10, Class, ClassTFA303049
  <2>3. f = ConvertedTFA303049(x)
    BY <1>2, <2>1 DEF getTemperatureFx10, Class, ClassTFA303049
  <2>4. ~(c < 0 /\ LONG_BITS = 64)
    BY <1>2 DEF FahrenheitIsWrong
  <2> QED
    BY <2>2, <2>3, <2>4 DEF ConvertedTFA303049
<1>5. CASE s.model = "tx6"
  <2>1. i.protocol = "TX7U" /\ i.t = t + 500 /\ t \in Temperatures("tx6")
    BY <1>1, <1>5, Models DEF Holds
  <2>2. PICK x : x = t
    OBVIOUS
  <2>3. x \in -500 .. 499
    BY <2>1, <2>2, SMT DEF Temperatures
  <2>4. x \in Int /\ x + 500 # NoValue /\ (x + 500) - 500 = x
    BY <2>3, SMT DEF NoValue
  <2>5. /\ getTemperatureCx10(i) = (IF i.t # NoValue THEN i.t ELSE Digits(i)) - 500
        /\ i.t # NoValue => "T" \in getFeatures(i)
    BY <2>1, ValuesTX7U
  <2>6. c = x /\ "T" \in getFeatures(i) /\ i.t # NoValue
    BY <1>2, <2>1, <2>2, <2>4, <2>5
  <2>7. Between(ScaleError(i), -9, 9)
    BY <1>4, <1>8, <2>1, <2>4, <2>6
  <2> QED
    BY <1>2, <1>5, <2>2, <2>6, <2>7 DEF hasTemperature, HasT
<1>6. CASE s.model = "ds18b20"
  <2>1. i.protocol = "DS18B20" /\ t \in Thousandths /\ t >= 0 /\ i.data = Binary(t, 24)
    BY <1>1, <1>6, Models DEF Holds
  <2>2. Value(i.data) = t
    BY <2>1, ThousandthsRead
  <2>3. c = Quotient(t + 50, 100) /\ f = Quotient(t * 9 + 250, 500) + 320
    BY <1>2, <2>1, <2>2, ValuesDS18B20
  <2>4. t \in Int
    <3>1. 24 \in Nat /\ 2 ^ 24 \in Nat \ {0}
      BY PowerOfTwo
    <3> QED
      BY <2>1, <3>1, SMT DEF Thousandths
  <2>5. PICK q : q = Quotient(t * 9 + 250, 500)
    OBVIOUS
  <2>6. t + 50 \in Int /\ t * 9 + 250 \in Int /\ t + 50 >= 0 /\ t * 9 + 250 >= 0
    BY <2>1, <2>4, SMT
  <2>7. c \in Int /\ Between((t + 50) - 100 * c, -100, 100) /\ t + 50 >= 100 * c
    BY <2>3, <2>6, QuotientBounds
  <2>8. q \in Int /\ Between((t * 9 + 250) - 500 * q, -500, 500) /\ t * 9 + 250 >= 500 * q
    BY <2>5, <2>6, QuotientBounds
  <2>9. f = q + 320
    BY <2>3, <2>5
  <2>10. Between(ScaleError(i), -9, 9)
    BY <1>3, <2>4, <2>7, <2>8, <2>9, SMT DEF Between
  <2>11. Within(100 * c - t, -50, 50)
    BY <2>4, <2>7, SMT DEF Between, Within
  <2> QED
    BY <1>2, <1>6, <2>1, <2>10, <2>11 DEF hasTemperature, HasT
<1>7. CASE s.model \notin {"tx6", "ds18b20"}
  <2>1. IsWord(s) /\ i.protocol \notin {"TX7U", "DS18B20"}
    BY <1>1, <1>7, Models DEF IsWord
  <2>2. PICK o \in ReadingsOf(s) : i.data = DataOf(s, o, "T") /\ o.t = t
    BY <2>1 DEF Holds
  <2>3. /\ c = CelsiusOf(s, t)
        /\ s.model \in {"f007th", "f007tp"} => f = t
    BY <1>1, <1>2, <2>1, <2>2, WordValues
  <2>4. hasTemperature(i) /\ HasT(i, s)
    BY <1>7, <2>1 DEF hasTemperature, HasT
  <2>5. PICK x : x = t
    OBVIOUS
  <2>6. x \in Int
    <3>1. x \in Temperatures(s.model)
      BY <2>2, <2>5, ReadingTypes
    <3>2. ASSUME s.model = "f00592txr"
         PROVE  x \in Int
      <4>1. x \in -1000 .. 15383
        BY <3>1, <3>2, SMT DEF Temperatures
      <4> QED
        BY <4>1, SMT
    <3>3. ASSUME s.model = "wh2"
         PROVE  x \in Int
      <4>1. x \in 0 .. 1023
        BY <3>1, <3>3, SMT DEF Temperatures
      <4> QED
        BY <4>1, SMT
    <3>4. ASSUME s.model = "ft007th"
         PROVE  x \in Int
      <4>1. x \in 0 .. 1023
        BY <3>1, <3>4, SMT DEF Temperatures
      <4> QED
        BY <4>1, SMT
    <3>5. ASSUME s.model = "hg02832"
         PROVE  x \in Int
      <4>1. x \in -2048 .. 2047
        BY <3>1, <3>5, SMT DEF Temperatures
      <4> QED
        BY <4>1, SMT
    <3>6. ASSUME s.model = "tfa303049"
         PROVE  x \in Int
      <4>1. x \in -2048 .. 2047
        BY <3>1, <3>6, SMT DEF Temperatures
      <4> QED
        BY <4>1, SMT
    <3>7. ASSUME s.model = "tx141"
         PROVE  x \in Int
      <4>1. x \in -500 .. 3595
        BY <3>1, <3>7, SMT DEF Temperatures
      <4> QED
        BY <4>1, SMT
    <3>8. ASSUME s.model = "f007th"
         PROVE  x \in Int
      <4>1. x \in -400 .. 3695
        BY <3>1, <3>8, SMT DEF Temperatures
      <4> QED
        BY <4>1, SMT
    <3>9. ASSUME s.model = "f007tp"
         PROVE  x \in Int
      <4>1. x \in -400 .. 3695
        BY <3>1, <3>9, SMT DEF Temperatures
      <4> QED
        BY <4>1, SMT
    <3> QED
      BY <1>7, <3>2, <3>3, <3>4, <3>5, <3>6, <3>7, <3>8, <3>9, Models
  <2>7. CASE s.model \in {"f007th", "f007tp"}
    <3>1. c = Quotient((x - 320) * 5, 9) /\ f = x
      BY <2>3, <2>5, <2>7 DEF CelsiusOf
    <3>2. (x - 320) * 5 \in Int
      BY <2>6, SMT
    <3>3. c \in Int /\ Between((x - 320) * 5 - 9 * c, -9, 9)
      BY <3>1, <3>2, QuotientBounds
    <3>4. Between(ScaleError(i), -9, 9)
      BY <1>3, <2>6, <3>1, <3>3, SMT DEF Between
    <3> QED
      BY <1>2, <2>3, <2>4, <2>7, <3>4
  <2>8. CASE s.model \notin {"f007th", "f007tp"}
    <3>1. c = x /\ i.protocol # "F007TH"
      BY <1>1, <2>3, <2>5, <2>8, Models DEF CelsiusOf
    <3>2. ~FahrenheitIsWrong(i) => Between(ScaleError(i), -9, 9)
      BY <1>4, <1>8, <1>9, <2>1, <2>6, <3>1
    <3> QED
      BY <1>2, <1>7, <2>4, <2>5, <2>8, <3>1, <3>2
  <2> QED
    BY <2>7, <2>8
<1> QED
  BY <1>5, <1>6, <1>7

\* The humidity of a stored item, where its sensor has one.
LEMMA HumidityRead ==
  ASSUME NEW s \in AllSensors, NEW i, NEW t, NEW h, Holds(i, s, t, h), h # NoValue
  PROVE  /\ s.model \notin {"f007tp", "ds18b20"} => hasHumidity(i) /\ getHumidity(i) = h
         /\ hasHumidity(i) => HasH(i, s)
<1>1. IsDataOf(i, s) /\ i.protocol = Model(s).protocol
  BY DEF Holds, IsDataOf
<1>2. CASE s.model = "tx6"
  <2>1. i.protocol = "TX7U" /\ i.h = h
    BY <1>1, <1>2, Models DEF Holds
  <2>2. getHumidity(i) = h /\ "H" \in getFeatures(i)
    BY <2>1, ValuesTX7U
  <2> QED
    BY <1>2, <2>1, <2>2 DEF hasHumidity, HasH
<1>3. CASE s.model = "ds18b20"
  <2>1. i.protocol = "DS18B20"
    BY <1>1, <1>3, Models
  <2>2. getFeatures(i) = {"T"}
    BY <2>1, ValuesDS18B20
  <2> QED
    BY <1>3, <2>2 DEF hasHumidity
<1>4. CASE s.model \notin {"tx6", "ds18b20"}
  <2>1. IsWord(s)
    BY <1>4 DEF IsWord
  <2>2. PICK o \in ReadingsOf(s) : i.data = DataOf(s, o, "T") /\ (s.model # "f007tp" => o.h = h)
    BY <2>1 DEF Holds
  <2>3. /\ s.model # "f007tp" => getHumidity(i) = h
        /\ hasHumidity(i) <=> s.model # "f007tp"
    BY <1>1, <2>1, <2>2, WordValues
  <2> QED
    BY <1>4, <2>3 DEF HasH
<1> QED
  BY <1>2, <1>3, <1>4

-----------------------------------------------------------------------------
(* Messages                                                                *)

\* The message on its way was sent as a sensor may send.
HeardInv == heard # Nothing => heard \in RecordsOf[heard.sensor] /\ MaySend(heard.sensor, heard.reading)

\* Every item is that of a sensor in range.
NamedInv == \A i \in items : \E s \in sensors : i \in ItemOf(s) /\ IsDataOf(i, s)

\* What is known of anything that may be heard.
LEMMA HeardMembers ==
  ASSUME NEW s \in AllSensors, NEW x \in RecordsOf[s]
  PROVE  /\ x.reading \in ReadingsOf(s) /\ x.what \in WhatIsSent(s)
         /\ ~IsRadio(s) /\ x.message.status = 0 =>
              x.reading.t >= 0 /\ x.message.data = Binary(x.reading.t, 24)
<1>1. x \in IF IsRadio(s) THEN RadioRecords(s) ELSE W1Records(s)
  BY DEF RecordsOf
<1>2. CASE IsRadio(s)
  <2>1. PICK r \in ReadingsOf(s), what \in WhatIsSent(s), kind \in Kinds : x = Recorded(s, r, what, kind)
    BY <1>1, <1>2 DEF RadioRecords
  <2>2. x.reading = r /\ x.what = what
    BY <2>1 DEF Recorded, Heard
  <2> QED
    BY <1>2, <2>1, <2>2
<1>3. CASE ~IsRadio(s)
  <2>1. PICK r \in ReadingsOf(s), file \in Files : x = PollW1(s, r, file)
    BY <1>1, <1>3 DEF W1Records
  <2> DEFINE status == CASE file[1] = "missing" -> 1
                         [] file[1] = "no crc" -> 2
                         [] file[1] = "no value" -> 3
                         [] OTHER -> IF r.t < 0 THEN 4 ELSE 0
  <2>2. /\ x.reading = r /\ x.what = "T"
        /\ x.message.status = status
        /\ x.message.data = Binary(IF status = 0 THEN r.t ELSE 0, 24)
    BY <2>1 DEF PollW1
  <2>3. "T" \in WhatIsSent(s)
    BY DEF WhatIsSent
  <2>4. ASSUME r.t < 0
        PROVE  status # 0
    <3>1. PICK p : p = file[1]
      OBVIOUS
    <3>2. /\ p = "missing" => status = 1
          /\ p = "no crc" => status = 2
          /\ p = "no value" => status = 3
          /\ p \notin {"missing", "no crc", "no value"} => status = 4
      BY <2>4, <3>1, Zenon
    <3> HIDE DEF status
    <3>3. status \in {1, 2, 3, 4}
      BY <3>2, Zenon
    <3> QED
      BY <3>3
  <2> HIDE DEF status
  <2>5. r.t \in Int
    <3>1. s.model = "ds18b20" /\ r.t \in Temperatures(s.model)
      BY <1>3, ReadingTypes DEF IsRadio
    <3>2. r.t \in Thousandths
      BY <3>1 DEF Temperatures
    <3>3. 24 \in Nat /\ 2 ^ 24 \in Nat \ {0}
      BY PowerOfTwo
    <3> QED
      BY <3>2, <3>3, SMT DEF Thousandths
  <2> QED
    BY <2>1, <2>2, <2>3, <2>4, <2>5
<1> QED
  BY <1>2, <1>3

\* A valid message is what its sensor has sent.
LEMMA ValidIsMessage ==
  ASSUME TypeInv, HeardInv, AcceptedIsSent, heard # Nothing, isValid(heard.message),
         NEW d, d = SensorDataOf(heard.message)
  PROVE  /\ IsMessageOf(d, heard.sensor, heard.reading, heard.what)
         /\ d.data_time = now /\ heard.sensor \in sensors /\ heard.sensor \in AllSensors
<1> PICK s, r, what, m : s = heard.sensor /\ r = heard.reading /\ what = heard.what /\ m = heard.message
  OBVIOUS
<1>4. s \in sensors /\ s \in AllSensors
  BY DEF TypeInv, AllSensors
<1>1. /\ r \in ReadingsOf(s) /\ what \in WhatIsSent(s)
      /\ ~IsRadio(s) => r.t >= 0 /\ m.data = Binary(r.t, 24)
  BY <1>4, HeardMembers DEF HeardInv, isValid
<1>2. /\ DOMAIN d = DataFields
      /\ d.protocol = m.protocol /\ d.data = m.data
      /\ d.data_time = now /\ d.t = NoValue /\ d.h = NoValue
  BY DataMembers
<1>3. /\ m.protocol = Model(s).protocol
      /\ IsRadio(s) => m.data = DataOf(s, r, what)
      /\ getId(d) = SensorId(s)
  BY DEF AcceptedIsSent, SentData
<1>5. IsDataOf(d, s)
  <2>1. s.model \notin {"tx6", "ds18b20"} => d.data = DataOf(s, r, "T")
    BY <1>1, <1>2, <1>3 DEF WhatIsSent, IsRadio
  <2>2. s.model = "tx6" => IsBits(d.data, 44)
    <3> SUFFICES ASSUME s.model = "tx6"
                 PROVE  IsBits(d.data, 44)
      OBVIOUS
    <3>1. d.data = DataOf(s, r, what)
      BY <1>2, <1>3 DEF IsRadio
    <3> QED
      BY <1>1, <1>4, <3>1, LayoutTX7U
  <2> QED
    BY <1>1, <1>2, <1>3, <2>1, <2>2 DEF IsDataOf
<1>6. ~IsRadio(s) => r.t \in Thousandths
  <2> SUFFICES ASSUME ~IsRadio(s)
               PROVE  r.t \in Thousandths
    OBVIOUS
  <2>1. s.model = "ds18b20" /\ r.t \in Temperatures(s.model)
    BY <1>1, <1>4, ReadingTypes DEF IsRadio
  <2> QED
    BY <2>1 DEF Temperatures
<1> QED
  BY <1>1, <1>2, <1>3, <1>4, <1>5, <1>6 DEF IsMessageOf

\* It has a value.
LEMMA MessageHasValue ==
  ASSUME NEW s \in AllSensors, NEW d, NEW r, NEW what, IsMessageOf(d, s, r, what)
  PROVE  getMetrics(d) # {} /\ IsReading(d)
<1>1. /\ d.protocol = Model(s).protocol /\ d.t = NoValue /\ d.h = NoValue /\ DOMAIN d = DataFields
      /\ s.model = "tx6" => IsBits(d.data, 44)
  BY DEF IsMessageOf, IsDataOf
<1>2. getMetrics(d) # {}
  <2>1. CASE s.model = "tx6"
    <3>1. /\ d.protocol = "TX7U" /\ what \in {"T", "H"}
          /\ what = "T" => getFeatures(d) = {"T"}
          /\ what = "H" => getFeatures(d) = {"H"}
      BY <2>1, MessageOfTX7U
    <3>2. getFeatures(d) = getMetrics(d)
      BY <1>1, <3>1, FlagsOfValue
    <3> QED
      BY <3>1, <3>2
  <2>2. CASE s.model = "ds18b20"
    <3>1. d.protocol = "DS18B20"
      BY <1>1, <2>2, Models
    <3> QED
      BY <1>1, <3>1, FlagsOfValue
  <2>3. CASE s.model \notin {"tx6", "ds18b20"}
    <3>1. d.protocol \in WordProtocols
      BY <1>1, <2>3, Models DEF WordProtocols
    <3> QED
      BY <3>1, FlagsOfWord
  <2> QED
    BY <2>1, <2>2, <2>3
<1>3. d.protocol \in Protocols /\ (d.protocol = "TX7U" => s.model = "tx6")
  BY <1>1, Models
<1> QED
  BY <1>1, <1>2, <1>3 DEF IsReading, IsStored

\* equals and getId name the same item, unless it is a twin's.
LEMMA EqualsIsId ==
  ASSUME TypeInv, NamedInv, NEW s \in Singles, NEW d, IsDataOf(d, s)
  PROVE  \A i \in items : equals(d, i) <=> getId(d) = getId(i)
<1> TAKE i \in items
<1>1. PICK o \in sensors : IsDataOf(i, o)
  BY DEF NamedInv
<1>2. sensors \in SensorGroups /\ s \in sensors /\ ~Twins(s, o)
  BY DEF TypeInv, Singles
<1> QED
  BY <1>1, <1>2, NamesAgree

-----------------------------------------------------------------------------
(* One item for each sensor, with its last reading                         *)

DefinitionOf(s) == IF s \in definitions THEN s ELSE NULL_SENSOR

\* Of a sensor that was not heard there is nothing.
UnheardInv == \A s \in Singles : last[s] = NoReport => ItemOf(s) = {}

\* An item is never younger than the last report of its sensor: an item that is not
\* old has been reported.
DueInv == \A s \in Singles : \A i \in ItemOf(s) : i.data_time <= reported[s]

SensorInv ==
  /\ \A i \in items : IsStored(i)
  /\ UnheardInv /\ ItemsAreSensors
  /\ DueInv /\ ReportedInTime

\* All sensors but TX7U send whole readings.
LastInv ==
  \A s \in sensors : s.model # "tx6" /\ last[s] # NoReport =>
    last[s].t = last[s].reading.t /\ last[s].h = last[s].reading.h

\* An item holds the last reading of its sensor; it may be a little older than that,
\* but was not changed less than a tick ago.
StoredInv ==
  \A s \in Singles : \A i \in ItemOf(s) :
    /\ Holds(i, s, last[s].t, last[s].h)
    /\ i.data_time <= last[s].time
    /\ i.data_time = now \/ i.data_time + TICK <= now

\* The server has the values of the item n of the sensor s, but for those that came in
\* a message that had failed a check.
Served(f, n, s) ==
  LET known == f[SensorId(s)]
  IN  /\ SensorId(s) \in DOMAIN f
      /\ HasT(n, s) => "T" \in known.unchecked \/ known.t \in {LOST, getTemperatureCx10(n)}
      /\ HasH(n, s) => "H" \in known.unchecked \/ known.h \in {LOST, getHumidity(n)}
ServedInv == \A s \in Singles : \A i \in ItemOf(s) : Served(server, i, s)

DataInv == HeardInv /\ NamedInv /\ LastInv /\ StoredInv /\ ServedInv

\* The definition that a new item gets is that of its sensor.
LEMMA FoundIsDefinition ==
  ASSUME TypeInv, NEW s \in sensors
  PROVE  FindDef(SensorId(s)) = DefinitionOf(s)
<1>1. \A o \in definitions : o \in sensors /\ (SensorId(o) = SensorId(s) => o = s)
  BY SensorsAssumption DEF SensorsAssumption, TypeInv
<1>2. CASE s \in definitions
  <2>1. {o \in definitions : SensorId(o) = SensorId(s)} = {s}
    BY <1>1, <1>2
  <2> QED
    BY <1>2, <2>1 DEF FindDef, DefinitionOf
<1>3. CASE s \notin definitions
  <2>1. {o \in definitions : SensorId(o) = SensorId(s)} = {}
    BY <1>1, <1>3
  <2> QED
    BY <1>3, <2>1 DEF FindDef, DefinitionOf
<1> QED
  BY <1>2, <1>3

\* The item n is made of the message d of a sensor without an item.
IsMade(n, s, d, changed) ==
  /\ ItemOf(s) = {} /\ SameData(n, copyFields(d)) /\ n.data_time = now
  /\ changed = getMetrics(d) \cup {NEW_UID}

\* The message d replaces the item i of its sensor by n.
IsUpdate(n, i, s, d, u, changed) ==
  /\ ItemOf(s) = {i} /\ i \in items /\ i.def = DefinitionOf(s) /\ changed = u.changed
  /\ u = update(d, i, now, config.max_unchanged_gap)
  /\ Unchanged(u, i, now, config.max_unchanged_gap) \/ Renewed(u, d, now)
  /\ SameData(n, u.item) /\ n.data_time = u.item.data_time

\* What handling a valid message does to the items: the one of its sensor, when this
\* has no twin, is made or replaced.
LEMMA HandleValidItems ==
  ASSUME TypeInv, SensorInv, DataInv, AcceptedIsSent,
         NEW success \in BOOLEAN, HandleValid(success),
         NEW s \in Singles, s = heard.sensor, NEW d, d = SensorDataOf(heard.message),
         NEW changed, changed = UpdateItems(d).changed
  PROVE  \E n : /\ items' = (items \ ItemOf(s)) \cup {n}
                /\ IsStored(n) /\ getId(n) = SensorId(s) /\ n.def = DefinitionOf(s)
                /\ \/ IsMade(n, s, d, changed)
                   \/ \E i, u : IsUpdate(n, i, s, d, u, changed)
<1> DEFINE max_gap == config.max_unchanged_gap
<1>1. items' = UpdateItems(d).items /\ heard # Nothing /\ isValid(heard.message)
  BY DEF HandleValid, StoreAndUpload
<1>2. /\ IsMessageOf(d, s, heard.reading, heard.what) /\ d.data_time = now
      /\ s \in sensors /\ s \in AllSensors
  BY <1>1, ValidIsMessage DEF DataInv
<1>3. IsReading(d)
  BY <1>2, MessageHasValue
<1>4. DOMAIN d = DataFields /\ IsDataOf(d, s) /\ getId(d) = SensorId(s)
  BY <1>2 DEF IsMessageOf, IsDataOf
<1>5. \A i \in items : equals(d, i) <=> getId(d) = getId(i)
  BY <1>2, <1>4, EqualsIsId DEF DataInv
<1>6. Find(d) = ItemOf(s)
  BY <1>4, <1>5 DEF Find, ItemOf
<1>7. /\ now \in Nat /\ max_gap \in Nat
      /\ \A i \in items : DOMAIN i = ItemFields /\ IsStored(i) /\ i.data_time \in Nat
  <2>1. now \in Nat
    BY ReceptionAssumption DEF ReceptionAssumption, TypeInv, TypeOK
  <2>2. max_gap \in Nat
    BY ReceptionAssumption DEF ReceptionAssumption, TypeInv
  <2> QED
    BY <2>1, <2>2 DEF TypeInv, TypeOK, SensorInv
<1> DEFINE Good(n) == /\ items' = (items \ ItemOf(s)) \cup {n}
                      /\ IsStored(n) /\ getId(n) = SensorId(s) /\ n.def = DefinitionOf(s)
                      /\ \/ IsMade(n, s, d, changed)
                         \/ \E i, u : IsUpdate(n, i, s, d, u, changed)
<1>8. CASE /\ Find(d) = {}
           /\ UpdateItems(d).items = items \cup {WithDef(copyFields(d), FindDef(getId(d)))}
           /\ changed = getMetrics(d) \cup {NEW_UID}
  <2> DEFINE n == WithDef(copyFields(d), FindDef(getId(d)))
  <2>1. /\ DOMAIN copyFields(d) = DataFields /\ copyFields(d).data_time = now
        /\ IsStored(copyFields(d)) /\ getId(copyFields(d)) = getId(d)
    BY <1>2, <1>3, <1>4, CopyShape, CopyLeaves
  <2>2. /\ n.def = FindDef(getId(d)) /\ n.data_time = now
        /\ IsStored(n) /\ getId(n) = getId(d)
    BY <2>1, WithDefMembers
  <2>3. SameData(n, copyFields(d))
    BY <2>1, WithDefMembers DEF SameData
  <2>4. n.def = DefinitionOf(s)
    BY <1>2, <1>4, <2>2, FoundIsDefinition
  <2>5. items' = (items \ ItemOf(s)) \cup {n}
    BY <1>1, <1>6, <1>8
  <2> HIDE DEF n
  <2>6. IsMade(n, s, d, changed)
    BY <1>6, <1>8, <2>2, <2>3 DEF IsMade
  <2>7. Good(n)
    BY <1>4, <2>2, <2>4, <2>5, <2>6
  <2> QED
    BY <2>7
<1>9. ASSUME NEW i \in Find(d), NEW u, u = update(d, i, now, max_gap),
             UpdateItems(d).items = (items \ {i}) \cup {WithDef(u.item, i.def)},
             changed = u.changed
      PROVE  \E n : Good(n)
  <2> DEFINE n == WithDef(u.item, i.def)
  <2>1. i \in items /\ equals(d, i) /\ getId(d) = getId(i) /\ i \in ItemOf(s)
    BY <1>4, <1>5, <1>6, <1>9 DEF Find
  <2>2. ItemOf(s) = {i} /\ i.def = DefinitionOf(s)
    BY <1>2, <2>1 DEF SensorInv, UnheardInv, ItemsAreSensors, DefinitionOf
  <2>3. IsStored(i) /\ DOMAIN i = ItemFields /\ i.data_time \in Nat
    BY <1>7, <2>1
  <2>4. Unchanged(u, i, now, max_gap) \/ Renewed(u, d, now)
    BY <1>3, <1>7, <1>9, <2>1, <2>3, UpdateLeaves
  <2>5. IsStored(u.item) /\ getId(u.item) = SensorId(s)
    BY <1>4, <2>1, <2>3, <2>4 DEF Unchanged, Renewed
  <2>6. /\ n.def = i.def /\ n.data_time = u.item.data_time
        /\ IsStored(n) /\ getId(n) = SensorId(s)
    BY <2>5, WithDefMembers DEF IsStored
  <2>7. SameData(n, u.item)
    BY <2>5, WithDefMembers DEF IsStored, SameData
  <2>8. items' = (items \ ItemOf(s)) \cup {n}
    BY <1>1, <1>9, <2>2
  <2> HIDE DEF n
  <2>9. IsUpdate(n, i, s, d, u, changed)
    BY <1>9, <2>1, <2>2, <2>4, <2>6, <2>7 DEF IsUpdate
  <2>10. Good(n)
    BY <2>2, <2>6, <2>8, <2>9
  <2> QED
    BY <2>10
<1>10. \E n : Good(n)
  BY <1>8, <1>9, ItemsAfterUpdate
<1> QED
  BY <1>10

\* What the server has after a request with valid data.
AfterValidData(id, d, what, success) == ServerAfter(id, d, what, TRUE, success)

LEMMA AfterValid ==
  ASSUME NEW id, NEW d, NEW what, NEW success \in BOOLEAN, NEW f, f = AfterValidData(id, d, what, success)
  PROVE  /\ id \in DOMAIN server \/ what # {} => id \in DOMAIN f
         /\ \A o \in DOMAIN server \ {id} : o \in DOMAIN f /\ f[o] = server[o]
         /\ "T" \in what => f[id].t \in {LOST, getTemperatureCx10(d)}
         /\ "H" \in what => f[id].h \in {LOST, getHumidity(d)}
         /\ id \in DOMAIN server /\ "T" \notin what =>
              f[id].t = server[id].t /\ ("T" \in server[id].unchecked => "T" \in f[id].unchecked)
         /\ id \in DOMAIN server /\ "H" \notin what =>
              f[id].h = server[id].h /\ ("H" \in server[id].unchecked => "H" \in f[id].unchecked)
<1> DEFINE old == IF id \in DOMAIN server THEN server[id] ELSE [t |-> NoValue, h |-> NoValue, unchecked |-> {}]
           value(v) == IF success THEN v ELSE LOST
           new == [t |-> IF "T" \in what THEN value(getTemperatureCx10(d)) ELSE old.t,
                   h |-> IF "H" \in what THEN value(getHumidity(d)) ELSE old.h,
                   unchecked |-> old.unchecked \ what]
<1>1. f = IF what = {} THEN server ELSE Set(server, id, new)
  BY DEF ServerAfter, AfterValidData
<1>2. /\ "T" \in what => new.t \in {LOST, getTemperatureCx10(d)}
      /\ "H" \in what => new.h \in {LOST, getHumidity(d)}
      /\ id \in DOMAIN server /\ "T" \notin what =>
           new.t = server[id].t /\ ("T" \in server[id].unchecked => "T" \in new.unchecked)
      /\ id \in DOMAIN server /\ "H" \notin what =>
           new.h = server[id].h /\ ("H" \in server[id].unchecked => "H" \in new.unchecked)
  OBVIOUS
<1> HIDE DEF new
<1>3. CASE what = {}
  BY <1>1, <1>3
<1>4. CASE what # {}
  <2>1. f = Set(server, id, new)
    BY <1>1, <1>4
  <2>2. /\ DOMAIN f = DOMAIN server \cup {id} /\ f[id] = new
        /\ \A o \in DOMAIN server \ {id} : f[o] = server[o]
    BY <2>1 DEF Set
  <2> QED
    BY <1>2, <2>2
<1> QED
  BY <1>3, <1>4

\* After a request with data that has failed a check what was served still is, or is
\* marked.
LEMMA CorruptedIsServed ==
  ASSUME NEW id, NEW d, NEW what, NEW success \in BOOLEAN, NEW f, f = ServerAfter(id, d, what, FALSE, success),
         NEW s, NEW n, Served(server, n, s)
  PROVE  Served(f, n, s)
<1> DEFINE old == IF id \in DOMAIN server THEN server[id] ELSE [t |-> NoValue, h |-> NoValue, unchecked |-> {}]
           value(v) == IF success THEN v ELSE LOST
           new == [t |-> IF "T" \in what THEN value(getTemperatureCx10(d)) ELSE old.t,
                   h |-> IF "H" \in what THEN value(getHumidity(d)) ELSE old.h,
                   unchecked |-> old.unchecked \cup what]
<1>1. f = IF what = {} THEN server ELSE Set(server, id, new)
  BY DEF ServerAfter
<1>2. /\ what \subseteq new.unchecked
      /\ id \in DOMAIN server => /\ server[id].unchecked \subseteq new.unchecked
                                 /\ "T" \notin what => new.t = server[id].t
                                 /\ "H" \notin what => new.h = server[id].h
  OBVIOUS
<1> HIDE DEF new
<1>3. SensorId(s) \in DOMAIN server
  BY DEF Served
<1>4. CASE what = {}
  BY <1>1, <1>4
<1>5. CASE what # {}
  <2>1. f = Set(server, id, new)
    BY <1>1, <1>5
  <2>2. /\ DOMAIN f = DOMAIN server \cup {id} /\ f[id] = new
        /\ \A o \in DOMAIN server \ {id} : f[o] = server[o]
    BY <2>1 DEF Set
  <2>3. CASE SensorId(s) # id
    BY <1>3, <2>2, <2>3 DEF Served
  <2>4. CASE SensorId(s) = id
    BY <1>2, <1>3, <2>2, <2>4 DEF Served
  <2> QED
    BY <2>3, <2>4
<1> QED
  BY <1>4, <1>5

\* What is sent has been reported and is a value of the message; nothing is when only
\* the time has changed.
LEMMA SentValues ==
  ASSUME NEW d, IsReading(d), NEW changed, NEW W, W = Sent(d, changed)
  PROVE  /\ changed \cap getFeatures(d) \subseteq W /\ W \subseteq getFeatures(d)
         /\ W # {} => changed # TIME_NOT_CHANGED
<1>1. getFeatures(d) \subseteq AllFlags
  <2>1. d.protocol \in Protocols /\ d.t = NoValue /\ d.h = NoValue
    BY DEF IsReading, IsStored
  <2>2. CASE d.protocol \in WordProtocols
    BY <2>2, FlagsOfWord
  <2>3. CASE d.protocol = "DS18B20"
    BY <2>1, <2>3, FlagsOfValue DEF AllFlags
  <2>4. CASE d.protocol = "TX7U"
    BY <2>1, <2>4, FlagsOfValue DEF AllFlags
  <2> QED
    BY <2>1, <2>2, <2>3, <2>4 DEF WordProtocols
<1>2. CASE changed = TIME_NOT_CHANGED
  <2>1. W = {}
    BY <1>2 DEF Sent
  <2>2. changed \cap AllFlags = {}
    BY <1>2 DEF AllFlags, TIME_NOT_CHANGED
  <2> QED
    BY <1>1, <2>1, <2>2
<1>3. CASE changed # TIME_NOT_CHANGED
  <2>1. W = Uploaded(d, FlagsToSend(changed, TRUE))
    BY <1>3 DEF Sent
  <2>2. changed \subseteq FlagsToSend(changed, TRUE)
    BY DEF FlagsToSend
  <2>3. changed \cap getFeatures(d) \subseteq W /\ W \subseteq getFeatures(d)
    BY <2>1, <2>2 DEF Uploaded
  <2> QED
    BY <1>3, <2>3
<1> QED
  BY <1>2, <1>3

\* A new item is always reported.
LEMMA MadeIsReported ==
  ASSUME NEW d, IsReading(d)
  PROVE  (getMetrics(d) \cup {NEW_UID}) \cap getFeatures(d) # {}
<1>1. CASE d.protocol \in WordProtocols
  BY <1>1, FlagsOfWord
<1>2. CASE d.protocol \notin WordProtocols
  <2>1. d.protocol \in {"TX7U", "DS18B20"}
    BY <1>2 DEF IsReading, IsStored, WordProtocols
  <2>2. getMetrics(d) = getFeatures(d) /\ getMetrics(d) # {}
    BY <2>1, FlagsOfValue DEF IsReading
  <2> QED
    BY <2>2
<1> QED
  BY <1>1, <1>2

\* A new item is served with all its values.
LEMMA MadeIsServed ==
  ASSUME NEW d, IsReading(d), NEW s, getId(d) = SensorId(s), NEW n, Fills(n, d, s),
         NEW success \in BOOLEAN, NEW f,
         f = AfterValidData(getId(d), d, Sent(d, getMetrics(d) \cup {NEW_UID}) \ {"B"}, success),
         HasT(n, s) \/ HasH(n, s)
  PROVE  Served(f, n, s)
<1> DEFINE W == Sent(d, getMetrics(d) \cup {NEW_UID}) \ {"B"}
<1>1. (getMetrics(d) \cup {NEW_UID}) \cap getFeatures(d) \subseteq W \cup {"B"}
  BY SentValues
<1>2. /\ HasT(n, s) => "T" \in W /\ getTemperatureCx10(n) = getTemperatureCx10(d)
      /\ HasH(n, s) => "H" \in W /\ getHumidity(n) = getHumidity(d)
  BY <1>1 DEF Fills
<1>4. f = AfterValidData(getId(d), d, W, success)
  OBVIOUS
<1> HIDE DEF W
<1>3. /\ W # {} => getId(d) \in DOMAIN f
      /\ "T" \in W => f[getId(d)].t \in {LOST, getTemperatureCx10(d)}
      /\ "H" \in W => f[getId(d)].h \in {LOST, getHumidity(d)}
  BY <1>4, AfterValid
<1> QED
  BY <1>2, <1>3 DEF Served

\* An item that was served still is, when a message is stored and what update reports
\* is sent.
LEMMA UpdateIsServed ==
  ASSUME NEW d, IsReading(d), NEW s, getId(d) = SensorId(s), NEW i, NEW n, NEW changed,
         Serves(n, i, d, s, changed), Served(server, i, s),
         NEW success \in BOOLEAN, NEW f,
         f = AfterValidData(getId(d), d, Sent(d, changed) \ {"B"}, success)
  PROVE  Served(f, n, s)
<1> DEFINE W == Sent(d, changed)
           V == W \ {"B"}
<1>1. /\ changed \cap getFeatures(d) \subseteq W /\ W \subseteq getFeatures(d)
      /\ W # {} => changed # TIME_NOT_CHANGED
  BY SentValues
<1> HIDE DEF W
<1>2. /\ "T" \in V => "T" \in getFeatures(d) /\ changed # TIME_NOT_CHANGED
      /\ "T" \notin V => "T" \notin changed \cap getFeatures(d)
      /\ "H" \in V => "H" \in getFeatures(d) /\ changed # TIME_NOT_CHANGED
      /\ "H" \notin V => "H" \notin changed \cap getFeatures(d)
  BY <1>1
<1> HIDE DEF V
<1> PICK id : id = getId(d)
  OBVIOUS
<1>3. f = AfterValidData(id, d, V, success)
  BY DEF V, W
<1>4. /\ id \in DOMAIN server => id \in DOMAIN f
      /\ "T" \in V => f[id].t \in {LOST, getTemperatureCx10(d)}
      /\ "H" \in V => f[id].h \in {LOST, getHumidity(d)}
      /\ id \in DOMAIN server /\ "T" \notin V =>
           f[id].t = server[id].t /\ ("T" \in server[id].unchecked => "T" \in f[id].unchecked)
      /\ id \in DOMAIN server /\ "H" \notin V =>
           f[id].h = server[id].h /\ ("H" \in server[id].unchecked => "H" \in f[id].unchecked)
  BY <1>3, AfterValid
<1>5. SensorId(s) \in DOMAIN server /\ SensorId(s) \in DOMAIN f
  BY <1>4 DEF Served
<1>6. HasT(n, s) => "T" \in f[SensorId(s)].unchecked \/ f[SensorId(s)].t \in {LOST, getTemperatureCx10(n)}
  BY <1>2, <1>4, <1>5 DEF Serves, Served
<1>7. HasH(n, s) => "H" \in f[SensorId(s)].unchecked \/ f[SensorId(s)].h \in {LOST, getHumidity(n)}
  BY <1>2, <1>4, <1>5 DEF Serves, Served
<1> QED
  BY <1>5, <1>6, <1>7 DEF Served

\* An item that is made or replaced was reported when it had to be.
LEMMA ItemIsDue ==
  ASSUME TypeInv, SensorInv, HeardInv, AcceptedIsSent,
         NEW success \in BOOLEAN, HandleValid(success),
         NEW s \in Singles, s = heard.sensor, NEW d, d = SensorDataOf(heard.message),
         NEW changed, changed = UpdateItems(d).changed,
         NEW n, IsMade(n, s, d, changed) \/ \E i, u : IsUpdate(n, i, s, d, u, changed)
  PROVE  /\ reported' = reported \/ reported' = [reported EXCEPT ![s] = now]
         /\ n.data_time <= reported'[s]
         /\ config.max_unchanged_gap > 0 => now - reported'[s] <= config.max_unchanged_gap
<1> DEFINE max_gap == config.max_unchanged_gap
<1>1. /\ reported' = IF Sent(d, changed) = {} THEN reported ELSE [reported EXCEPT ![s] = now]
      /\ heard # Nothing /\ isValid(heard.message)
  BY DEF HandleValid, StoreAndUpload, Upload
<1>2. /\ IsMessageOf(d, s, heard.reading, heard.what) /\ s \in sensors /\ s \in AllSensors
  BY <1>1, ValidIsMessage
<1>3. IsReading(d)
  BY <1>2, MessageHasValue
<1>4. /\ reported = [o \in sensors |-> reported[o]]
      /\ reported[s] \in -1 .. now /\ now \in Nat /\ max_gap \in Nat
      /\ \A i \in items : i.data_time \in 0 .. now
  <2>1. now \in Nat
    BY ReceptionAssumption DEF ReceptionAssumption, TypeInv, TypeOK
  <2>2. max_gap \in Nat
    BY ReceptionAssumption DEF ReceptionAssumption, TypeInv
  <2> QED
    BY <1>2, <2>1, <2>2 DEF TypeInv, TypeOK
<1>5. reported' = reported \/ reported' = [reported EXCEPT ![s] = now]
  BY <1>1
<1>6. changed \cap getFeatures(d) # {} => reported'[s] = now
  <2>1. changed \cap getFeatures(d) # {} => Sent(d, changed) # {}
    BY <1>3, SentSomething
  <2> QED
    BY <1>1, <1>2, <1>4, <2>1
<1>7. CASE IsMade(n, s, d, changed)
  <2>1. n.data_time = now /\ changed = getMetrics(d) \cup {NEW_UID}
    BY <1>7 DEF IsMade
  <2>2. reported'[s] = now
    BY <1>3, <1>6, <2>1, MadeIsReported
  <2> QED
    BY <1>4, <1>5, <2>1, <2>2
<1>8. ASSUME NEW i, NEW u, IsUpdate(n, i, s, d, u, changed)
      PROVE  n.data_time <= reported'[s] /\ (max_gap > 0 => now - reported'[s] <= max_gap)
  <2>1. /\ ItemOf(s) = {i} /\ i \in items /\ changed = u.changed
        /\ Unchanged(u, i, now, max_gap) \/ Renewed(u, d, now)
        /\ n.data_time = u.item.data_time
    BY <1>8 DEF IsUpdate
  <2>2. i.data_time <= reported[s] /\ i.data_time \in 0 .. now
    BY <1>2, <1>4, <2>1 DEF SensorInv, DueInv
  <2>3. CASE Unchanged(u, i, now, max_gap)
    <3>1. n.data_time = i.data_time /\ (max_gap = 0 \/ now - i.data_time <= max_gap)
      BY <2>1, <2>3 DEF Unchanged
    <3>2. reported'[s] = reported[s] \/ reported'[s] = now
      BY <1>2, <1>4, <1>5
    <3> QED
      BY <1>4, <2>2, <3>1, <3>2
  <2>4. CASE Renewed(u, d, now)
    <3>1. reported'[s] = now /\ n.data_time = now
      BY <1>6, <2>1, <2>4 DEF Renewed
    <3> QED
      BY <1>4, <3>1
  <2> QED
    BY <2>1, <2>3, <2>4
<1> QED
  BY <1>5, <1>7, <1>8

\* An item that is made or replaced has the values of the last reading, and the server
\* has them, too.
LEMMA ItemIsLatest ==
  ASSUME TypeInv, SensorInv, DataInv, AcceptedIsSent,
         NEW success \in BOOLEAN, HandleValid(success),
         NEW s \in Singles, s = heard.sensor, NEW d, d = SensorDataOf(heard.message),
         NEW changed, changed = UpdateItems(d).changed,
         NEW n, IsStored(n), getId(n) = SensorId(s),
         IsMade(n, s, d, changed) \/ \E i, u : IsUpdate(n, i, s, d, u, changed),
         NEW got, got = Got(heard, heard.reading.t, heard.reading.h)
  PROVE  /\ Holds(n, s, got.t, got.h) /\ Served(server', n, s)
         /\ n.data_time <= now /\ (n.data_time = now \/ n.data_time + TICK <= now)
<1> PICK r, what, max_gap : r = heard.reading /\ what = heard.what /\ max_gap = config.max_unchanged_gap
  OBVIOUS
<1>1. /\ server' = AfterValidData(getId(d), d, Sent(d, changed) \ {"B"}, success)
      /\ heard # Nothing /\ isValid(heard.message)
  BY DEF HandleValid, StoreAndUpload, Upload, AfterValidData
<1>2. /\ IsMessageOf(d, s, r, what) /\ s \in sensors /\ s \in AllSensors
  BY <1>1, ValidIsMessage DEF DataInv
<1>3. IsReading(d) /\ getId(d) = SensorId(s)
  BY <1>2, MessageHasValue DEF IsMessageOf, IsDataOf
<1>4. /\ got.t = IF what = "T" THEN r.t ELSE last[s].t
      /\ got.h = IF what = "H" \/ s.model # "tx6" THEN r.h ELSE last[s].h
  BY DEF Got
<1>5. now \in Nat /\ max_gap \in Nat /\ TICK \in Nat /\ TICK >= 2
  BY ReceptionAssumption DEF ReceptionAssumption, TypeInv, TypeOK
<1>6. CASE IsMade(n, s, d, changed)
  <2>1. /\ ItemOf(s) = {} /\ SameData(n, copyFields(d)) /\ n.data_time = now
        /\ changed = getMetrics(d) \cup {NEW_UID}
    BY <1>6 DEF IsMade
  <2>2. last[s].t = NoValue /\ last[s].h = NoValue
    <3>1. last[s] = NoReport
      BY <1>2, <2>1 DEF SensorInv, ItemsAreSensors
    <3> QED
      BY <3>1 DEF NoReport
  <2>3. /\ Holds(n, s, IF what = "T" THEN r.t ELSE NoValue,
                       IF what = "H" \/ s.model # "tx6" THEN r.h ELSE NoValue)
        /\ Fills(n, d, s)
    BY <1>2, <2>1, ItemBegins
  <2>4. Holds(n, s, got.t, got.h)
    BY <1>4, <2>2, <2>3
  <2>5. HasT(n, s) \/ HasH(n, s)
    <3>1. CASE s.model # "tx6"
      BY <3>1 DEF HasT
    <3>2. CASE s.model = "tx6"
      <4>1. /\ d.protocol = "TX7U" /\ what \in {"T", "H"}
            /\ what = "T" => TypeTX7U(d) = 0 /\ Digits(d) # NoValue
            /\ what = "H" => TypeTX7U(d) = 14 /\ HumidityTX7U(d) # NoValue
        BY <1>2, <3>2, MessageOfTX7U
      <4>2. DOMAIN d = DataFields
        BY <1>2 DEF IsMessageOf
      <4>3. CASE what = "T"
        <5>1. copyFields(d) = [d EXCEPT !.t = Digits(d)]
          BY <4>1, <4>3 DEF copyFields
        <5>2. n.t # NoValue
          BY <2>1, <4>1, <4>2, <4>3, <5>1 DEF SameData, DataFields
        <5> QED
          BY <5>2 DEF HasT
      <4>4. CASE what = "H"
        <5>0. 0 # 14
          OBVIOUS
        <5>1. copyFields(d) = [d EXCEPT !.h = HumidityTX7U(d)]
          BY <4>1, <4>4, <5>0 DEF copyFields
        <5>2. n.h # NoValue
          BY <2>1, <4>1, <4>2, <4>4, <5>1 DEF SameData, DataFields
        <5> QED
          BY <3>2, <5>2 DEF HasH
      <4> QED
        BY <4>1, <4>3, <4>4
    <3> QED
      BY <3>1, <3>2
  <2>6. Served(server', n, s)
    BY <1>1, <1>3, <2>1, <2>3, <2>5, MadeIsServed
  <2> QED
    BY <1>5, <2>1, <2>4, <2>6
<1>7. ASSUME NEW i, NEW u, IsUpdate(n, i, s, d, u, changed)
      PROVE  /\ Holds(n, s, got.t, got.h) /\ Served(server', n, s)
             /\ n.data_time <= now /\ (n.data_time = now \/ n.data_time + TICK <= now)
  <2>1. /\ ItemOf(s) = {i} /\ i \in items /\ changed = u.changed
        /\ u = update(d, i, now, max_gap)
        /\ Unchanged(u, i, now, max_gap) \/ Renewed(u, d, now)
        /\ SameData(n, u.item) /\ n.data_time = u.item.data_time
    BY <1>7 DEF IsUpdate
  <2>2. DOMAIN i = ItemFields /\ i.data_time \in Nat /\ i.data_time <= now
    BY <1>5, <2>1 DEF TypeInv, TypeOK
  <2>3. /\ Holds(i, s, last[s].t, last[s].h)
        /\ i.data_time <= last[s].time /\ (i.data_time = now \/ i.data_time + TICK <= now)
    BY <1>2, <2>1 DEF DataInv, StoredInv
  <2>4. Served(server, i, s)
    BY <1>2, <2>1 DEF DataInv, ServedInv
  <2>5. s.model # "tx6" /\ now - i.data_time < 2 => r.t = last[s].t /\ r.h = last[s].h
    <3> SUFFICES ASSUME s.model # "tx6", now - i.data_time < 2
                 PROVE  r.t = last[s].t /\ r.h = last[s].h
      OBVIOUS
    <3>1. i.data_time = now
      BY <1>5, <2>2, <2>3
    <3>2. last[s].time \in -1 .. now
      BY <1>2 DEF TypeInv, TypeOK
    <3>3. last[s].time = now
      BY <1>5, <2>3, <3>1, <3>2
    <3>4. last[s].reading = r
      BY <1>1, <3>3 DEF DataInv, HeardInv, MaySend
    <3>5. last[s] # NoReport
      BY <1>2, <2>1 DEF SensorInv, UnheardInv
    <3> QED
      BY <1>2, <3>4, <3>5 DEF DataInv, LastInv
  <2>6. /\ Holds(n, s, IF what = "T" THEN r.t ELSE last[s].t,
                       IF what = "H" \/ s.model # "tx6" THEN r.h ELSE last[s].h)
        /\ Serves(n, i, d, s, u.changed)
    BY <1>2, <1>5, <2>1, <2>2, <2>3, <2>5, ItemFollows
  <2>7. Served(server', n, s)
    BY <1>1, <1>3, <2>1, <2>4, <2>6, UpdateIsServed
  <2>8. n.data_time = i.data_time \/ n.data_time = now
    BY <2>1 DEF Unchanged, Renewed
  <2>9. n.data_time <= now /\ (n.data_time = now \/ n.data_time + TICK <= now)
    BY <1>5, <2>2, <2>3, <2>8
  <2> QED
    BY <1>4, <2>6, <2>7, <2>9
<1> QED
  BY <1>6, <1>7

\* SensorInv is about the items, the sensors and what was heard and reported.
LEMMA SensorInvKept ==
  ASSUME SensorInv, UNCHANGED <<sensors, config, definitions, items, last, reported>>
  PROVE  SensorInv'
<1>1. (\A s : ItemOf(s)' = ItemOf(s)) /\ Singles' = Singles
  BY DEF ItemOf, Singles
<1>2. /\ UnheardInv' /\ DueInv'
  BY <1>1 DEF SensorInv, UnheardInv, DueInv
<1>3. ItemsAreSensors' /\ ReportedInTime'
  BY <1>1 DEF SensorInv, ItemsAreSensors, ReportedInTime
<1> QED
  BY <1>2, <1>3 DEF SensorInv

\* What becomes of a sensor without a twin when it is heard: n is its item, got the
\* reading.
IsHeard(n, s, got) ==
  /\ IsStored(n) /\ getId(n) = SensorId(s) /\ n.def = DefinitionOf(s)
  /\ n.data_time <= reported'[s]
  /\ config.max_unchanged_gap > 0 => now - reported'[s] <= config.max_unchanged_gap
  /\ Holds(n, s, got.t, got.h) /\ Served(server', n, s)
  /\ n.data_time <= now /\ (n.data_time = now \/ n.data_time + TICK <= now)

\* A valid message of a sensor without a twin changes its item only.
LEMMA HandleValidSingle ==
  ASSUME TypeInv, SensorInv, DataInv, AcceptedIsSent,
         NEW success \in BOOLEAN, HandleValid(success), NEW s \in Singles, s = heard.sensor,
         NEW got, got = Got(heard, heard.reading.t, heard.reading.h)
  PROVE  \E n : items' = (items \ ItemOf(s)) \cup {n} /\ IsHeard(n, s, got)
<1> PICK d, changed : d = SensorDataOf(heard.message) /\ changed = UpdateItems(d).changed
  OBVIOUS
<1>1. PICK n : /\ items' = (items \ ItemOf(s)) \cup {n}
               /\ IsStored(n) /\ getId(n) = SensorId(s) /\ n.def = DefinitionOf(s)
               /\ \/ IsMade(n, s, d, changed)
                  \/ \E i, u : IsUpdate(n, i, s, d, u, changed)
  BY HandleValidItems
<1>2. /\ n.data_time <= reported'[s]
      /\ config.max_unchanged_gap > 0 => now - reported'[s] <= config.max_unchanged_gap
  BY <1>1, ItemIsDue DEF DataInv
<1>3. /\ Holds(n, s, got.t, got.h) /\ Served(server', n, s)
      /\ n.data_time <= now /\ (n.data_time = now \/ n.data_time + TICK <= now)
  BY <1>1, ItemIsLatest
<1> QED
  BY <1>1, <1>2, <1>3 DEF IsHeard

\* What is data of a sensor remains so with another time or definition.
LEMMA SameIsDataOf ==
  ASSUME NEW s \in AllSensors, NEW d, IsDataOf(d, s), NEW e,
         e.protocol = d.protocol, e.data = d.data, e.variant = d.variant
  PROVE  IsDataOf(e, s)
<1>1. d.protocol \in Protocols
  BY Models DEF IsDataOf
<1>2. getId(e) = getId(d)
  BY <1>1, SameIdentity
<1> QED
  BY <1>2 DEF IsDataOf

\* Twins have no bits but those of a word.
LEMMA TwinIsWord ==
  ASSUME NEW s \in sensors, s \in AllSensors, s \notin Singles
  PROVE  Model(s).protocol = "WH2"
<1>1. PICK o \in sensors : Twins(s, o)
  BY DEF Singles
<1>2. s.model \in {"wh2", "ft007th"}
  BY <1>1 DEF Twins
<1> QED
  BY <1>2, Models

\* n is a new item of a twin, in place of the items R of twins.
ChangesTwins(n, R) ==
  /\ items' = (items \ R) \cup {n} /\ IsStored(n)
  /\ \E o \in sensors \ Singles : IsDataOf(n, o)
  /\ \A i \in R : \E o \in sensors \ Singles : getId(i) = SensorId(o)

\* A valid message of a twin changes items of twins only.
LEMMA HandleValidTwin ==
  ASSUME TypeInv, SensorInv, DataInv, AcceptedIsSent,
         NEW success \in BOOLEAN, HandleValid(success), NEW s, s \notin Singles, s = heard.sensor
  PROVE  \E n, R : ChangesTwins(n, R)
<1> PICK d : d = SensorDataOf(heard.message)
  OBVIOUS
<1>1. items' = UpdateItems(d).items /\ heard # Nothing /\ isValid(heard.message)
  BY DEF HandleValid, StoreAndUpload
<1>2. /\ IsMessageOf(d, s, heard.reading, heard.what)
      /\ s \in sensors /\ s \in AllSensors /\ sensors \in SensorGroups /\ sensors \subseteq AllSensors
  BY <1>1, ValidIsMessage DEF DataInv, TypeInv, AllSensors
<1>3. /\ IsReading(d) /\ IsStored(d) /\ DOMAIN d = DataFields /\ IsDataOf(d, s)
      /\ d.protocol = "WH2" /\ getId(d) = SensorId(s)
  BY <1>2, MessageHasValue, TwinIsWord DEF IsMessageOf, IsDataOf, IsReading
<1>4. ASSUME NEW i \in Find(d)
      PROVE  \E o \in sensors \ Singles : IsDataOf(i, o)
  <2>1. i \in items /\ equals(d, i)
    BY DEF Find
  <2>2. PICK o \in sensors : IsDataOf(i, o)
    BY <2>1 DEF DataInv, NamedInv
  <2>3. ASSUME o \in Singles
        PROVE  FALSE
    <3>1. ~Twins(s, o)
      <4>1. ~Twins(o, s)
        BY <1>2, <2>3 DEF Singles
      <4> QED
        BY <4>1 DEF Twins
    <3>2. getId(d) = getId(i)
      BY <1>2, <1>3, <2>1, <2>2, <3>1, NamesAgree
    <3>3. SensorId(s) = SensorId(o)
      BY <1>3, <2>2, <3>2 DEF IsDataOf
    <3>4. s = o
      BY <1>2, <3>3, SensorsAssumption DEF SensorsAssumption
    <3> QED
      BY <2>3, <3>4
  <2> QED
    BY <2>2, <2>3
<1>5. CASE /\ Find(d) = {}
           /\ UpdateItems(d).items = items \cup {WithDef(copyFields(d), FindDef(getId(d)))}
  <2> PICK n : n = WithDef(copyFields(d), FindDef(getId(d)))
    OBVIOUS
  <2>1. copyFields(d) = d
    BY <1>3 DEF copyFields
  <2>2. /\ n.protocol = d.protocol /\ n.data = d.data /\ n.variant = d.variant
        /\ IsStored(n)
    BY <1>3, <2>1, WithDefMembers
  <2>3. IsDataOf(n, s)
    BY <1>2, <1>3, <2>2, SameIsDataOf
  <2>4. items' = (items \ {}) \cup {n}
    BY <1>1, <1>5
  <2>5. ChangesTwins(n, {})
    BY <1>2, <2>2, <2>3, <2>4 DEF ChangesTwins
  <2> QED
    BY <2>5
<1>6. ASSUME NEW i \in Find(d), NEW u, u = update(d, i, now, config.max_unchanged_gap),
             UpdateItems(d).items = (items \ {i}) \cup {WithDef(u.item, i.def)}
      PROVE  \E n, R : ChangesTwins(n, R)
  <2> PICK n : n = WithDef(u.item, i.def)
    OBVIOUS
  <2>1. i \in items /\ IsStored(i) /\ DOMAIN i = ItemFields
    BY DEF Find, SensorInv, TypeInv
  <2>2. u.item \in {i, [d EXCEPT !.data_time = now]}
    <3>1. u = updateWord(d, i, now, config.max_unchanged_gap)
      BY <1>3, <1>6 DEF update
    <3> QED
      BY <3>1 DEF updateWord, Updated
  <2>3. PICK o \in sensors \ Singles : IsDataOf(i, o)
    BY <1>4
  <2>4. PICK x, e : /\ x \in sensors \ Singles /\ IsDataOf(e, x) /\ IsStored(u.item)
                    /\ u.item.protocol = e.protocol /\ u.item.data = e.data /\ u.item.variant = e.variant
    <3>1. CASE u.item = i
      BY <2>1, <2>3, <3>1
    <3>2. CASE u.item = [d EXCEPT !.data_time = now]
      <4>1. /\ u.item.protocol = d.protocol /\ u.item.data = d.data /\ u.item.variant = d.variant
            /\ DOMAIN u.item = DataFields
        BY <1>3, <3>2 DEF DataFields
      <4>2. IsStored(u.item)
        BY <1>3, <4>1 DEF IsStored
      <4> QED
        BY <1>2, <1>3, <4>1, <4>2
    <3> QED
      BY <2>2, <3>1, <3>2
  <2>5. /\ n.protocol = e.protocol /\ n.data = e.data /\ n.variant = e.variant
        /\ IsStored(n)
    BY <2>4, WithDefMembers DEF IsStored
  <2>6. IsDataOf(n, x)
    BY <1>2, <2>4, <2>5, SameIsDataOf
  <2>7. getId(i) = SensorId(o)
    BY <2>3 DEF IsDataOf
  <2>8. items' = (items \ {i}) \cup {n}
    BY <1>1, <1>6
  <2>9. ChangesTwins(n, {i})
    BY <2>3, <2>4, <2>5, <2>6, <2>7, <2>8 DEF ChangesTwins
  <2> QED
    BY <2>9
<1> QED
  BY <1>5, <1>6, ItemsAfterUpdate

\* A valid message changes no item of a sensor without a twin but that of its own
\* sensor.
LEMMA HandleValidItem ==
  ASSUME TypeInv, SensorInv, DataInv, AcceptedIsSent,
         NEW success \in BOOLEAN, HandleValid(success), NEW s, s = heard.sensor,
         NEW got, got = Got(heard, heard.reading.t, heard.reading.h)
  PROVE  /\ \A i \in items' : IsStored(i) /\ \E o \in sensors : IsDataOf(i, o)
         /\ \A o \in Singles \ {s} : ItemOf(o)' = ItemOf(o)
         /\ s \in Singles => \E n \in items' : ItemOf(s)' = {n} /\ IsHeard(n, s, got)
<1>1. /\ \A i \in items : IsStored(i) /\ \E o \in sensors : IsDataOf(i, o)
      /\ Singles \subseteq sensors
  BY DEF SensorInv, DataInv, NamedInv, Singles
<1>2. \A o, x \in sensors : SensorId(o) = SensorId(x) => o = x
  BY SensorsAssumption DEF SensorsAssumption, TypeInv
<1>3. CASE s \in Singles
  <2>1. PICK n : items' = (items \ ItemOf(s)) \cup {n} /\ IsHeard(n, s, got)
    BY <1>3, HandleValidSingle
  <2>2. IsStored(n) /\ getId(n) = SensorId(s) /\ IsDataOf(n, s)
    BY <2>1 DEF IsHeard, Holds
  <2>3. ItemOf(s)' = {n}
    BY <2>1, <2>2 DEF ItemOf
  <2>4. \A o \in Singles \ {s} : ItemOf(o)' = ItemOf(o)
    <3> TAKE o \in Singles \ {s}
    <3>1. SensorId(o) # SensorId(s)
      BY <1>1, <1>2, <1>3
    <3> QED
      BY <2>1, <2>2, <3>1 DEF ItemOf
  <2> QED
    BY <1>1, <1>3, <2>1, <2>2, <2>3, <2>4
<1>4. CASE s \notin Singles
  <2>0. PICK n, R : ChangesTwins(n, R)
    BY <1>4, HandleValidTwin
  <2>1. /\ items' = (items \ R) \cup {n} /\ IsStored(n)
        /\ \E o \in sensors \ Singles : IsDataOf(n, o)
        /\ \A i \in R : \E o \in sensors \ Singles : getId(i) = SensorId(o)
    BY <2>0 DEF ChangesTwins
  <2>2. PICK x \in sensors \ Singles : IsDataOf(n, x)
    BY <2>1
  <2>3. getId(n) = SensorId(x)
    BY <2>2 DEF IsDataOf
  <2>4. \A o \in Singles \ {s} : ItemOf(o)' = ItemOf(o)
    <3> TAKE o \in Singles \ {s}
    <3>1. \A y \in sensors \ Singles : SensorId(o) # SensorId(y)
      BY <1>1, <1>2
    <3>2. getId(n) # SensorId(o) /\ \A i \in R : getId(i) # SensorId(o)
      BY <2>1, <2>2, <2>3, <3>1
    <3> QED
      BY <2>1, <3>2 DEF ItemOf
  <2> QED
    BY <1>1, <1>4, <2>1, <2>2, <2>4
<1> QED
  BY <1>3, <1>4

\* A valid message keeps both.
LEMMA HandleValidSensors ==
  ASSUME TypeInv, SensorInv, DataInv, AcceptedIsSent,
         NEW success \in BOOLEAN, HandleValid(success)
  PROVE  SensorInv' /\ DataInv'
<1> PICK s, got : s = heard.sensor /\ got = Got(heard, heard.reading.t, heard.reading.h)
  OBVIOUS
<1> DEFINE max_gap == config.max_unchanged_gap
<1>1. /\ \A i \in items' : IsStored(i) /\ \E o \in sensors : IsDataOf(i, o)
      /\ \A o \in Singles \ {s} : ItemOf(o)' = ItemOf(o)
      /\ s \in Singles => \E n \in items' : ItemOf(s)' = {n} /\ IsHeard(n, s, got)
  BY HandleValidItem
<1>2. /\ sensors' = sensors /\ config' = config /\ definitions' = definitions /\ now' = now
      /\ heard # Nothing /\ heard' = Nothing
      /\ last' = [last EXCEPT ![s] = got]
      /\ reported' = reported \/ reported' = [reported EXCEPT ![s] = now]
  BY DEF HandleValid, configVars, StoreAndUpload, Upload
<1>3. got.time = now /\ got.reading = heard.reading
  BY DEF Got
<1>4. /\ s \in sensors /\ s \in AllSensors /\ now \in Nat
      /\ last = [o \in sensors |-> last[o]] /\ reported = [o \in sensors |-> reported[o]]
      /\ \A o \in sensors : SensorId(o) = SensorId(s) => o = s
  <2>1. now \in Nat
    BY ReceptionAssumption DEF ReceptionAssumption, TypeInv, TypeOK
  <2>2. s \in sensors /\ s \in AllSensors
    BY <1>2 DEF TypeInv, AllSensors
  <2> QED
    BY <2>1, <2>2, SensorsAssumption DEF SensorsAssumption, TypeInv
<1>5. /\ last'[s] = got
      /\ \A o \in sensors \ {s} : last'[o] = last[o] /\ reported'[o] = reported[o]
  BY <1>2, <1>4
<1>7. Singles' = Singles /\ Singles \subseteq sensors
  BY <1>2 DEF Singles
<1>8. \A o \in Singles : o # s =>
        ItemOf(o)' = ItemOf(o) /\ last'[o] = last[o] /\ reported'[o] = reported[o]
  BY <1>1, <1>5, <1>7
<1>19. ASSUME s \in Singles
       PROVE  \E n \in items' : ItemOf(s)' = {n} /\ IsHeard(n, s, got)
  BY <1>1, <1>19
<1>6. got # NoReport
  BY <1>3, <1>4 DEF NoReport, NoValue
<1>9. \A i \in items' : IsStored(i)
  BY <1>1
<1>10. UnheardInv'
  <2>1. \A o \in Singles : last'[o] = NoReport => ItemOf(o)' = {}
    BY <1>5, <1>6, <1>8 DEF SensorInv, UnheardInv
  <2> QED
    BY <1>7, <2>1 DEF UnheardInv
<1>11. ItemsAreSensors'
  <2>1. \A o \in Singles : last'[o] # NoReport =>
          \E i \in items' : ItemOf(o)' = {i} /\ i.def = DefinitionOf(o)
    <3> SUFFICES ASSUME NEW o \in Singles, last'[o] # NoReport
                 PROVE  \E i \in items' : ItemOf(o)' = {i} /\ i.def = DefinitionOf(o)
      OBVIOUS
    <3>1. CASE o = s
      BY <1>19, <3>1 DEF IsHeard
    <3>2. CASE o # s
      <4>1. PICK i \in items : ItemOf(o) = {i} /\ i.def = DefinitionOf(o)
        BY <1>8, <3>2 DEF SensorInv, ItemsAreSensors, DefinitionOf
      <4>2. ItemOf(o)' = {i}
        BY <1>8, <3>2, <4>1
      <4>3. i \in items'
        BY <4>2 DEF ItemOf
      <4> QED
        BY <4>1, <4>2, <4>3
    <3> QED
      BY <3>1, <3>2
  <2> QED
    BY <1>2, <1>7, <2>1 DEF ItemsAreSensors, DefinitionOf
<1>12. DueInv'
  <2>1. \A o \in Singles : \A i \in ItemOf(o)' : i.data_time <= reported'[o]
    <3> SUFFICES ASSUME NEW o \in Singles, NEW i \in ItemOf(o)'
                 PROVE  i.data_time <= reported'[o]
      OBVIOUS
    <3>1. CASE o = s
      BY <1>19, <3>1 DEF IsHeard
    <3>2. CASE o # s
      BY <1>8, <3>2 DEF SensorInv, DueInv
    <3> QED
      BY <3>1, <3>2
  <2> QED
    BY <1>7, <2>1 DEF DueInv
<1>13. ReportedInTime'
  <2>1. ASSUME max_gap > 0, NEW o \in Singles
        PROVE  last'[o].time - reported'[o] <= max_gap
    <3>1. CASE o = s
      BY <1>3, <1>5, <1>19, <2>1, <3>1 DEF IsHeard
    <3>2. CASE o # s
      BY <1>8, <2>1, <3>2 DEF SensorInv, ReportedInTime
    <3> QED
      BY <3>1, <3>2
  <2> QED
    BY <1>2, <1>7, <2>1 DEF ReportedInTime
<1>14. HeardInv'
  BY <1>2 DEF HeardInv
<1>15. NamedInv'
  <2>1. \A i \in items' : \E o \in sensors : i \in ItemOf(o)' /\ IsDataOf(i, o)
    BY <1>1 DEF ItemOf, IsDataOf
  <2> QED
    BY <1>2, <2>1 DEF NamedInv
<1>16. LastInv'
  <2>1. s.model # "tx6" => got.t = got.reading.t /\ got.h = got.reading.h
    <3>1. s.model # "tx6" => heard.what = "T"
      <4>1. heard \in RecordsOf[s]
        BY <1>2 DEF DataInv, HeardInv
      <4> QED
        BY <1>4, <4>1, HeardMembers DEF WhatIsSent
    <3> QED
      BY <3>1 DEF Got
  <2>2. \A o \in sensors : o.model # "tx6" /\ last'[o] # NoReport =>
          last'[o].t = last'[o].reading.t /\ last'[o].h = last'[o].reading.h
    BY <1>5, <2>1 DEF DataInv, LastInv
  <2> QED
    BY <1>2, <2>2 DEF LastInv
<1>17. StoredInv'
  <2>1. \A o \in Singles : \A i \in ItemOf(o)' :
          /\ Holds(i, o, last'[o].t, last'[o].h)
          /\ i.data_time <= last'[o].time
          /\ i.data_time = now \/ i.data_time + TICK <= now
    <3> SUFFICES ASSUME NEW o \in Singles, NEW i \in ItemOf(o)'
                 PROVE  /\ Holds(i, o, last'[o].t, last'[o].h)
                        /\ i.data_time <= last'[o].time
                        /\ i.data_time = now \/ i.data_time + TICK <= now
      OBVIOUS
    <3>1. CASE o = s
      BY <1>3, <1>5, <1>19, <3>1 DEF IsHeard
    <3>2. CASE o # s
      BY <1>8, <3>2 DEF DataInv, StoredInv
    <3> QED
      BY <3>1, <3>2
  <2> QED
    BY <1>2, <1>7, <2>1 DEF StoredInv
<1>18. ServedInv'
  <2> PICK d, what : /\ d = SensorDataOf(heard.message) /\ getId(d) = SensorId(s)
                     /\ server' = AfterValidData(getId(d), d, what, success)
    BY DEF HandleValid, StoreAndUpload, Upload, AcceptedIsSent, AfterValidData
  <2>2. \A id \in DOMAIN server \ {SensorId(s)} : id \in DOMAIN server' /\ server'[id] = server[id]
    BY AfterValid
  <2>3. \A o \in Singles : \A i \in ItemOf(o)' : Served(server', i, o)
    <3> SUFFICES ASSUME NEW o \in Singles, NEW i \in ItemOf(o)'
                 PROVE  Served(server', i, o)
      OBVIOUS
    <3>1. CASE o = s
      BY <1>19, <3>1 DEF IsHeard
    <3>2. CASE o # s
      <4>1. Served(server, i, o) /\ SensorId(o) # SensorId(s)
        BY <1>4, <1>7, <1>8, <3>2 DEF DataInv, ServedInv
      <4>2. SensorId(o) \in DOMAIN server' /\ server'[SensorId(o)] = server[SensorId(o)]
        BY <2>2, <4>1 DEF Served
      <4> QED
        BY <4>1, <4>2 DEF Served
    <3> QED
      BY <3>1, <3>2
  <2> QED
    BY <1>7, <2>3 DEF ServedInv
<1> QED
  BY <1>9, <1>10, <1>11, <1>12, <1>13, <1>14, <1>15, <1>16, <1>17, <1>18 DEF SensorInv, DataInv

\* What the server has of each sensor remains, when no item changes.
LEMMA ServedKept ==
  ASSUME TypeInv, ServedInv, UNCHANGED <<sensors, items>>,
         \A s \in Singles : \A i \in ItemOf(s) : Served(server, i, s) => Served(server', i, s)
  PROVE  ServedInv'
<1>1. (\A s : ItemOf(s)' = ItemOf(s)) /\ Singles' = Singles
  BY DEF ItemOf, Singles
<1>2. \A s \in Singles : \A i \in ItemOf(s) : Served(server', i, s)
  BY DEF ServedInv
<1> QED
  BY <1>1, <1>2 DEF ServedInv

\* What DataInv says of the items does not depend on the messages.
LEMMA ItemsKept ==
  ASSUME NamedInv, LastInv, UNCHANGED <<sensors, items, last>>
  PROVE  NamedInv' /\ LastInv'
<1>1. \A s : ItemOf(s)' = ItemOf(s)
  BY DEF ItemOf
<1> QED
  BY <1>1 DEF NamedInv, LastInv

\* The items hold the last readings as time passes.
LEMMA StoredKept ==
  ASSUME TypeInv, StoredInv, UNCHANGED <<sensors, items, last>>, now' = now \/ now' = now + TICK
  PROVE  StoredInv'
<1>1. (\A s : ItemOf(s)' = ItemOf(s)) /\ Singles' = Singles
  BY DEF ItemOf, Singles
<1>2. now \in Nat /\ TICK \in Nat
  BY ReceptionAssumption DEF ReceptionAssumption, TypeInv, TypeOK
<1>3. \A i \in items : i.data_time \in 0 .. now
  BY DEF TypeInv, TypeOK
<1>4. \A s \in Singles : \A i \in ItemOf(s) : i.data_time = now' \/ i.data_time + TICK <= now'
  BY <1>2, <1>3 DEF StoredInv, ItemOf
<1> QED
  BY <1>1, <1>4 DEF StoredInv

\* No sensor has the identifier of data without a protocol.
LEMMA UnknownIsNoSensor ==
  ASSUME NEW s \in AllSensors
  PROVE  SensorId(s) # UNKNOWN
<1>1. Model(s).protocol \in Protocols
  BY Models
<1>2. "UNKNOWN" \notin Protocols
  BY DEF Protocols
<1>3. SensorId(s) = Id("UNKNOWN", 0, 0, 0) => "UNKNOWN" = Model(s).protocol
  BY SensorIdParts
<1> QED
  BY <1>1, <1>2, <1>3 DEF UNKNOWN

\* SensorInv and DataInv are inductive as long as the decoders accept what was sent
\* only.
LEMMA SensorInvariant == Spec /\ []AcceptedIsSent => [](TypeInv /\ SensorInv /\ DataInv)
<1>1. Init => SensorInv /\ DataInv
  <2> SUFFICES ASSUME Init
               PROVE  SensorInv /\ DataInv
    OBVIOUS
  <2>1. /\ items = {} /\ last = [s \in sensors |-> NoReport] /\ heard = Nothing
        /\ reported = [s \in sensors |-> NoValue]
        /\ config \in Configurations
    BY DEF Init
  <2>2. \A s : ItemOf(s) = {}
    BY <2>1 DEF ItemOf
  <2>3. /\ \A s \in sensors : last[s] = NoReport /\ last[s].time = -1 /\ reported[s] = -1
        /\ Singles \subseteq sensors
    BY <2>1 DEF NoReport, NoValue, Singles
  <2>4. config.max_unchanged_gap > 0 => -1 - -1 <= config.max_unchanged_gap
    BY <2>1, ReceptionAssumption DEF ReceptionAssumption
  <2>5. SensorInv
    BY <2>1, <2>2, <2>3, <2>4 DEF SensorInv, UnheardInv, ItemsAreSensors, DueInv, ReportedInTime
  <2>6. DataInv
    BY <2>1, <2>2, <2>3 DEF DataInv, HeardInv, NamedInv, LastInv, StoredInv, ServedInv
  <2> QED
    BY <2>5, <2>6
<1>2. TypeInv /\ SensorInv /\ DataInv /\ AcceptedIsSent /\ [Next]_vars => SensorInv' /\ DataInv'
  <2> SUFFICES ASSUME TypeInv, SensorInv, DataInv, AcceptedIsSent, [Next]_vars
               PROVE  SensorInv' /\ DataInv'
    OBVIOUS
  <2>1. ASSUME NEW s \in sensors, NEW h \in RecordsOf[s], Receive(h)
        PROVE  SensorInv' /\ DataInv'
    <3>1. /\ UNCHANGED <<sensors, config, definitions, now, items, server, last, reported>>
          /\ heard' = h /\ MaySend(h.sensor, h.reading)
      BY <2>1 DEF Receive, configVars
    <3>4. h.sensor = s
      BY RecordsSensor DEF TypeInv, AllSensors
    <3>2. HeardInv'
      BY <2>1, <3>1, <3>4 DEF HeardInv, MaySend
    <3>3. NamedInv' /\ LastInv' /\ StoredInv' /\ ServedInv'
      BY <3>1, ItemsKept, StoredKept, ServedKept DEF DataInv
    <3> QED
      BY <3>1, <3>2, <3>3, SensorInvKept DEF DataInv
  <2>2. ASSUME NEW success \in BOOLEAN, HandleValid(success)
        PROVE  SensorInv' /\ DataInv'
    BY <2>2, HandleValidSensors
  <2>3. ASSUME NEW success \in BOOLEAN, HandleCorrupted(success)
        PROVE  SensorInv' /\ DataInv'
    <3>1. /\ UNCHANGED <<sensors, config, definitions, now, items, last, reported>>
          /\ heard' = Nothing
      BY <2>3 DEF HandleCorrupted, configVars
    <3> DEFINE d == SensorDataOf(heard.message)
               what == getFeatures(d) \ {"B"}
               value == [t |-> IF success THEN -2732 ELSE LOST, h |-> IF success THEN 0 ELSE LOST,
                         unchecked |-> {"T", "H"}]
    <3>6. \/ server' = server
          \/ server' = Set(server, UNKNOWN, value)
          \/ server' = ServerAfter(getId(d), d, what, FALSE, success)
      BY <2>3 DEF HandleCorrupted, ServerAfterUnknown
    <3> HIDE DEF d, what, value
    <3>2. \A s \in Singles : SensorId(s) # UNKNOWN
      BY UnknownIsNoSensor DEF TypeInv, AllSensors, Singles
    <3>3. \A s \in Singles : \A i \in ItemOf(s) : Served(server, i, s) => Served(server', i, s)
      <4> SUFFICES ASSUME NEW s \in Singles, NEW i, Served(server, i, s)
                   PROVE  Served(server', i, s)
        OBVIOUS
      <4>1. CASE server' = Set(server, UNKNOWN, value)
        <5>1. SensorId(s) \in DOMAIN server'
          BY <4>1 DEF Set, Served
        <5>2. server'[SensorId(s)] = server[SensorId(s)]
          BY <3>2, <4>1 DEF Set, Served
        <5> QED
          BY <5>1, <5>2 DEF Served
      <4>2. CASE server' = ServerAfter(getId(d), d, what, FALSE, success)
        BY <4>2, CorruptedIsServed
      <4> QED
        BY <3>6, <4>1, <4>2
    <3>4. HeardInv'
      BY <3>1 DEF HeardInv
    <3>5. NamedInv' /\ LastInv' /\ StoredInv' /\ ServedInv'
      BY <3>1, <3>3, ItemsKept, StoredKept, ServedKept DEF DataInv
    <3> QED
      BY <3>1, <3>4, <3>5, SensorInvKept DEF DataInv
  <2>4. CASE HandleUndecoded
    <3>1. /\ UNCHANGED <<sensors, config, definitions, now, items, server, last, reported>>
          /\ heard' = Nothing
      BY <2>4 DEF HandleUndecoded, configVars
    <3>2. HeardInv'
      BY <3>1 DEF HeardInv
    <3>3. NamedInv' /\ LastInv' /\ StoredInv' /\ ServedInv'
      BY <3>1, ItemsKept, StoredKept, ServedKept DEF DataInv
    <3> QED
      BY <3>1, <3>2, <3>3, SensorInvKept DEF DataInv
  <2>5. CASE Tick
    <3>1. /\ UNCHANGED <<sensors, config, definitions, items, server, last, reported, heard>>
          /\ heard = Nothing /\ now' = now + TICK
      BY <2>5 DEF Tick, configVars
    <3>2. HeardInv'
      BY <3>1 DEF HeardInv
    <3>3. NamedInv' /\ LastInv' /\ StoredInv' /\ ServedInv'
      BY <3>1, ItemsKept, StoredKept, ServedKept DEF DataInv
    <3> QED
      BY <3>1, <3>2, <3>3, SensorInvKept DEF DataInv
  <2>6. CASE UNCHANGED vars
    <3>1. UNCHANGED <<sensors, config, definitions, now, items, server, last, reported, heard>>
      BY <2>6 DEF vars, configVars
    <3>2. HeardInv'
      BY <3>1 DEF DataInv, HeardInv, MaySend
    <3>3. NamedInv' /\ LastInv' /\ StoredInv' /\ ServedInv'
      BY <3>1, ItemsKept, StoredKept, ServedKept DEF DataInv
    <3> QED
      BY <3>1, <3>2, <3>3, SensorInvKept DEF DataInv
  <2> QED
    BY <2>1, <2>2, <2>3, <2>4, <2>5, <2>6 DEF Next
<1> QED
  BY <1>1, <1>2, TypeInvariant, PTL DEF Spec

-----------------------------------------------------------------------------
(* The theorems, on the condition that a valid message is what was sent    *)

\* Every sensor that was heard has exactly one item, with the name that the
\* configuration gives it (SensorsData::update, SensorDef::find).
THEOREM SensorsHaveItems == Spec /\ []AcceptedIsSent => []ItemsAreSensors
<1>1. SensorInv => ItemsAreSensors
  BY DEF SensorInv
<1> QED
  BY <1>1, SensorInvariant, PTL

\* No sensor that is heard stays unreported for longer than max_unchanged_gap, whenever
\* its messages come and whatever they say (update of the protocols).
THEOREM ReportsComeInTime == Spec /\ []AcceptedIsSent => []ReportedInTime
<1>1. SensorInv => ReportedInTime
  BY DEF SensorInv
<1> QED
  BY <1>1, SensorInvariant, PTL

\* The stored data of a sensor without a twin is its last reading, for all temperatures
\* and humidities that the bits of a message have room for; in both scales, but for the
\* Fahrenheit of a TFA303049 below zero where long has 64 bits (update, the getters).
THEOREM LatestStored == Spec /\ []AcceptedIsSent => []LatestIsStored
<1>1. TypeInv /\ DataInv => LatestIsStored
  <2> SUFFICES ASSUME TypeInv, DataInv, NEW s \in Singles, NEW i \in ItemOf(s)
               PROVE  LET c == getTemperatureCx10(i)
                          f == getTemperatureFx10(i)
                      IN  /\ last[s].t # NoValue =>
                               /\ hasTemperature(i)
                               /\ ~FahrenheitIsWrong(i) => Between(ScaleError(i), -9, 9)
                               /\ CASE s.model \in {"f007th", "f007tp"} -> f = last[s].t
                                    [] s.model = "ds18b20" -> Within(100 * c - last[s].t, -50, 50)
                                    [] OTHER -> c = last[s].t
                          /\ last[s].h # NoValue /\ s.model \notin {"f007tp", "ds18b20"} =>
                               hasHumidity(i) /\ getHumidity(i) = last[s].h
    BY DEF LatestIsStored
  <2>1. Holds(i, s, last[s].t, last[s].h) /\ s \in AllSensors
    BY DEF DataInv, StoredInv, TypeInv, AllSensors, Singles
  <2>2. last[s].t # NoValue =>
          /\ hasTemperature(i)
          /\ ~FahrenheitIsWrong(i) => Between(ScaleError(i), -9, 9)
          /\ s.model \in {"f007th", "f007tp"} => getTemperatureFx10(i) = last[s].t
          /\ s.model = "ds18b20" => Within(100 * getTemperatureCx10(i) - last[s].t, -50, 50)
          /\ s.model \notin {"f007th", "f007tp", "ds18b20"} => getTemperatureCx10(i) = last[s].t
    BY <2>1, TemperatureRead
  <2>3. last[s].h # NoValue /\ s.model \notin {"f007tp", "ds18b20"} =>
          hasHumidity(i) /\ getHumidity(i) = last[s].h
    BY <2>1, HumidityRead
  <2> QED
    BY <2>2, <2>3
<1> QED
  BY <1>1, SensorInvariant, PTL

\* What the server has of a sensor is what is stored, unless the last request with this
\* value has failed, or was made of a message that had failed a check: no change is lost
\* between update and send, whichever of them update reports, also when a corrupted
\* message has gone to the server under the identifier of the sensor (f007th_send.cpp).
THEOREM ServerStaysCurrent == Spec /\ []AcceptedIsSent => []ServerIsCurrent
<1>1. TypeInv /\ DataInv => ServerIsCurrent
  <2> SUFFICES ASSUME TypeInv, DataInv, NEW s \in Singles, NEW i \in ItemOf(s)
               PROVE  /\ SensorId(s) \in DOMAIN server
                      /\ LET known == server[SensorId(s)]
                         IN  /\ last[s].t # NoValue /\ "T" \notin known.unchecked =>
                                  known.t \in {LOST, getTemperatureCx10(i)}
                             /\ last[s].h # NoValue /\ hasHumidity(i) /\ "H" \notin known.unchecked =>
                                  known.h \in {LOST, getHumidity(i)}
    BY DEF ServerIsCurrent
  <2>1. /\ Holds(i, s, last[s].t, last[s].h) /\ Served(server, i, s) /\ s \in AllSensors
    BY DEF DataInv, StoredInv, ServedInv, TypeInv, AllSensors, Singles
  <2>2. last[s].t # NoValue => HasT(i, s)
    BY <2>1, TemperatureRead
  <2>3. last[s].h # NoValue /\ hasHumidity(i) => HasH(i, s)
    BY <2>1, HumidityRead
  <2> QED
    BY <2>1, <2>2, <2>3 DEF Served
<1> QED
  BY <1>1, SensorInvariant, PTL
=============================================================================
