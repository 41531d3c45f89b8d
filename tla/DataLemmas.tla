------------------------------ MODULE DataLemmas -----------------------------
(***************************************************************************)
(* Lemmas that do not depend on a component: least and greatest elements   *)
(* of sets of natural numbers, which stand for an induction where a proof  *)
(* is about all positions of a list, and numbers as strings of bits, as    *)
(* Bits has them.                                                          *)
(***************************************************************************)
EXTENDS Bits, SequenceTheorems, FiniteSetTheorems, WellFoundedInduction, TLAPS

\* A set of natural numbers that is not empty has a least element.
LEMMA LeastExists ==
  ASSUME NEW T \in SUBSET Nat, T # {}
  PROVE  \E k \in T : \A e \in T : k <= e
<1> DEFINE R == OpToRel(<, Nat)
<1>1. \A x, y \in Nat : x < y => <<x, y>> \in R
  BY DEF OpToRel
<1>2. IsWellFoundedOn(R, Nat)
  BY NatLessThanWellFounded
<1> HIDE DEF R
<1>3. PICK k \in T : \A e \in T : <<e, k>> \notin R
  BY <1>2, WFMin
<1>4. \A e \in T : ~(e < k)
  BY <1>1, <1>3
<1> QED
  BY <1>4

\* The least element is what a CHOOSE of it gives.
LEMMA LeastIsChosen ==
  ASSUME NEW T \in SUBSET Nat, T # {},
         NEW m, m = CHOOSE k \in T : \A e \in T : k <= e
  PROVE  m \in T /\ \A e \in T : m <= e
  BY LeastExists

\* A set of positions of a list has a greatest element.
LEMMA GreatestExists ==
  ASSUME NEW N \in Nat, NEW T \in SUBSET (1 .. N), T # {}
  PROVE  \E k \in T : \A e \in T : e <= k
<1> DEFINE M == {N - k : k \in T}
<1>1. \A k \in T : k \in 1 .. N /\ N - k \in Nat
  OBVIOUS
<1>2. M \in SUBSET Nat /\ M # {}
  BY <1>1
<1>3. PICK m \in M : \A e \in M : m <= e
  BY <1>2, LeastExists
<1>4. PICK k \in T : m = N - k
  BY <1>3
<1>5. \A e \in T : N - k <= N - e
  BY <1>3, <1>4
<1>6. \A e \in T : e <= k
  BY <1>5
<1> QED
  BY <1>6

-----------------------------------------------------------------------------
(* Sums that are computed along a list                                     *)

\* g has the first values of a sum in which what was added before counts a times as
\* much: Value is such a sum, and so is SumOf.
IsSum(g, a, e, n) ==
  g = [k \in 0 .. n |-> IF k = 0 THEN 0 ELSE a * g[k - 1] + e[k]]

\* The equation of such a sum has a solution.
LEMMA SumExists ==
  ASSUME NEW a, NEW e, NEW n \in Nat
  PROVE  \E g : IsSum(g, a, e, n)
<1> DEFINE T == {m \in Nat : ~ \E g : IsSum(g, a, e, m)}
<1>1. SUFFICES ASSUME T # {}
               PROVE  FALSE
  OBVIOUS
<1>2. PICK m \in T : \A o \in T : m <= o
  BY <1>1, LeastExists
<1>3. CASE m = 0
  <2>1. IsSum([k \in 0 .. 0 |-> 0], a, e, 0)
    BY DEF IsSum
  <2> QED
    BY <1>2, <1>3, <2>1
<1>4. CASE m # 0
  <2>1. m \in Nat /\ m - 1 \in Nat /\ m - 1 \notin T
    BY <1>2, <1>4
  <2>2. PICK g : IsSum(g, a, e, m - 1)
    BY <2>1
  <2> DEFINE h == [k \in 0 .. m |-> IF k = m THEN a * g[m - 1] + e[m] ELSE g[k]]
             r == [k \in 0 .. m |-> IF k = 0 THEN 0 ELSE a * h[k - 1] + e[k]]
  <2>3. ASSUME NEW k \in 0 .. m
        PROVE  h[k] = r[k]
    <3>1. CASE k = m
      BY <1>4, <2>1, <3>1
    <3>2. CASE k # m
      <4>1. k \in 0 .. m - 1 /\ (k # 0 => k - 1 \in 0 .. m - 1)
        BY <2>1, <3>2
      <4>2. g[k] = IF k = 0 THEN 0 ELSE a * g[k - 1] + e[k]
        BY <2>2, <4>1 DEF IsSum
      <4>3. h[k] = g[k] /\ (k # 0 => h[k - 1] = g[k - 1] /\ k - 1 \in 0 .. m)
        BY <2>1, <3>2, <4>1
      <4> QED
        BY <4>2, <4>3
    <3> QED
      BY <3>1, <3>2
  <2>4. h = r
    BY <2>3
  <2> HIDE DEF h
  <2>5. IsSum(h, a, e, m)
    BY <2>4 DEF IsSum
  <2> QED
    BY <1>2, <2>5
<1> QED
  BY <1>3, <1>4

\* Sums of natural numbers are natural numbers.
LEMMA SumType ==
  ASSUME NEW a \in Nat, NEW e, NEW n \in Nat, \A k \in 1 .. n : e[k] \in Nat,
         NEW g, IsSum(g, a, e, n)
  PROVE  \A k \in 0 .. n : g[k] \in Nat
<1> DEFINE T == {k \in 0 .. n : g[k] \notin Nat}
<1>1. SUFFICES ASSUME T # {}
               PROVE  FALSE
  OBVIOUS
<1>2. PICK k \in T : \A o \in T : k <= o
  <2>1. T \in SUBSET Nat
    OBVIOUS
  <2> QED
    BY <1>1, <2>1, LeastExists
<1>3. g[k] = IF k = 0 THEN 0 ELSE a * g[k - 1] + e[k]
  BY <1>2 DEF IsSum
<1>4. k # 0 => g[k - 1] \in Nat /\ e[k] \in Nat
  BY <1>2
<1>5. \A x, y, z \in Nat : x * y + z \in Nat
  OBVIOUS
<1> QED
  BY <1>2, <1>3, <1>4, <1>5

-----------------------------------------------------------------------------
(* Strings of bits                                                         *)

\* A string of n bits
IsBits(q, n) == q \in Seq({0, 1}) /\ Len(q) = n

\* The elements of a string.
LEMMA BitsMembers ==
  ASSUME NEW n \in Nat, NEW q, IsBits(q, n)
  PROVE  q = [k \in 1 .. n |-> q[k]] /\ \A k \in 1 .. n : q[k] \in {0, 1}
  BY LenProperties DEF IsBits

\* A function on the first numbers is a string.
LEMMA BitsFromFunction ==
  ASSUME NEW n \in Nat, NEW q, q = [k \in 1 .. n |-> q[k]], \A k \in 1 .. n : q[k] \in {0, 1}
  PROVE  IsBits(q, n)
<1>1. [k \in 1 .. n |-> q[k]] \in Seq({0, 1}) /\ Len([k \in 1 .. n |-> q[k]]) = n
  OBVIOUS
<1> QED
  BY <1>1 DEF IsBits

\* Two strings with the same elements are the same string.
LEMMA BitsEqual ==
  ASSUME NEW n \in Nat, NEW p, NEW q, IsBits(p, n), IsBits(q, n), \A k \in 1 .. n : p[k] = q[k]
  PROVE  p = q
<1>1. p = [k \in 1 .. n |-> p[k]] /\ q = [k \in 1 .. n |-> q[k]]
  BY BitsMembers
<1> QED
  BY <1>1

\* One bit.
LEMMA OneBit ==
  ASSUME NEW b \in {0, 1}
  PROVE  IsBits(<<b>>, 1) /\ <<b>>[1] = b
<1>1. <<b>> \in Seq({0, 1}) /\ Len(<<b>>) = 1
  OBVIOUS
<1> QED
  BY <1>1 DEF IsBits

\* Two strings one behind the other.
LEMMA ConcatBits ==
  ASSUME NEW m \in Nat, NEW n \in Nat, NEW N, N = m + n,
         NEW a, NEW b, IsBits(a, m), IsBits(b, n), NEW c, c = a \o b
  PROVE  /\ IsBits(c, N)
         /\ \A k \in 1 .. m : c[k] = a[k]
         /\ \A k \in m + 1 .. N : c[k] = b[k - m]
<1>1. /\ c \in Seq({0, 1}) /\ Len(c) = N
      /\ \A k \in 1 .. N : c[k] = IF k <= m THEN a[k] ELSE b[k - m]
  BY ConcatProperties DEF IsBits
<1> QED
  BY <1>1 DEF IsBits

\* A part of a string.
LEMMA PartBits ==
  ASSUME NEW n \in Nat, NEW q, IsBits(q, n), NEW i \in 1 .. n, NEW j \in i .. n
  PROVE  /\ IsBits(SubSeq(q, i, j), j - i + 1)
         /\ \A k \in 1 .. j - i + 1 : SubSeq(q, i, j)[k] = q[i + k - 1]
<1>1. \A k \in i .. j : q[k] \in {0, 1}
  BY BitsMembers
<1>2. q \in Seq({0, 1}) /\ Len(q) = n
  BY DEF IsBits
<1> DEFINE part == SubSeq(q, i, j)
<1>3. /\ part \in Seq({0, 1})
      /\ Len(part) = IF i <= j THEN j - i + 1 ELSE 0
      /\ \A k \in 1 .. j - i + 1 : part[k] = q[i + k - 1]
  BY <1>1, <1>2, SubSeqProperties
<1>4. i <= j
  OBVIOUS
<1> HIDE DEF part
<1>5. IsBits(part, j - i + 1)
  BY <1>3, <1>4 DEF IsBits
<1> QED
  BY <1>3, <1>5 DEF part

\* The number of a string is the last of its sums.
LEMMA ValueIsSum ==
  ASSUME NEW n \in Nat, NEW s, Len(s) = n
  PROVE  \E g : IsSum(g, 2, s, n) /\ Value(s) = g[n]
<1> DEFINE first == CHOOSE g : g = [k \in 0 .. Len(s) |-> IF k = 0 THEN 0 ELSE 2 * g[k - 1] + s[k]]
<1>1. Value(s) = first[Len(s)]
  BY Zenon DEF Value
<1>2. \E g : g = [k \in 0 .. Len(s) |-> IF k = 0 THEN 0 ELSE 2 * g[k - 1] + s[k]]
  <2>1. \E g : IsSum(g, 2, s, Len(s))
    BY SumExists
  <2> QED
    BY <2>1 DEF IsSum
<1>3. first = [k \in 0 .. Len(s) |-> IF k = 0 THEN 0 ELSE 2 * first[k - 1] + s[k]]
  BY <1>2, Zenon
<1> HIDE DEF first
<1> QED
  BY <1>1, <1>3 DEF IsSum

\* It is a natural number.
LEMMA ValueType ==
  ASSUME NEW n \in Nat, NEW q, IsBits(q, n)
  PROVE  Value(q) \in Nat
<1>1. PICK g : IsSum(g, 2, q, n) /\ Value(q) = g[n]
  BY ValueIsSum DEF IsBits
<1>2. \A k \in 1 .. n : q[k] \in Nat
  BY BitsMembers
<1> QED
  BY <1>1, <1>2, SumType

\* Different strings are different numbers.
LEMMA ValueInjective ==
  ASSUME NEW n \in Nat, NEW p, NEW q, IsBits(p, n), IsBits(q, n), Value(p) = Value(q)
  PROVE  p = q
<1>1. PICK g : IsSum(g, 2, p, n) /\ Value(p) = g[n]
  BY ValueIsSum DEF IsBits
<1>2. PICK h : IsSum(h, 2, q, n) /\ Value(q) = h[n]
  BY ValueIsSum DEF IsBits
<1>3. /\ \A k \in 1 .. n : p[k] \in {0, 1} /\ q[k] \in {0, 1}
      /\ p = [k \in 1 .. n |-> p[k]] /\ q = [k \in 1 .. n |-> q[k]]
  BY BitsMembers
<1>4. \A k \in 0 .. n : g[k] \in Nat /\ h[k] \in Nat
  <2>1. 2 \in Nat /\ \A k \in 1 .. n : p[k] \in Nat /\ q[k] \in Nat
    BY <1>3
  <2>2. \A k \in 0 .. n : g[k] \in Nat
    BY <1>1, <2>1, SumType
  <2>3. \A k \in 0 .. n : h[k] \in Nat
    BY <1>2, <2>1, SumType
  <2> QED
    BY <2>2, <2>3
<1>5. \A k \in 1 .. n : g[k] = 2 * g[k - 1] + p[k] /\ h[k] = 2 * h[k - 1] + q[k]
  BY <1>1, <1>2 DEF IsSum
<1>6. ASSUME NEW k \in 1 .. n, g[k] = h[k]
      PROVE  g[k - 1] = h[k - 1] /\ p[k] = q[k]
  <2>1. k - 1 \in 0 .. n
    OBVIOUS
  <2>2. PICK a, b, x, y : a = g[k - 1] /\ b = h[k - 1] /\ x = p[k] /\ y = q[k]
    OBVIOUS
  <2>3. a \in Nat /\ b \in Nat
    BY <1>4, <2>1, <2>2
  <2>4. x \in {0, 1} /\ y \in {0, 1}
    BY <1>3, <2>2
  <2>5. 2 * a + x = 2 * b + y
    BY <1>5, <1>6, <2>2
  <2>6. a = b /\ x = y
    BY <2>3, <2>4, <2>5
  <2> QED
    BY <2>2, <2>6
<1> DEFINE T == {k \in 0 .. n : g[n - k] # h[n - k]}
<1>7. T = {}
  <2> SUFFICES ASSUME T # {}
               PROVE  FALSE
    OBVIOUS
  <2>1. PICK k \in T : \A o \in T : k <= o
    <3>1. T \in SUBSET Nat
      OBVIOUS
    <3> QED
      BY <3>1, LeastExists
  <2>2. k # 0
    <3>1. g[n] = h[n]
      BY <1>1, <1>2
    <3>2. g[n - k] # h[n - k]
      BY <2>1
    <3>3. n - 0 = n
      OBVIOUS
    <3> QED
      BY <3>1, <3>2, <3>3
  <2>3. k - 1 \in 0 .. n /\ k - 1 \notin T /\ n - (k - 1) \in 1 .. n /\ n - (k - 1) - 1 = n - k
    BY <2>1, <2>2
  <2>4. g[n - (k - 1)] = h[n - (k - 1)]
    BY <2>3
  <2> QED
    BY <1>6, <2>1, <2>3, <2>4
<1>8. \A k \in 1 .. n : p[k] = q[k]
  <2> TAKE k \in 1 .. n
  <2>1. n - k \in 0 .. n /\ n - k \notin T /\ n - (n - k) = k
    BY <1>7
  <2> QED
    BY <1>6, <2>1
<1> QED
  BY <1>3, <1>8

-----------------------------------------------------------------------------
(* The bits of a number                                                    *)

\* The powers of two, as numbers of subsets.
LEMMA PowerOfTwo ==
  ASSUME NEW n \in Nat
  PROVE  2 ^ n \in Nat \ {0} /\ 2 ^ (n + 1) = 2 * 2 ^ n
<1> DEFINE S == SUBSET (1 .. n)
           With(t) == t \cup {n + 1}
           T == {With(t) : t \in S}
<1>1. /\ IsFiniteSet(1 .. n) /\ Cardinality(1 .. n) = n
      /\ IsFiniteSet(1 .. n + 1) /\ Cardinality(1 .. n + 1) = n + 1
  BY FS_Interval
<1>2. /\ IsFiniteSet(S) /\ Cardinality(S) = 2 ^ n
      /\ IsFiniteSet(SUBSET (1 .. n + 1)) /\ Cardinality(SUBSET (1 .. n + 1)) = 2 ^ (n + 1)
  BY <1>1, FS_SUBSET
<1>3. \A t \in S : n + 1 \notin t
  OBVIOUS
<1>4. S \cap T = {}
  BY <1>3
<1>5. SUBSET (1 .. n + 1) = S \cup T
  <2>1. \A t \in S : t \subseteq 1 .. n + 1 /\ With(t) \subseteq 1 .. n + 1
    OBVIOUS
  <2>2. ASSUME NEW t \in SUBSET (1 .. n + 1)
        PROVE  t \in S \cup T
    <3>1. CASE n + 1 \in t
      <4>1. t \ {n + 1} \in S /\ t = With(t \ {n + 1})
        BY <3>1
      <4> QED
        BY <4>1
    <3>2. CASE n + 1 \notin t
      BY <3>2
    <3> QED
      BY <3>1, <3>2
  <2>3. ASSUME NEW u \in S \cup T
        PROVE  u \in SUBSET (1 .. n + 1)
    BY <2>1
  <2> HIDE DEF S, T
  <2> QED
    BY <2>2, <2>3
<1>6. IsFiniteSet(T) /\ Cardinality(T) = Cardinality(S)
  <2> DEFINE f == [t \in S |-> With(t)]
  <2>1. \A t, u \in S : With(t) = With(u) => t = u
    <3> SUFFICES ASSUME NEW t \in S, NEW u \in S, With(t) = With(u)
                 PROVE  t = u
      OBVIOUS
    <3>1. t = With(t) \ {n + 1} /\ u = With(u) \ {n + 1}
      BY <1>3
    <3> QED
      BY <3>1
  <2> HIDE DEF S, With
  <2>2. f \in [S -> T] /\ (\A t, u \in S : f[t] = f[u] => t = u) /\ \A x \in T : \E t \in S : f[t] = x
    BY <2>1
  <2> HIDE DEF f, T
  <2>3. f \in Bijection(S, T)
    BY <2>2 DEF Bijection, Injection, Surjection, IsInjective
  <2> QED
    BY <1>2, <2>3, FS_Bijection DEF ExistsBijection
<1> HIDE DEF S, T
<1>7. Cardinality(S \cup T) = Cardinality(S) + Cardinality(T) - Cardinality(S \cap T)
  BY <1>2, <1>6, FS_Union
<1>8. Cardinality({}) = 0 /\ Cardinality(S) \in Nat
  BY <1>2, FS_EmptySet, FS_CardinalityType
<1>9. Cardinality(S) # 0
  <2>1. {} \in S
    BY DEF S
  <2> QED
    BY <1>2, <2>1, FS_EmptySet
<1> DEFINE c == Cardinality(S)
<1>10. c \in Nat /\ c # 0 /\ 2 ^ n = c
  BY <1>2, <1>8, <1>9
<1>11. 2 ^ (n + 1) = c + c
  <2>1. Cardinality(S \cup T) = c + c - 0
    BY <1>4, <1>6, <1>7, <1>8
  <2>2. 2 ^ (n + 1) = Cardinality(S \cup T)
    BY <1>2, <1>5
  <2> QED
    BY <1>10, <2>1, <2>2
<1> HIDE DEF c
<1> QED
  BY <1>10, <1>11

\* A number is its own remainder when it is divided by a greater one.
LEMMA SmallRemainder ==
  ASSUME NEW p \in Nat \ {0}, NEW v \in Nat, v < p
  PROVE  v % p = v /\ v \div p = 0
  OBVIOUS

\* A number is divided by 2 * p when it is divided by p and by 2.
LEMMA DividedTwice ==
  ASSUME NEW x \in Nat, NEW p \in Nat \ {0}
  PROVE  x \div p = 2 * (x \div (2 * p)) + ((x \div p) % 2)
<1> DEFINE q == x \div p
           r == x % p
           h == q \div 2
           b == q % 2
<1>1. x = p * q + r /\ q \in Nat /\ r \in 0 .. p - 1
  OBVIOUS
<1>2. q = 2 * h + b /\ h \in Nat /\ b \in 0 .. 1
  BY <1>1
<1> HIDE DEF q, r, h, b
<1>3. x = (2 * p) * h + (p * b + r)
  BY <1>1, <1>2
<1>4. p * b + r \in 0 .. 2 * p - 1
  <2>1. b = 0 \/ b = 1
    BY <1>2
  <2>2. CASE b = 0
    BY <1>1, <2>2
  <2>3. CASE b = 1
    BY <1>1, <2>3
  <2> QED
    BY <2>1, <2>2, <2>3
<1>5. ASSUME NEW c \in Nat \ {0}, NEW y \in 0 .. c - 1, x = c * h + y
      PROVE  x \div c = h
  BY <1>2, <1>5, Z3
<1>6. x \div (2 * p) = h
  <2>1. 2 * p \in Nat \ {0}
    OBVIOUS
  <2> QED
    BY <1>3, <1>4, <1>5, <2>1
<1>7. q = 2 * (x \div (2 * p)) + b
  BY <1>2, <1>6
<1> QED
  BY <1>7 DEF q, b

\* Binary makes bits.
LEMMA BinaryIsBits ==
  ASSUME NEW v \in Int, NEW n \in Nat
  PROVE  IsBits(Binary(v, n), n)
<1>1. ASSUME NEW k \in 1 .. n
      PROVE  ((v % 2 ^ n) \div 2 ^ (n - k)) % 2 \in {0, 1}
  <2>1. 2 ^ n \in Nat \ {0} /\ 2 ^ (n - k) \in Nat \ {0}
    BY PowerOfTwo
  <2>2. \A p \in Nat \ {0} : v % p \in Nat
    OBVIOUS
  <2>3. \A x \in Nat : \A p \in Nat \ {0} : x \div p \in Nat
    OBVIOUS
  <2>4. \A x \in Nat : x % 2 \in {0, 1}
    OBVIOUS
  <2> QED
    BY <2>1, <2>2, <2>3, <2>4
<1> DEFINE b(k) == ((v % 2 ^ n) \div 2 ^ (n - k)) % 2
<1>2. Binary(v, n) = [k \in 1 .. n |-> b(k)]
  BY DEF Binary
<1>3. \A k \in 1 .. n : b(k) \in {0, 1}
  BY <1>1
<1> HIDE DEF b
<1>4. \A k \in 1 .. n : Binary(v, n)[k] \in {0, 1}
  BY <1>2, <1>3
<1>5. Binary(v, n) = [k \in 1 .. n |-> Binary(v, n)[k]]
  BY <1>2
<1> QED
  BY <1>4, <1>5, BitsFromFunction

\* And they are the bits of the number.
LEMMA ValueOfBinary ==
  ASSUME NEW v \in Int, NEW n \in Nat
  PROVE  Value(Binary(v, n)) = v % 2 ^ n
<1> DEFINE x == v % 2 ^ n
           p(k) == 2 ^ (n - k)
           s == Binary(v, n)
<1>1. x \in Nat /\ x < 2 ^ n
  <2>1. 2 ^ n \in Nat \ {0}
    BY PowerOfTwo
  <2>2. \A e \in Nat \ {0} : v % e \in Nat /\ v % e < e
    OBVIOUS
  <2> QED
    BY <2>1, <2>2
<1>2. \A k \in 1 .. n : s[k] = (x \div p(k)) % 2
  BY DEF Binary
<1>3. PICK g : IsSum(g, 2, s, n) /\ Value(s) = g[n]
  BY BinaryIsBits, ValueIsSum DEF IsBits
<1>4. \A k \in 0 .. n : p(k) \in Nat \ {0} /\ (k # 0 => p(k - 1) = 2 * p(k))
  <2> TAKE k \in 0 .. n
  <2>1. n - k \in Nat /\ n - (k - 1) = (n - k) + 1
    OBVIOUS
  <2> QED
    BY <2>1, PowerOfTwo
<1>5. p(0) = 2 ^ n /\ p(n) = 1
  <2>1. n - 0 = n /\ n - n = 0 /\ 2 ^ 0 = 1
    OBVIOUS
  <2> QED
    BY <2>1
<1> HIDE DEF x, p, s
<1> DEFINE T == {k \in 0 .. n : g[k] # x \div p(k)}
<1>6. T = {}
  <2> SUFFICES ASSUME T # {}
               PROVE  FALSE
    OBVIOUS
  <2>1. PICK k \in T : \A o \in T : k <= o
    <3>1. T \in SUBSET Nat
      OBVIOUS
    <3> QED
      BY <3>1, LeastExists
  <2>2. k \in 0 .. n /\ g[k] # x \div p(k)
    BY <2>1
  <2>3. CASE k = 0
    <3>1. g[k] = 0
      BY <1>3, <2>2, <2>3 DEF IsSum
    <3>2. \A e \in Nat \ {0} : x < e => x \div e = 0
      BY <1>1
    <3>3. x \div p(k) = 0
      BY <1>1, <1>4, <1>5, <2>2, <2>3, <3>2
    <3> QED
      BY <2>2, <3>1, <3>3
  <2>4. CASE k # 0
    <3>1. k \in 1 .. n /\ k - 1 \in 0 .. n /\ k - 1 \notin T
      BY <2>1, <2>2, <2>4
    <3>2. g[k - 1] = x \div p(k - 1)
      BY <3>1
    <3>3. g[k] = 2 * g[k - 1] + s[k]
      BY <1>3, <2>2, <2>4 DEF IsSum
    <3>4. x \div p(k) = 2 * (x \div p(k - 1)) + ((x \div p(k)) % 2)
      BY <1>1, <1>4, <2>2, <2>4, DividedTwice
    <3>5. s[k] = (x \div p(k)) % 2
      BY <1>2, <3>1
    <3>6. g[k] = 2 * (x \div p(k - 1)) + ((x \div p(k)) % 2)
      BY <3>2, <3>3, <3>5
    <3> QED
      BY <2>2, <3>4, <3>6
  <2> QED
    BY <2>3, <2>4
<1>7. g[n] = x \div p(n)
  BY <1>6
<1> QED
  BY <1>1, <1>3, <1>5, <1>7 DEF x, s

\* A string of n bits is a number below 2 ^ n.
LEMMA ValueBound ==
  ASSUME NEW n \in Nat, NEW q, IsBits(q, n)
  PROVE  Value(q) < 2 ^ n
<1>1. PICK g : IsSum(g, 2, q, n) /\ Value(q) = g[n]
  BY ValueIsSum DEF IsBits
<1>2. \A k \in 1 .. n : q[k] \in Nat /\ q[k] <= 1
  BY BitsMembers
<1>3. \A k \in 0 .. n : g[k] \in Nat
  BY <1>1, <1>2, SumType
<1> DEFINE p(k) == 2 ^ k
<1>4. \A k \in Nat : p(k) \in Nat /\ p(k + 1) = 2 * p(k)
  BY PowerOfTwo
<1>5. p(0) = 1
  OBVIOUS
<1> HIDE DEF p
<1> DEFINE T == {k \in 0 .. n : ~(g[k] < p(k))}
<1>6. T = {}
  <2> SUFFICES ASSUME T # {}
               PROVE  FALSE
    OBVIOUS
  <2>1. PICK k \in T : \A o \in T : k <= o
    <3>1. T \in SUBSET Nat
      OBVIOUS
    <3> QED
      BY <3>1, LeastExists
  <2>2. k \in 0 .. n /\ ~(g[k] < p(k))
    BY <2>1
  <2>3. CASE k = 0
    <3>1. g[k] = 0
      BY <1>1, <2>2, <2>3 DEF IsSum
    <3> QED
      BY <1>5, <2>2, <2>3, <3>1
  <2>4. CASE k # 0
    <3>1. k \in 1 .. n /\ k - 1 \in 0 .. n /\ k - 1 \notin T /\ k - 1 \in Nat /\ (k - 1) + 1 = k
      BY <2>1, <2>2, <2>4
    <3>2. g[k - 1] < p(k - 1)
      BY <3>1
    <3>3. g[k] = 2 * g[k - 1] + q[k]
      BY <1>1, <2>2, <2>4 DEF IsSum
    <3>4. p(k) = 2 * p(k - 1) /\ p(k - 1) \in Nat
      BY <1>4, <3>1
    <3>5. g[k - 1] \in Nat /\ q[k] \in Nat /\ q[k] <= 1
      BY <1>2, <1>3, <3>1
    <3> QED
      BY <2>2, <3>2, <3>3, <3>4, <3>5
  <2> QED
    BY <2>3, <2>4
<1>7. g[n] < p(n)
  BY <1>6
<1> QED
  BY <1>1, <1>7 DEF p

\* A number that fits keeps its value when it is written in fewer bits.
LEMMA BinaryLowBits ==
  ASSUME NEW n \in Nat, NEW m \in 0 .. n, NEW v \in Nat, v < 2 ^ m
  PROVE  \A k \in 1 .. m : Binary(v, n)[n - m + k] = Binary(v, m)[k]
<1>1. v % 2 ^ m = v /\ 2 ^ m \in Nat \ {0}
  BY PowerOfTwo, SmallRemainder
<1>2. Binary(v, m) = [k \in 1 .. m |-> (v \div 2 ^ (m - k)) % 2]
  BY <1>1 DEF Binary
<1>3. v % 2 ^ n = v
  <2> DEFINE T == {k \in m .. n : ~(v < 2 ^ k)}
  <2>1. T = {}
    <3> SUFFICES ASSUME T # {}
                 PROVE  FALSE
      OBVIOUS
    <3>1. PICK k \in T : \A o \in T : k <= o
      <4>1. T \in SUBSET Nat
        OBVIOUS
      <4> QED
        BY <4>1, LeastExists
    <3>2. k # m
      BY <3>1
    <3>3. k - 1 \in m .. n /\ k - 1 \notin T /\ k - 1 \in Nat /\ (k - 1) + 1 = k
      BY <3>1, <3>2
    <3>4. v < 2 ^ (k - 1)
      BY <3>3
    <3>5. 2 ^ k = 2 * 2 ^ (k - 1) /\ 2 ^ (k - 1) \in Nat
      BY <3>3, PowerOfTwo
    <3>6. v < 2 ^ k
      BY <3>4, <3>5
    <3> QED
      BY <3>1, <3>6
  <2>2. v < 2 ^ n
    BY <2>1
  <2> QED
    BY <2>2, PowerOfTwo, SmallRemainder
<1>4. Binary(v, n) = [k \in 1 .. n |-> (v \div 2 ^ (n - k)) % 2]
  BY <1>3 DEF Binary
<1>5. ASSUME NEW k \in 1 .. m
      PROVE  Binary(v, n)[n - m + k] = Binary(v, m)[k]
  <2>1. n - m + k \in 1 .. n /\ n - (n - m + k) = m - k
    OBVIOUS
  <2> QED
    BY <1>2, <1>4, <2>1
<1> QED
  BY <1>5
=============================================================================
