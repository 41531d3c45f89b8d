-------------------------------- MODULE Bits --------------------------------
(***************************************************************************)
(* The bit strings of the decoders: class Bits of utils/Bits.hpp, and the  *)
(* arithmetic on groups of bits that decoders and encoders share.          *)
(*                                                                         *)
(* A group of bits is a sequence of 0 and 1, its highest bit first.  An    *)
(* object of the class is a record: `size` bits are valid, `words` keeps   *)
(* everything that was ever written, because clear leaves it and addBit    *)
(* only sets ones.                                                         *)
(***************************************************************************)
EXTENDS Integers, SequencesExt

Bits == [size |-> 0, words |-> << >>]

clear(b) == [b EXCEPT !.size = 0]

\* addBit for each bit of s
addBits(b, s) ==
  LET end == b.size + Len(s)
      old(i) == IF i <= Len(b.words) THEN b.words[i] ELSE 0
  IN  [size  |-> end,
       words |-> [i \in 1 .. Max({end, Len(b.words)}) |->
                    IF b.size < i /\ i <= end /\ s[i - b.size] = 1 THEN 1 ELSE old(i)]]

\* Bits beyond the size are read as 0.  (A negative index reads memory that is
\* not the object's; it is read as 0, too, and no instance depends on it.)
getBit(b, index) == IF 0 <= index /\ index < b.size THEN b.words[index + 1] ELSE 0

Slice(b, from, n) == [k \in 1 .. n |-> getBit(b, from + k - 1)]

\* The number that a group of bits is
Value(s) ==
  LET first[n \in 0 .. Len(s)] == IF n = 0 THEN 0 ELSE 2 * first[n - 1] + s[n]
  IN  first[Len(s)]

getInt(b, from, n) == Value(Slice(b, from, n))

\* getReverse64: the first bit is the lowest
getReverse(b, from, n) == Reverse(Slice(b, from, n))

\* The place of the first occurrence of a pattern, -1 when there is none.  The
\* word that is at index 0 is compared whatever the size is.
findBits(b, pattern) ==
  LET n == Len(pattern)
      places == {i \in 0 .. b.size - n : Slice(b, i, n) = pattern}
  IN  IF places = {} THEN -1 ELSE Min(places)

-----------------------------------------------------------------------------
\* The n lowest bits of a number, negative ones in two's complement
Binary(v, n) == [k \in 1 .. n |-> ((v % 2 ^ n) \div 2 ^ (n - k)) % 2]

Xor(a, b) == [k \in DOMAIN a |-> (a[k] + b[k]) % 2]

Parity(s) == Cardinality({k \in DOMAIN s : s[k] = 1}) % 2

\* s in groups of n bits
Groups(s, n) == [k \in 1 .. Len(s) \div n |-> SubSeq(s, n * (k - 1) + 1, n * k)]

SumOf(groups) ==
  LET first[n \in 0 .. Len(groups)] == IF n = 0 THEN 0 ELSE first[n - 1] + Value(groups[n])
  IN  first[Len(groups)]
=============================================================================
