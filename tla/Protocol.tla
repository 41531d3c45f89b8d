------------------------------ MODULE Protocol ------------------------------
(***************************************************************************)
(* What the protocols share: the decoders of pulses in class Protocol      *)
(* (protocols/Protocol.cpp) and the limits of the receiver that the        *)
(* enabled protocols set (protocols/Protocol.hpp).                         *)
(*                                                                         *)
(* A waveform is a sequence of durations in microseconds, high and low in  *)
(* turn and high first; duration(w, i) is pSequence[i].  A decoder that has    *)
(* success FALSE leaves a decodingStatus; of that only the low byte is     *)
(* modelled, its high byte is the index of the item that was rejected.     *)
(***************************************************************************)
EXTENDS Bits

NULL == "NULL"
NoData == << >>

duration(w, i) == w[i + 1]
Within(n, min, max) == min <= n /\ n <= max    \* the code's n>=min && n<=max
Between(n, min, max) == min < n /\ n < max     \* the code's n>min && n<max

\* is_good
is_good(actual, expected, tolerance) == Within(actual - expected, -tolerance, tolerance)

\* The result of one of the decoders below
Decoded(success, bits, status) == [success |-> success, bits |-> bits, status |-> status]

\* decodePWM: a short pulse is 1, a long one is 0; the last gap may be missing.
decodePWM(w, start, size, minLo, maxLo, minHi, maxHi, median) ==
  LET end == start + size
      highs == {i \in start .. end - 1 : (i - start) % 2 = 0}
      lows == {i \in start .. end - 1 : (i - start) % 2 = 1}
  IN  IF /\ \A i \in highs : Within(duration(w, i), minHi, maxHi)
         /\ \A i \in lows : Within(duration(w, i), minLo, maxLo)
      THEN Decoded(TRUE, [k \in 1 .. (size + 1) \div 2 |->
                            IF duration(w, start + 2 * k - 2) < median THEN 1 ELSE 0], 0)
      ELSE Decoded(FALSE, << >>, 4)

\* decodePPM: a long gap after a pulse is 1, a short one is 0.
decodePPM(w, start, size, pulse, pulseTolerance, lo0, lo1, loTolerance) ==
  LET end == start + size
      highs == {i \in start .. end - 1 : (i - start) % 2 = 0}
      lows == {i \in start .. end - 1 : (i - start) % 2 = 1}
      isOne(i) == is_good(duration(w, i), lo1, loTolerance)
  IN  IF /\ \A i \in highs : is_good(duration(w, i), pulse, pulseTolerance)
         /\ \A i \in lows : isOne(i) \/ is_good(duration(w, i), lo0, loTolerance)
      THEN Decoded(TRUE, [k \in 1 .. size \div 2 |->
                            IF isOne(start + 2 * k - 1) THEN 1 ELSE 0], 0)
      ELSE Decoded(FALSE, << >>, 4)

-----------------------------------------------------------------------------
(* Manchester code                                                         *)

\* Where the second decodeManchester starts: the first item longer than half a
\* period, among the first 32, tells the phase.
FirstLong(w, start, half) ==
  LET long == {k \in 0 .. Min({31, Len(w) - start - 1}) : duration(w, start + k) > half}
  IN  IF long = {} THEN -1 ELSE Min(long)

\* The second decodeManchester, for the items from start on.  A long item that
\* follows an odd number of short ones is out of step and ends the bits; a bit
\* begins where an even number of them is behind.
decodeFrame(w, start, size, limits) ==
  LET half == limits.low.short_max
      first == FirstLong(w, start, half)
      isHalf(k) == duration(w, start + k) < half
      head == IF first = 0 THEN <<0, 1>> ELSE IF first % 2 = 1 THEN <<1>> ELSE <<0>>
      begin == IF first = 0 \/ first % 2 = 1 THEN 1 ELSE 0
      inStep(k) == Cardinality({j \in begin .. k - 1 : isHalf(j)}) % 2 = 0
      lost == {k \in begin .. size - 1 : ~isHalf(k) /\ ~inStep(k)}
      end == Min({size - 1} \cup lost)
      starts == SelectSeq([j \in 1 .. end - begin |-> begin + j - 1], inStep)
      bits == head \o [j \in DOMAIN starts |-> IF (starts[j] % 2 = 0) # isHalf(starts[j]) THEN 1 ELSE 0]
  IN  IF first = -1 THEN Decoded(FALSE, << >>, 1)
      ELSE Decoded(TRUE, bits, IF lost # {} /\ Len(bits) < limits.min_bits THEN 2 ELSE 0)

\* What a decoder has found in the bits: the data of a reading, its variant, the
\* status; no data when they were rejected
Reading(data, variant, status) == [data |-> data, variant |-> variant, status |-> status]
NoReading(status) == Reading(NoData, 0, status)

EvenAfter(i) == 2 * ((i + 2) \div 2)

\* Whether the item at index i may be half a period, or a whole one
IsShort(w, limits, i) ==
  LET t == IF i % 2 = 0 THEN limits.high ELSE limits.low
  IN  Within(duration(w, i), t.short_min, t.short_max)
IsLong(w, limits, i) ==
  LET t == IF i % 2 = 0 THEN limits.high ELSE limits.low
  IN  ~IsShort(w, limits, i) /\ Within(duration(w, i), t.long_min, t.long_max)

\* Where the items begin that are decoded when those from `start` to `end` are
\* in range: a long item in the middle of a period moves the start behind the first
\* short one before it.
MovedStart(w, limits, start, end) ==
  LET shorts(from, i) == {k \in from .. i - 1 : IsShort(w, limits, k)}
      moved[p \in (0 .. end + 2) \X (0 .. end + 2)] ==
        LET odd == {i \in p[2] .. end - 1 : IsLong(w, limits, i) /\ Cardinality(shorts(p[2], i)) % 2 = 1}
            next == EvenAfter(Min(shorts(p[2], Min(odd))))
        IN  IF odd = {} THEN p[1] ELSE moved[<<next, Max({next, Min(odd) + 1})>>]
  IN  moved[<<start, start>>]

\* The first decodeManchester: the parts of a sequence that are decoded, one after the
\* other until one of them gives a reading.  Items out of range end a part, the last
\* min_sequence_length items are not looked at, shorter parts are passed over.
decodeManchester(w, limits) ==
  LET checked == Max({0, Len(w) - limits.min_sequence_length})
      breaks == {i \in 0 .. checked - 1 : ~IsShort(w, limits, i) /\ ~IsLong(w, limits, i)}
      begins == {0} \cup {EvenAfter(i) : i \in breaks}
      end(b) == Min({Len(w)} \cup {i \in breaks : i >= b})
      begin(b) == MovedStart(w, limits, b, Min({end(b), checked}))
      long == {b \in begins : end(b) - b >= limits.min_sequence_length
                                /\ end(b) - begin(b) >= limits.min_sequence_length}
      ordered == SetToSortSeq(long, <)
  IN  [k \in DOMAIN ordered |-> [start |-> begin(ordered[k]), size |-> end(ordered[k]) - begin(ordered[k])]]

-----------------------------------------------------------------------------
\* A byte after eight steps of a shift register with the polynomial 0x31
ShiftByte(byte) ==
  LET shifted(r) == Append(Tail(r), 0)
      step(r, k) == IF Head(r) = 1 THEN Xor(shifted(r), Binary(49, 8)) ELSE shifted(r)
  IN  FoldLeft(step, byte, <<1, 2, 3, 4, 5, 6, 7, 8>>)

\* crc8 with polynomial 0x31 and initial value 0
crc8(bits) ==
  FoldLeft(LAMBDA crc, byte : ShiftByte(Xor(crc, byte)), Binary(0, 8), Groups(bits, 8))

-----------------------------------------------------------------------------
(* The limits of the receiver                                              *)

\* What adjustLimits of a protocol asks for: durations from `min` to `max`, and
\* sequences of at least `length` items (0 when it does not say)
Limits ==
  LET Limit(min, max, length) == [min |-> min, max |-> max, length |-> length]
  IN  [p \in {"00592TXR", "TX7U", "WH2", "HG02832", "F007TH", "TFA303049", "TX141"} |->
         CASE p = "00592TXR"  -> Limit(140, 660, 0)
           [] p = "TX7U"      -> Limit(400, 1500, 0)
           [] p = "WH2"       -> Limit(150, 1550, 95)
           [] p = "HG02832"   -> Limit(150, 1000, 87)
           [] p = "F007TH"    -> Limit(340, 1150, 0)
           [] p = "TFA303049" -> Limit(375, 4200, 73)
           [] p = "TX141"     -> Limit(140, 1000, 88)]

\* Mutant for LimitsAdmitAll: the longest duration is lowered like the shortest.
adjustLimitsMutant(l, p) ==
  LET lower(v, bound) == IF v = 0 \/ v > bound THEN bound ELSE v
  IN  [min_duration |-> lower(l.min_duration, Limits[p].min),
       max_duration |-> lower(l.max_duration, Limits[p].max),
       min_sequence_length |-> IF Limits[p].length = 0 THEN l.min_sequence_length
                               ELSE lower(l.min_sequence_length, Limits[p].length)]

\* adjustLimits: 0 is no limit yet.
adjustLimits(l, p) ==
  LET lower(v, bound) == IF v = 0 \/ v > bound THEN bound ELSE v
  IN  [min_duration |-> lower(l.min_duration, Limits[p].min),
       max_duration |-> Max({l.max_duration, Limits[p].max}),
       min_sequence_length |-> IF Limits[p].length = 0 THEN l.min_sequence_length
                               ELSE lower(l.min_sequence_length, Limits[p].length)]

\* setLimits for the protocols of a sequence, in the order of their indices
setLimits(l, protocols) ==
  LET adjusted == FoldLeft(adjustLimits, l, protocols)
      default(v, d) == IF v = 0 THEN d ELSE v
  IN  [min_duration |-> default(adjusted.min_duration, 50),
       max_duration |-> default(adjusted.max_duration, 2000),
       min_sequence_length |-> default(adjusted.min_sequence_length, 32)]

\* What enableReceive makes of them
ReceiverLimits(l, protocols) ==
  LET set == setLimits(l, protocols)
      longest == Min({set.max_duration, 10000})
      shortest == Max({30, Min({set.min_duration, 8000})})
  IN  [min_duration |-> shortest,
       max_duration |-> IF shortest >= longest THEN shortest + 2000 ELSE longest,
       min_sequence_length |-> IF set.min_sequence_length <= 16 THEN 85 ELSE set.min_sequence_length]
=============================================================================
