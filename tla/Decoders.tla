------------------------------ MODULE Decoders ------------------------------
(***************************************************************************)
(* The decoders of the seven radio protocols: Protocol::decode of each     *)
(* file of protocols/, and the loop of the decoder thread over them        *)
(* (Receiver::decoder).                                                    *)
(*                                                                         *)
(* A message is the part of ReceivedData that decoders read and write:     *)
(* `protocol` and `data` are sensorData.protocol and the bits of           *)
(* sensorData.u64, `variant` the flag some protocols keep in u32.hi,       *)
(* `status` is decodingStatus without the place in the sequence that some  *)
(* errors have in its high byte, `decoded` what decode returns.            *)
(***************************************************************************)
EXTENDS Protocol

\* The protocols in the order of their indices
RFProtocols == <<"00592TXR", "TX7U", "WH2", "HG02832", "F007TH", "TFA303049", "TX141">>

\* createNewMessage
NewMessage == [protocol |-> NULL, data |-> NoData, variant |-> 0, status |-> 0, decoded |-> FALSE]

\* Most decoders begin by forgetting what an earlier one has found.
Forget(m) == [m EXCEPT !.protocol = NULL, !.status = 0, !.decoded = FALSE]
Rejected(m, status) == [Forget(m) EXCEPT !.status = status]
Accepted(m, p, data, variant) ==
  [protocol |-> p, data |-> data, variant |-> variant, status |-> 0, decoded |-> TRUE]

\* The first of the candidate indices, -1 when there is none
FirstOf(indices) == IF indices = {} THEN -1 ELSE Min(indices)
Even(from, to) == {i \in from .. to : i % 2 = 0}

HasChecksumError(status) == (status \div 128) % 2 = 1
HasLostBits(status) == (status \div 32) % 2 = 1

\* The status that is kept when an attempt has failed and another one follows
KeptStatus(kept, failed) ==
  IF HasChecksumError(failed) \/ HasLostBits(failed) \/ ~HasChecksumError(kept) THEN failed ELSE kept

\* Attempts at several places of a sequence: try(state, place) gives the next
\* state, whose data is there when the attempt was good.  All attempts use the
\* same object of bits.
Attempts(places, try(_, _)) ==
  FoldLeft(LAMBDA s, place : IF s.data # NoData THEN s ELSE try(s, place),
           [bits |-> Bits, status |-> 0, data |-> NoData], places)

\* The even indices from 0 to `to` that pass a test, in their order
Places(to, Test(_)) == SelectSeq([k \in 1 .. (to + 2) \div 2 |-> 2 * k - 2], Test)

-----------------------------------------------------------------------------
(* AcuRite 00592TXR                                                        *)

\* Four pulses of about 600, and the first pulse of a bit
IsSync00592TXR(w, i) ==
  /\ \A k \in {i, i + 2, i + 4, i + 6} :
       /\ Within(duration(w, k), 400, 1000)
       /\ Within(duration(w, k) + duration(w, k + 1), 1000, 1450)
  /\ Within(duration(w, i + 8), 120, 680)

\* A short pulse with a long gap is 0, a long pulse with a short gap is 1.
IsBit00592TXR(hi, lo) ==
  /\ Within(hi, 120, 680) /\ Within(lo, 120, 680)
  /\ (hi < 290 /\ lo > 310) \/ (lo < 290 /\ hi > 310)

\* Mutant for SentIsReceived: the last pair is left out.
Bits00592TXRMutant(w, from) ==
  LET hi(k) == duration(w, from + 2 * k - 2)
      lo(k) == duration(w, from + 2 * k - 1)
      pairs == Min({64, (Len(w) - from) \div 2 - 1})
      bad == {k \in 1 .. pairs : ~IsBit00592TXR(hi(k), lo(k))}
  IN  [k \in 1 .. Min({pairs} \cup {b - 1 : b \in bad}) |-> IF hi(k) < 290 THEN 0 ELSE 1]

\* The bits from an index on: at most 64, up to the first pair that is none
Bits00592TXR(w, from) ==
  LET hi(k) == duration(w, from + 2 * k - 2)
      lo(k) == duration(w, from + 2 * k - 1)
      pairs == Min({64, (Len(w) - from) \div 2})
      bad == {k \in 1 .. pairs : ~IsBit00592TXR(hi(k), lo(k))}
  IN  [k \in 1 .. Min({pairs} \cup {b - 1 : b \in bad}) |-> IF hi(k) < 290 THEN 0 ELSE 1]

\* Mutant for AcceptedIsSent: the sum is not compared.
Check00592TXRMutant(bits) ==
  IF bits.size < 56 THEN 32 ELSE IF Parity(Slice(bits, 16, 32)) = 1 THEN 128 ELSE 0

\* What try_decode says of the bits: the bytes from the third on have even
\* parity, and the last byte is the sum of the others.
Check00592TXR(bits) ==
  IF bits.size < 56 THEN 32
  ELSE IF Parity(Slice(bits, 16, 32)) = 1 THEN 128
  ELSE IF getInt(bits, 48, 8) # SumOf(Groups(Slice(bits, 0, 48), 8)) % 256 THEN 129
  ELSE 0

\* try_decode at a sync sequence, and what decode does when it fails.  When it is
\* good the status of the message is not touched.
Try00592TXR(w, s, place) ==
  LET bits == addBits(clear(s.bits), Bits00592TXR(w, place + 8))
      status == Check00592TXR(bits)
      last == place + 2 + 121 > Len(w)
  IN  IF status = 0 THEN [s EXCEPT !.bits = bits, !.data = Slice(bits, 0, 56)]
      ELSE IF last THEN [s EXCEPT !.bits = bits,
                                  !.status = IF @ = 0 \/ HasChecksumError(status) THEN status ELSE @]
      ELSE [s EXCEPT !.bits = bits, !.status = KeptStatus(@, status)]

decode00592TXR(w, m) ==
  LET attempts == Attempts(Places(Len(w) - 121, LAMBDA i : IsSync00592TXR(w, i)),
                           LAMBDA s, i : Try00592TXR(w, s, i))
  IN  IF Len(w) < 121 THEN Rejected(m, 8)
      ELSE IF attempts.data # NoData
        THEN [Accepted(m, "00592TXR", attempts.data, 0) EXCEPT !.status = attempts.status]
      ELSE Rejected(m, IF attempts.status = 0 THEN 16 ELSE attempts.status)

-----------------------------------------------------------------------------
(* LaCrosse TX3/TX6/TX7                                                    *)

IsZeroTX7U(n) == Between(n, 1100, 1500)
IsOneTX7U(n) == Between(n, 400, 650)
IsGapTX7U(n) == Between(n, 800, 1200)

\* The eight bits that a message begins with
StartTX7U == <<0, 0, 0, 0, 1, 0, 1, 0>>

StartIndexTX7U(w) ==
  FirstOf({i \in Even(0, Len(w) - 87) :
    \A k \in 1 .. 8 :
      /\ IF StartTX7U[k] = 1 THEN IsOneTX7U(duration(w, i + 2 * k - 2)) ELSE IsZeroTX7U(duration(w, i + 2 * k - 2))
      /\ IsGapTX7U(duration(w, i + 2 * k - 1))})

\* The checks behind the decoding of the bits: something is sent, the first two
\* digits of the value are repeated, its parity and the sum of all nibbles
CheckTX7U(bits) ==
  IF \A k \in 9 .. 40 : bits[k] = 0 THEN 128
  ELSE IF SubSeq(bits, 21, 28) # SubSeq(bits, 33, 40) THEN 384
  ELSE IF Parity(SubSeq(bits, 20, 32)) = 1 THEN 640
  ELSE IF Value(SubSeq(bits, 41, 44)) # SumOf(Groups(SubSeq(bits, 1, 40), 4)) % 16 THEN 896
  ELSE 0

\* The data is stored in the message before it is checked.
decodeTX7U(w, m) ==
  LET start == StartIndexTX7U(w)
      pulse(k) == duration(w, start + 2 * k - 2)
      good == /\ \A k \in 1 .. 43 : IsGapTX7U(duration(w, start + 2 * k - 1))
              /\ \A k \in 1 .. 44 : IsZeroTX7U(pulse(k)) \/ IsOneTX7U(pulse(k))
      bits == [k \in 1 .. 44 |-> IF IsOneTX7U(pulse(k)) THEN 1 ELSE 0]
      status == CheckTX7U(bits)
  IN  IF ~Within(Len(w), 87, 240) THEN Rejected(m, 8)
      ELSE IF start = -1 THEN Rejected(m, 16)
      ELSE IF ~good THEN Rejected(m, 4)
      ELSE [Accepted(m, "TX7U", bits, 0) EXCEPT !.status = status, !.decoded = (status = 0)]

-----------------------------------------------------------------------------
(* Fine Offset Electronics WH2, Telldus FT007TH                            *)

\* A sequence of an FT007TH begins with an additional short pulse.
IsShortStartWH2(w, p) == Len(w) - p >= 97 /\ Within(duration(w, p), 180, 220)

\* Where the data begins when a preamble is looked for at p, -1 when it is not
\* there.  A bad item does not end the search, so that only the last of the
\* eight bits counts.
DataIndexWH2(w, p) ==
  LET begin == IF IsShortStartWH2(w, p) THEN p + 2 ELSE p
  IN  IF /\ IsShortStartWH2(w, p) => Between(duration(w, p + 1), 810, 1020)
         /\ Between(duration(w, begin + 14), 450, 1550)
         /\ Between(duration(w, begin + 15), 810, 1020)
      THEN begin + 16 ELSE -1

decodeWH2(w, m) ==
  LET preamble == FirstOf({p \in Even(0, Len(w) - 95) : DataIndexWH2(w, p) # -1})
      start == DataIndexWH2(w, preamble)
      pwm == decodePWM(w, start, Len(w) - start, 810, 1020, 450, 1550, 1000)
      bits == addBits(Bits, pwm.bits)
      data == Slice(bits, 0, 32)
  IN  IF Len(w) < 95 THEN Rejected(m, 8)
      ELSE IF preamble = -1 THEN Rejected(m, 16)
      ELSE IF ~pwm.success THEN Rejected(m, pwm.status)
      ELSE IF Slice(bits, 32, 8) # crc8(data) THEN Rejected(m, 128)
      ELSE IF getInt(bits, 0, 4) # 4 THEN Rejected(m, 384)
      ELSE Accepted(m, "WH2", data, IF IsShortStartWH2(w, preamble) THEN 1 ELSE 0)

-----------------------------------------------------------------------------
(* Auriol HG02832                                                          *)

IsPreambleHG02832(w, p) ==
  /\ Between(duration(w, p), 300, 450)
  /\ \A i \in {p + 1, p + 3, p + 5, p + 7} : Between(duration(w, i), 700, 850)
  /\ \A i \in {p + 2, p + 4, p + 6} : Between(duration(w, i), 850, 1000)

\* A pulse and its gap, which the last bit may be without
IsBitHG02832(w, i) ==
  /\ Within(duration(w, i), 150, 700)
  /\ i + 1 < Len(w) => /\ Within(duration(w, i + 1), 150, 700)
                       /\ Within(duration(w, i) + duration(w, i + 1), 750, 950)

CheckHG02832(bits) ==
  LET bytes == Groups(SubSeq(bits, 1, 32), 8)
  IN  IF \A k \in (9 .. 16) \cup (21 .. 32) : bits[k] = 0 THEN 384
      ELSE IF SubSeq(bits, 33, 40) # ShiftByte(FoldLeft(Xor, Binary(83, 8), bytes)) THEN 128
      ELSE 0

\* The data is stored in the message before it is checked.
decodeHG02832(w, m) ==
  LET preamble == FirstOf({p \in 0 .. Len(w) - 87 : IsPreambleHG02832(w, p)})
      pulse(k) == preamble + 8 + 2 * k - 2
      bits == [k \in 1 .. 40 |-> IF duration(w, pulse(k)) > 400 THEN 1 ELSE 0]
      status == CheckHG02832(bits)
  IN  IF Len(w) < 87 THEN Rejected(m, 8)
      ELSE IF preamble = -1 THEN Rejected(m, 16)
      ELSE IF \E k \in 1 .. 40 : ~IsBitHG02832(w, pulse(k)) THEN Rejected(m, 4)
      ELSE [Accepted(m, "HG02832", SubSeq(bits, 1, 32), 0)
              EXCEPT !.status = status, !.decoded = (status = 0)]

-----------------------------------------------------------------------------
(* Ambient Weather F007TH and F007TP                                       *)

LimitsF007TH ==
  [min_sequence_length |-> 85, min_bits |-> 56,
   low  |-> [short_min |-> 425, short_max |-> 660, long_min |-> 950, long_max |-> 1150],
   high |-> [short_min |-> 320, short_max |-> 600, long_min |-> 820, long_max |-> 1010]]

\* A message is eleven ones, 01 and an identifier of the device, and its last
\* six bits before that identifier are what the search is for.
IdF007TH == Binary(69, 8)
IdF007TP == Binary(70, 8)
ShortPreamble == <<1, 1, 1, 1, 0, 1>>
Preamble == <<1, 1, 1, 1, 1, 1, 1, 1>> \o Tail(ShortPreamble)

\* mask[k] is combined with the hash when bit k, of 40, is one.
HashMask[k \in 1 .. 40] ==
  LET previous == IF k = 1 THEN Binary(124, 8) ELSE HashMask[k - 1]
      rotated == <<previous[8]>> \o SubSeq(previous, 1, 7)
  IN  IF previous[8] = 1 THEN Xor(rotated, Binary(24, 8)) ELSE rotated

Hash(bits) ==
  FoldLeft(LAMBDA hash, k : IF bits[k] = 1 THEN Xor(hash, HashMask[k]) ELSE hash,
           Binary(100, 8), [k \in 1 .. 40 |-> k])

\* The index of data with a good hash, first for the message whose identifier is
\* at c, then for its repetitions; -1 when there is none.  The bits that are
\* compared with the preamble of a repetition begin 17 bits before c; the other
\* identifier is compared with the result of a comparison and never found.
GoodDataIndex(bits, c) ==
  LET found[i \in c .. bits.size] ==
        IF Slice(bits, i + 40, 8) = Hash(Slice(bits, i, 40)) THEN i + 8
        ELSE IF i + 65 + 48 < bits.size /\ Slice(bits, i + 65 - 17, 21) = Preamble \o IdF007TH
          THEN found[i + 65]
        ELSE -1
  IN  found[c]

\* Where the data begins when its preamble is at `index`: behind the preamble, or,
\* when the message was received from its middle on and ends before the next
\* preamble, in front of it; -1 when too few bits are there
DataIndex(bits, index) ==
  IF index + 56 < bits.size THEN index + 16
  ELSE IF index > 49 /\ Slice(bits, index - 9, 9) = Binary(31, 9) THEN index - 49
  ELSE IF index + 48 < bits.size THEN index + 16
  ELSE -1

\* The reading whose data is at `dataIndex`; `good` is where data with a good hash is.
ReadingAt(bits, dataIndex, good, variant) ==
  IF dataIndex = -1 THEN NoReading(32)
  ELSE IF dataIndex + 40 > bits.size THEN Reading(Slice(bits, dataIndex, 32), variant, 64)
  ELSE IF good = -1 THEN NoReading(128)
  ELSE Reading(Slice(bits, good, 32), variant, 0)

\* processDecodedBits, when the preamble of one of the devices is at `found`
ReadingFrom(bits, found, variant) ==
  LET dataIndex == DataIndex(bits, found - 2)
  IN  ReadingAt(bits, dataIndex, GoodDataIndex(bits, dataIndex - 8), variant)

processDecodedBits(bits) ==
  LET first45 == findBits(bits, ShortPreamble \o IdF007TH)
      first46 == findBits(bits, ShortPreamble \o IdF007TP)
  IN  IF bits.size < 56 THEN NoReading(8)
      ELSE IF first45 >= 0 THEN ReadingFrom(bits, first45, 0)
      ELSE IF first46 >= 0 THEN ReadingFrom(bits, first46, 1)
      ELSE NoReading(16)

\* What is made of the bits of one part of a sequence, which replace those of the
\* parts before it
AttemptF007TH(state, frame) ==
  LET bits == IF frame.success THEN addBits(clear(state.bits), frame.bits) ELSE state.bits
      enough == frame.success /\ Len(frame.bits) >= LimitsF007TH.min_bits
  IN  [bits |-> bits, reading |-> IF enough THEN processDecodedBits(bits) ELSE NoReading(frame.status)]

\* What decode leaves in the message with the reading of the last part
WithReading(m, reading) ==
  IF reading.data # NoData
  THEN [Accepted(m, "F007TH", reading.data, reading.variant) EXCEPT !.status = reading.status]
  ELSE [m EXCEPT !.decoded = FALSE, !.status = IF reading.status = 0 THEN 4 ELSE reading.status]

\* A message that already has a protocol is not decoded again; its status is the
\* one that the decoder thread has set before the call.
decodeF007TH(w, m) ==
  LET attempt(s, part) ==
        IF s.reading.data # NoData THEN s
        ELSE AttemptF007TH(s, decodeFrame(w, part.start, part.size, LimitsF007TH))
      last == FoldLeft(attempt, [bits |-> Bits, reading |-> NoReading(0)], decodeManchester(w, LimitsF007TH))
  IN  IF m.protocol # NULL THEN [m EXCEPT !.decoded = (m.protocol = "F007TH")]
      ELSE WithReading(m, last.reading)

-----------------------------------------------------------------------------
(* TFA 30.3049                                                             *)

\* The bits are sent lowest first; here the highest is first.
decodeTFA303049(w, m) ==
  LET ppm == decodePPM(w, 0, 73, 500, 125, 2000, 4000, 200)
      all == getReverse(addBits(Bits, ppm.bits), 0, 36)
      data == SubSeq(all, 5, 36)
  IN  IF Len(w) < 73 THEN Rejected(m, 8)
      ELSE IF ~ppm.success THEN Rejected(m, ppm.status)
      ELSE IF Value(SubSeq(all, 1, 4)) # SumOf(Groups(data, 4)) % 16 THEN Rejected(m, 128)
      ELSE IF data[1] = 0 THEN Rejected(m, 384)
      ELSE IF ~(data[9] = data[10] /\ data[10] = data[11]) THEN Rejected(m, 640)
      ELSE Accepted(m, "TFA303049", data, 0)

-----------------------------------------------------------------------------
(* LaCrosse TX141                                                          *)

IsPreambleTX141(w, p) == \A i \in p .. p + 7 : Within(duration(w, i), 720, 1000)

IsZeroTX141(hi, lo) == Within(hi, 140, 360) /\ Within(lo, 340, 630)
IsOneTX141(hi, lo) == Within(hi, 340, 560) /\ Within(lo, 160, 360)

\* try_decode at a preamble, and what decode does when it fails
TryTX141(w, s, preamble) ==
  LET hi(k) == duration(w, preamble + 8 + 2 * k - 2)
      lo(k) == duration(w, preamble + 8 + 2 * k - 1)
      isBit(k) == /\ Within(hi(k) + lo(k), 650, 820)
                  /\ IsZeroTX141(hi(k), lo(k)) \/ IsOneTX141(hi(k), lo(k))
      bad == {k \in 1 .. 40 : ~isBit(k)}
      n == Min({40} \cup {k - 1 : k \in bad})
      bits == addBits(clear(s.bits), [k \in 1 .. n |-> IF IsZeroTX141(hi(k), lo(k)) THEN 0 ELSE 1])
      crc == crc8(Slice(bits, 0, 32) \o Binary(0, 8))
      status == IF n < 40 THEN 32 ELSE IF crc # Slice(bits, 32, 8) THEN 128 ELSE 0
  IN  IF status = 0 THEN [s EXCEPT !.bits = bits, !.status = 0, !.data = Slice(bits, 0, 32)]
      ELSE [s EXCEPT !.bits = bits, !.status = KeptStatus(@, status)]

decodeTX141(w, m) ==
  LET attempts == Attempts(Places(Len(w) - 88, LAMBDA p : IsPreambleTX141(w, p)),
                           LAMBDA s, p : TryTX141(w, s, p))
  IN  IF Len(w) < 88 THEN Rejected(m, 8)
      ELSE IF attempts.data # NoData THEN Accepted(m, "TX141", attempts.data, 0)
      ELSE Rejected(m, IF attempts.status = 0 THEN 8 ELSE attempts.status)

-----------------------------------------------------------------------------
\* Protocol::decode of the protocol with the given name
decode(p, w, m) ==
  CASE p = "00592TXR"  -> decode00592TXR(w, m)
    [] p = "TX7U"      -> decodeTX7U(w, m)
    [] p = "WH2"       -> decodeWH2(w, m)
    [] p = "HG02832"   -> decodeHG02832(w, m)
    [] p = "F007TH"    -> decodeF007TH(w, m)
    [] p = "TFA303049" -> decodeTFA303049(w, m)
    [] p = "TX141"     -> decodeTX141(w, m)

\* The loop of the decoder thread: the enabled protocols are tried in the order of
\* their indices until one has decoded the message.
Decode(w, protocols) ==
  FoldLeft(LAMBDA m, p : IF m.decoded \/ p \notin protocols THEN m
                         ELSE decode(p, w, [m EXCEPT !.status = 0]),
           NewMessage, RFProtocols)
=============================================================================
