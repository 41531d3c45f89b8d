------------------------------ MODULE Sensors -------------------------------
(***************************************************************************)
(* The radio sensors, which are not part of the program: the data of a     *)
(* reading and the pulses that a sensor sends for it, as the decoders of   *)
(* protocols/ expect them, with the durations in the middle of what a      *)
(* decoder accepts; and what reception does to the pulses.                 *)
(*                                                                         *)
(* A reading has a temperature t in tenths of a degree (Fahrenheit for     *)
(* F007TH, else Celsius), a humidity h and a battery status ok.  A sensor  *)
(* has a model, which is the name of its protocol in the configuration, a  *)
(* channel and a rolling code.                                             *)
(***************************************************************************)
EXTENDS Readings

\* The values that the bits of a message have room for.  The sign of a WH2 is not read.
Thousandths == -(2 ^ 24) .. 2 ^ 24 - 1    \* of a DS18B20
Temperatures(model) ==
  IF model = "f00592txr" THEN -1000 .. 15383
  ELSE IF model = "tx6" THEN -500 .. 499
  ELSE IF model \in {"wh2", "ft007th"} THEN 0 .. 1023
  ELSE IF model \in {"hg02832", "tfa303049"} THEN -2048 .. 2047
  ELSE IF model \in {"f007th", "f007tp"} THEN -400 .. 3695
  ELSE IF model = "tx141" THEN -500 .. 3595
  ELSE Thousandths
Humidities(model) ==
  IF model \in {"f00592txr", "wh2", "ft007th"} THEN 0 .. 127
  ELSE IF model \in {"hg02832", "f007th", "f007tp", "tx141"} THEN 0 .. 255
  ELSE IF model = "tfa303049" THEN -28 .. 99
  ELSE IF model = "tx6" THEN 0 .. 99
  ELSE {0}

BatteryBit(ok) == <<IF ok THEN 0 ELSE 1>>

\* The digits of a number below 1000, four bits each
Decimal(v) == Binary(v \div 100, 4) \o Binary((v \div 10) % 10, 4) \o Binary(v % 10, 4)

EvenParity(bits) == <<Parity(bits)>> \o bits

\* The bits of a message of a TX7U with a value of a type
MessageTX7U(rc, type, v) ==
  LET digits == Decimal(v)
      body == Binary(10, 8) \o Binary(type, 4) \o Binary(rc, 7) \o <<Parity(digits)>>
                \o digits \o SubSeq(digits, 1, 8)
  IN  body \o Binary(SumOf(Groups(body, 4)), 4)

\* The data that a sensor sends for a reading, as getters read it.  A TX7U sends
\* temperature (what = "T") and humidity in messages of their own.
DataOf(s, r, what) ==
  CASE s.model = "f00592txr" ->
         LET status == <<0, IF r.ok THEN 1 ELSE 0>> \o Binary(4, 6)
             even(v) == EvenParity(Binary(v, 7))
             body == Binary(<<3, 2, 0>>[s.channel], 2) \o Binary(s.rc, 14)
                       \o <<Parity(status)>> \o Tail(status)
                       \o even(r.h) \o even((r.t + 1000) \div 128) \o even((r.t + 1000) % 128)
         IN  body \o Binary(SumOf(Groups(body, 8)), 8)
    [] s.model = "tx6" ->
         IF what = "T" THEN MessageTX7U(s.rc, 0, r.t + 500) ELSE MessageTX7U(s.rc, 14, r.h * 10)
    [] s.model \in {"wh2", "ft007th"} ->
         Binary(4, 4) \o Binary(s.rc, 8) \o (IF r.t < 0 THEN <<1, 0>> ELSE <<0, 0>>)
           \o Binary(IF r.t < 0 THEN -r.t ELSE r.t, 10) \o Binary(r.h, 8)
    [] s.model = "hg02832" ->
         Binary(s.rc, 8) \o Binary(r.h, 8) \o BatteryBit(r.ok) \o <<0>> \o Binary(s.channel - 1, 2)
           \o Binary(r.t, 12)
    [] s.model \in {"f007th", "f007tp"} ->
         Binary(s.rc, 8) \o BatteryBit(r.ok) \o Binary(s.channel - 1, 3) \o Binary(r.t + 400, 12)
           \o Binary(r.h, 8)
    [] s.model = "tfa303049" ->
         <<1>> \o Binary(r.h + 28, 7) \o Binary(r.t, 12) \o <<0, 0, 0>> \o BatteryBit(r.ok)
           \o Binary(s.rc \div 16, 2) \o Binary(reverse_2bits[1 + (s.channel % 4)], 2) \o Binary(s.rc % 16, 4)
    [] s.model = "tx141" ->
         Binary(s.rc, 8) \o BatteryBit(r.ok) \o <<0>> \o Binary(s.channel - 1, 2)
           \o Binary(r.t + 500, 12) \o Binary(r.h, 8)

-----------------------------------------------------------------------------
(* Pulses                                                                  *)

Repeated(n, s) == [k \in 1 .. n * Len(s) |-> s[1 + ((k - 1) % Len(s))]]
Pulses(bits, zero, one) ==
  LET n == Len(zero)
  IN  [k \in 1 .. n * Len(bits) |-> (IF bits[1 + ((k - 1) \div n)] = 0 THEN zero ELSE one)[1 + ((k - 1) % n)]]

\* Manchester code: the levels of the two halves of each bit, and the durations of
\* the runs of equal levels
Manchester(bits) ==
  LET levels == Pulses(bits, <<0, 1>>, <<1, 0>>)
      indices == [k \in DOMAIN levels |-> k]
      starts == SelectSeq(indices, LAMBDA k : k = 1 \/ levels[k] # levels[k - 1])
      run(j) == (IF j < Len(starts) THEN starts[j + 1] ELSE Len(levels) + 1) - starts[j]
  IN  [j \in DOMAIN starts |->
         IF levels[starts[j]] = 1 THEN 460 * run(j) ELSE IF run(j) = 1 THEN 540 ELSE 1040]

\* The bits of the checksum behind the data
ChecksumHG02832(data) == ShiftByte(FoldLeft(Xor, Binary(83, 8), Groups(data, 8)))

\* HashMask and the start value as in the decoder of F007TH
MaskF007TH[k \in 1 .. 40] ==
  LET previous == IF k = 1 THEN Binary(124, 8) ELSE MaskF007TH[k - 1]
      rotated == <<previous[8]>> \o SubSeq(previous, 1, 7)
  IN  IF previous[8] = 1 THEN Xor(rotated, Binary(24, 8)) ELSE rotated

FrameF007TH(id, data) ==
  LET body == id \o data
      hash == FoldLeft(LAMBDA h, k : IF body[k] = 1 THEN Xor(h, MaskF007TH[k]) ELSE h,
                       Binary(100, 8), [k \in 1 .. 40 |-> k])
  IN  Binary(8189, 13) \o body \o hash \o Binary(0, 4)

\* The bits of a transmission, the checksum included
BitsOf(model, data) ==
  CASE model = "f00592txr"            -> data
    [] model = "tx6"                  -> data
    [] model \in {"wh2", "ft007th"}   -> data \o crc8(data)
    [] model = "hg02832"              -> data \o ChecksumHG02832(data)
    [] model = "f007th"               -> FrameF007TH(Binary(69, 8), data)
    [] model = "f007tp"               -> FrameF007TH(Binary(70, 8), data)
    [] model = "tfa303049"            -> Reverse(Binary(SumOf(Groups(data, 4)), 4) \o data)
    [] model = "tx141"                -> data \o crc8(data \o Binary(0, 8))

\* The models that send a message more than once without a pause
Repeats(model) == model \in {"f00592txr", "f007th", "f007tp", "tx141"}

\* The pulses of the copies of a message, whose bits may differ from each other
WaveOf(model, copies) ==
  LET bits == copies[1]
      each(Pulse(_)) == FlattenSeq([k \in DOMAIN copies |-> Pulse(copies[k])])
  IN  CASE model = "f00592txr" ->
             each(LAMBDA b : Repeated(4, <<600, 600>>) \o Pulses(b, <<200, 400>>, <<400, 200>>)) \o <<400>>
        [] model = "tx6"       -> Front(Pulses(bits, <<1400, 1000>>, <<550, 1000>>))
        [] model = "wh2"       -> Front(Pulses(Binary(255, 8) \o bits, <<1450, 900>>, <<500, 900>>))
        [] model = "ft007th"   -> <<200, 900>> \o Front(Pulses(Binary(255, 8) \o bits, <<1450, 900>>, <<500, 900>>))
        [] model = "hg02832"   -> <<375, 775, 925, 775, 925, 775, 925, 775>> \o Front(Pulses(bits, <<250, 600>>, <<600, 250>>))
        [] model \in {"f007th", "f007tp"} -> Manchester(FlattenSeq(copies))
        [] model = "tfa303049" -> Pulses(bits, <<500, 2000>>, <<500, 4000>>) \o <<500>>
        [] model = "tx141"     -> each(LAMBDA b : Repeated(8, <<833>>) \o Pulses(b, <<250, 485>>, <<450, 260>>))

\* A bit of the data, or of the checksum, is received wrong.
Flip(bits, k) == [bits EXCEPT ![k] = 1 - @]

\* What reception does to the pulses: high ones are longer and low ones shorter, or
\* the other way round; pulses that are no part of the message come before it.
Skewed(w, d) == [k \in DOMAIN w |-> IF k % 2 = 1 THEN w[k] + d ELSE w[k] - d]
=============================================================================
