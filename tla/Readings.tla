------------------------------ MODULE Readings ------------------------------
(***************************************************************************)
(* What the protocols know about the data of a sensor: the virtual methods *)
(* of class Protocol that take a SensorData (getId, the getters of values, *)
(* equals, copyFields, update) and the identifiers of the sensors that are *)
(* defined in the configuration.                                           *)
(*                                                                         *)
(* A SensorData is a record: `protocol`, the bits `data` of its u64,       *)
(* `variant` (the flag of F007TP and FT007TH in u32.hi, and the whole      *)
(* u32.hi of a DS18B20), `data_time`, and the two values t and h that the  *)
(* protocol TX7U merges in u32.hi (NoValue when their flag is not set).    *)
(***************************************************************************)
EXTENDS Protocol

CONSTANT LONG_BITS    \* the width of long where the program runs

\* build.sh knows platforms of both kinds.
ASSUME LongAssumption == LONG_BITS \in {32, 64}

NoValue == -1

\* The flags that update returns: "T" is TEMPERATURE_IS_CHANGED, "H"
\* HUMIDITY_IS_CHANGED, "B" BATTERY_STATUS_IS_CHANGED, which are the metrics, too.
AllFlags == {"T", "H", "B"}
NEW_UID == "new"
TIME_NOT_CHANGED == {"same time"}

\* Bits high .. low of the number that the bits are
Field(data, high, low) == Value(SubSeq(data, Len(data) - high, Len(data) - low))
Signed(v, n) == IF v >= 2 ^ (n - 1) THEN v - 2 ^ n ELSE v
Quotient(a, b) == IF a >= 0 THEN a \div b ELSE -((-a) \div b)    \* a / b of the code

reverse_2bits == <<0, 2, 1, 3>>

-----------------------------------------------------------------------------
(* The classes of protocols/.  The operator of a class tells what a method *)
(* of it returns for the data d: "getId", the values, "features" and       *)
(* "metrics"; "uid" are the fields that equals compares, "fields" those    *)
(* that update compares for each flag, "outdated" the flags that update    *)
(* returns after max_unchanged_gap whatever has changed, and "channels"    *)
(* the bits that getId has for a channel of the configuration.             *)

\* An identifier is the index of the protocol, the variant, channel and rolling code.
Id(p, variant, channel, rc) == <<p, variant, channel, rc>>

\* A definition of a sensor: _getProtocolDef
Def(p, variant, size, channels) ==
  [protocol |-> p, variant |-> variant, rolling_code_size |-> size, number_of_channels |-> channels]

FromOne(n) == [c \in 1 .. n |-> c - 1]
NoChannels == [c \in 0 .. 8 |-> 0]

Def00592TXR == Def("00592TXR", 4, 12, 3)
Class00592TXR(method, d) ==
  LET f(high, low) == Field(d.data, high, low)
  IN  CASE method = "getId"       -> Id("00592TXR", f(37, 32), f(55, 54), f(51, 40))
        [] method = "channels"    -> <<3, 2, 0>>
        [] method = "uid"         -> <<f(47, 40), f(55, 48)>>
        [] method = "Celsius"     -> f(22, 16) * 128 + f(14, 8) - 1000
        [] method = "humidity"    -> f(30, 24)
        [] method \in {"features", "metrics", "outdated"} -> AllFlags
        [] method = "fields"      -> [T |-> <<23, 8>>, H |-> <<31, 24>>, B |-> <<39, 32>>]

\* The sign of a WH2 is looked for behind the ten bits that are read.
DefWH2 == Def("WH2", 64, 8, 0)
DefFT007TH == Def("WH2", 65, 8, 0)
ClassWH2(method, d) ==
  LET f(high, low) == Field(d.data, high, low)
      t == f(17, 8)
  IN  CASE method = "getId"       -> Id("WH2", d.variant + 16 * f(31, 28), 0, f(27, 20))
        [] method = "channels"    -> NoChannels
        [] method = "uid"         -> <<f(27, 20)>>
        [] method = "Celsius"     -> IF (t \div 2048) % 2 = 1 THEN -(t % 2048) ELSE t
        [] method = "humidity"    -> f(6, 0)
        [] method \in {"features", "metrics", "outdated"} -> {"T", "H"}
        [] method = "fields"      -> [T |-> <<17, 8>>, H |-> <<7, 0>>]

DefHG02832 == Def("HG02832", 0, 8, 3)
ClassHG02832(method, d) ==
  LET f(high, low) == Field(d.data, high, low)
  IN  CASE method = "getId"       -> Id("HG02832", 0, f(14, 12), f(31, 24))
        [] method = "channels"    -> FromOne(3)
        [] method = "uid"         -> <<f(31, 24), f(13, 12)>>
        [] method = "Celsius"     -> Signed(f(11, 0), 12)
        [] method = "humidity"    -> f(23, 16)
        [] method \in {"features", "metrics"} -> AllFlags
        [] method = "outdated"    -> {"T", "H"}
        [] method = "fields"      -> [T |-> <<11, 0>>, H |-> <<23, 16>>, B |-> <<15, 15>>]

\* F007TP is F007TH without humidity, which its features have all the same.  The
\* battery status is tested with the bit of its flag, which is a bit of the humidity.
DefF007TH == Def("F007TH", 0, 8, 8)
DefF007TP == Def("F007TH", 1, 8, 8)
ClassF007TH(method, d) ==
  LET f(high, low) == Field(d.data, high, low)
  IN  CASE method = "getId"       -> Id("F007TH", d.variant, f(22, 20), f(31, 24))
        [] method = "channels"    -> FromOne(8)
        [] method = "uid"         -> <<f(31, 24), f(22, 20), d.variant>>
        [] method = "Celsius"     -> Quotient((f(19, 8) - 720) * 5, 9)
        [] method = "Fahrenheit"  -> f(19, 8) - 400
        [] method = "humidity"    -> IF d.variant = 0 THEN f(7, 0) ELSE 0
        [] method \in {"features", "outdated"} -> AllFlags
        [] method = "metrics"     -> IF d.variant = 0 THEN AllFlags ELSE {"T", "B"}
        [] method = "fields"      -> IF d.variant = 0 THEN [T |-> <<19, 8>>, H |-> <<7, 0>>, B |-> <<2, 2>>]
                                     ELSE [T |-> <<19, 8>>, B |-> <<2, 2>>]

\* The Fahrenheit of t tenths of a degree Celsius, as most protocols compute it
Converted(t) == Quotient(t * 90 + 25, 50) + 320

\* TFA303049 extends the sign with an unsigned literal: a negative t becomes t + 2^32
\* when a long has room for it.  Of the quotient (2^32 is 5 * 858993459 + 1) the lowest
\* 32 bits are returned, an int.
ConvertedTFA303049(t) ==
  IF t < 0 /\ LONG_BITS = 64 THEN (90 * (t + 1) + 25) \div 50 - 858993461 + 320 ELSE Converted(t)

DefTFA303049 == Def("TFA303049", 0, 6, 4)
ClassTFA303049(method, d) ==
  LET f(high, low) == Field(d.data, high, low)
  IN  CASE method = "getId"       -> Id("TFA303049", 0, f(5, 4), f(3, 0) + 16 * f(7, 6))
        [] method = "channels"    -> [c \in 1 .. 4 |-> reverse_2bits[1 + (c % 4)]]
        [] method = "uid"         -> <<f(7, 0)>>
        [] method = "Celsius"     -> Signed(f(23, 12), 12)
        [] method = "Fahrenheit"  -> ConvertedTFA303049(Signed(f(23, 12), 12))
        [] method = "humidity"    -> f(30, 24) - 28
        [] method \in {"features", "metrics"} -> AllFlags
        [] method = "outdated"    -> {"T", "H"}
        [] method = "fields"      -> [T |-> <<23, 12>>, H |-> <<30, 24>>, B |-> <<8, 8>>]

DefTX141 == Def("TX141", 0, 8, 4)
ClassTX141(method, d) ==
  LET f(high, low) == Field(d.data, high, low)
  IN  CASE method = "getId"       -> Id("TX141", 0, f(21, 20), f(31, 24))
        [] method = "channels"    -> FromOne(4)
        [] method = "uid"         -> <<f(31, 24), f(21, 20)>>
        [] method = "Celsius"     -> f(19, 8) - 500
        [] method = "humidity"    -> f(7, 0)
        [] method = "features"    -> AllFlags
        [] method \in {"metrics", "outdated"} -> {"T", "H"}
        [] method = "fields"      -> [T |-> <<19, 8>>, H |-> <<7, 0>>, B |-> <<23, 23>>]

\* A message of a TX7U has a type and one value, three decimal digits.
TypeTX7U(d) == Field(d.data, 35, 32)
Digits(d) == Field(d.data, 23, 20) * 100 + Field(d.data, 19, 16) * 10 + Field(d.data, 15, 12)
HumidityTX7U(d) == Field(d.data, 23, 20) * 10 + Field(d.data, 19, 16)

DefTX7U == Def("TX7U", 0, 7, 0)
ClassTX7U(method, d) ==
  LET rc == Field(d.data, 31, 25)
      sent == CASE TypeTX7U(d) = 0 -> {"T"} [] TypeTX7U(d) = 14 -> {"H"} [] OTHER -> {}
  IN  CASE method = "getId"       -> Id("TX7U", 0, 0, rc)
        [] method = "channels"    -> NoChannels
        [] method = "uid"         -> <<rc>>
        [] method = "Celsius"     -> (IF d.t # NoValue THEN d.t ELSE Digits(d)) - 500
        [] method = "humidity"    -> IF d.h # NoValue THEN d.h ELSE HumidityTX7U(d)
        [] method = "features"    -> sent \cup (IF d.t # NoValue THEN {"T"} ELSE {})
                                          \cup (IF d.h # NoValue THEN {"H"} ELSE {})
        [] method = "metrics"     -> sent

DefDS18B20 == Def("DS18B20", 0, 7, 0)
ClassDS18B20(method, d) ==
  CASE method = "getId"       -> Id("DS18B20", 0, 0, d.variant)
    [] method = "channels"    -> NoChannels
    [] method = "uid"         -> <<d.variant>>
    [] method = "Celsius"     -> Quotient(Value(d.data) + 50, 100)
    [] method = "Fahrenheit"  -> Quotient(Value(d.data) * 9 + 250, 500) + 320
    [] method \in {"features", "metrics"} -> {"T"}

\* The virtual method of the protocol p for the data d
Class(p, method, d) ==
  CASE p = "00592TXR"  -> Class00592TXR(method, d)
    [] p = "TX7U"      -> ClassTX7U(method, d)
    [] p = "WH2"       -> ClassWH2(method, d)
    [] p = "HG02832"   -> ClassHG02832(method, d)
    [] p = "F007TH"    -> ClassF007TH(method, d)
    [] p = "TFA303049" -> ClassTFA303049(method, d)
    [] p = "TX141"     -> ClassTX141(method, d)
    [] p = "DS18B20"   -> ClassDS18B20(method, d)

\* The ProtocolDefs by their names in the configuration
ProtocolDefs ==
  [f00592txr |-> Def00592TXR, tx6 |-> DefTX7U, wh2 |-> DefWH2, ft007th |-> DefFT007TH,
   hg02832 |-> DefHG02832, f007th |-> DefF007TH, f007tp |-> DefF007TP,
   tfa303049 |-> DefTFA303049, tx141 |-> DefTX141, ds18b20 |-> DefDS18B20]

\* getId of received data, and of a definition in the configuration
getId(d) == Class(d.protocol, "getId", d)
getDefId(def, channel, rc) ==
  Id(def.protocol, def.variant, Class(def.protocol, "channels", NoData)[channel], rc)

\* Mutant for ItemsAreSensors: only the first field of the identity is compared.
equalsMutant(s, p) ==
  p.protocol = s.protocol /\ Head(Class(p.protocol, "uid", p)) = Head(Class(s.protocol, "uid", s))

equals(s, p) == p.protocol = s.protocol /\ Class(p.protocol, "uid", p) = Class(s.protocol, "uid", s)

getFeatures(d) == Class(d.protocol, "features", d)
getMetrics(d) == Class(d.protocol, "metrics", d)
getHumidity(d) == Class(d.protocol, "humidity", d)

hasTemperature(d) == d.protocol = "TX7U" => "T" \in getFeatures(d)
hasHumidity(d) == "H" \in getFeatures(d) /\ (d.protocol = "F007TH" => d.variant = 0)

\* In tenths of a degree
getTemperatureCx10(d) == Class(d.protocol, "Celsius", d)
getTemperatureFx10(d) ==
  IF d.protocol \in {"F007TH", "TFA303049", "DS18B20"} THEN Class(d.protocol, "Fahrenheit", d)
  ELSE Converted(getTemperatureCx10(d))

-----------------------------------------------------------------------------
(* The stored data                                                         *)

\* Mutant for TypeOK: the time is not copied.
copyFieldsMutant(from) == [from EXCEPT !.data_time = NoValue]

\* copyFields to a new object, which is all zeros before
copyFields(from) ==
  IF from.protocol # "TX7U" THEN from
  ELSE CASE TypeTX7U(from) = 0  -> [from EXCEPT !.t = Digits(from)]
         [] TypeTX7U(from) = 14 -> [from EXCEPT !.h = HumidityTX7U(from)]
         [] OTHER               -> [from EXCEPT !.data = Binary(0, 44)]

Updated(changed, item) == [changed |-> changed, item |-> item]
Differ(s, item, high, low) == Field(s.data, high, low) # Field(item.data, high, low)

\* The flags of the fields that differ
Differences(s, item) ==
  LET fields == Class(s.protocol, "fields", s)
  IN  {flag \in DOMAIN fields : Differ(s, item, fields[flag][1], fields[flag][2])}

\* What is reported when the data has not been reported for max_unchanged_gap: in
\* two protocols also the battery status when it has changed
Outdated(s, item) ==
  Class(s.protocol, "outdated", s)
    \cup (IF s.protocol \in {"HG02832", "TFA303049"} THEN Differences(s, item) \cap {"B"} ELSE {})

\* Mutant for ReportedInTime: data that has not changed renews the time of the last report.
updateWordMutant(s, item, data_time, max_unchanged_gap) ==
  LET gap == data_time - item.data_time
      changed == IF max_unchanged_gap > 0 /\ gap > max_unchanged_gap
                 THEN Outdated(s, item) ELSE Differences(s, item)
  IN  IF gap < 2 THEN Updated(TIME_NOT_CHANGED, item)
      ELSE Updated(changed, [s EXCEPT !.data_time = data_time])

\* update of these protocols
updateWord(s, item, data_time, max_unchanged_gap) ==
  LET gap == data_time - item.data_time
      changed == IF max_unchanged_gap > 0 /\ gap > max_unchanged_gap
                 THEN Outdated(s, item) ELSE Differences(s, item)
  IN  IF gap < 2 THEN Updated(TIME_NOT_CHANGED, item)
      ELSE IF changed = {} THEN Updated({}, item)
      ELSE Updated(changed, [s EXCEPT !.data_time = data_time])

\* update of TX7U and DS18B20, which have one value in a message: `same` tells that
\* it is the stored one, `stored` is the item with the new one.
updateValue(flag, same, stored, item, data_time, max_unchanged_gap) ==
  LET gap == data_time - item.data_time
  IN  IF ~same THEN Updated({flag}, [stored EXCEPT !.data_time = data_time])
      ELSE IF gap < 2 THEN Updated(TIME_NOT_CHANGED, item)
      ELSE IF max_unchanged_gap = 0 \/ gap < max_unchanged_gap THEN Updated({}, item)
      ELSE Updated({flag}, [item EXCEPT !.data_time = data_time])

\* Mutant for LatestIsStored: the message replaces what is stored.
updateTX7UMutant(s, item, data_time, max_unchanged_gap) ==
  CASE TypeTX7U(s) = 0 ->
         updateValue("T", item.t = Digits(s), [s EXCEPT !.t = Digits(s)], item, data_time, max_unchanged_gap)
    [] TypeTX7U(s) = 14 ->
         updateValue("H", item.h = HumidityTX7U(s), [s EXCEPT !.h = HumidityTX7U(s)],
                     item, data_time, max_unchanged_gap)
    [] OTHER -> Updated({}, item)

\* update of TX7U: the stored data keeps the type of its first message.
updateTX7U(s, item, data_time, max_unchanged_gap) ==
  LET merged == [item EXCEPT !.data = SubSeq(@, 1, 12) \o SubSeq(s.data, 13, 44)]
  IN  CASE TypeTX7U(s) = 0 ->
             updateValue("T", item.t = Digits(s), [merged EXCEPT !.t = Digits(s)],
                         item, data_time, max_unchanged_gap)
        [] TypeTX7U(s) = 14 ->
             updateValue("H", item.h = HumidityTX7U(s), [merged EXCEPT !.h = HumidityTX7U(s)],
                         item, data_time, max_unchanged_gap)
        [] OTHER -> Updated({}, item)

\* Protocol::update: the flags it returns and the item it leaves
update(s, item, data_time, max_unchanged_gap) ==
  CASE s.protocol = "TX7U"    -> updateTX7U(s, item, data_time, max_unchanged_gap)
    [] s.protocol = "DS18B20" -> updateValue("T", s.data = item.data, [item EXCEPT !.data = s.data],
                                             item, data_time, max_unchanged_gap)
    [] OTHER                  -> updateWord(s, item, data_time, max_unchanged_gap)
=============================================================================
