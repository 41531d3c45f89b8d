------------------------------ MODULE Reception ------------------------------
(***************************************************************************)
(* From the pulses of a sensor to the server: what the receiver hears is   *)
(* decoded (Receiver::decoder, Receiver::pollW1), the main loop            *)
(* (f007th_send.cpp) updates the stored data of the sensor                 *)
(* (SensorsData::update) and uploads what has changed (send).              *)
(*                                                                         *)
(* How sequences are recorded, messages queued, items ordered and rules    *)
(* applied is the subject of SequencePool, GpioTsReader, MessageQueue,     *)
(* SensorsData and Rules; here one message is on its way at a time.  All   *)
(* protocols are enabled, as they are unless the option `protocols` names  *)
(* some.  Printing to stdout (server type STDOUT) is left out, and what    *)
(* the server has is told in degrees Celsius.                              *)
(***************************************************************************)
EXTENDS Sensors, Decoders

CONSTANTS
  SensorGroups,    \* sets of sensors that are in range together
  ReadingsOf(_),   \* the readings a sensor may send
  FlippedBits,     \* places of the bits that are received wrong
  Configurations,  \* [changes_only, max_unchanged_gap, server_type, dump : arguments of `dump`]
  TICK, MAX_TIME,  \* the time is a multiple of TICK, in seconds
  NOISE_END,       \* disturbed messages are received until then
  NULL_SENSOR

ASSUME ReceptionAssumption ==
  /\ TICK \in Nat \ {0, 1} /\ MAX_TIME \in Nat
  /\ \A c \in Configurations : /\ c.server_type \in {"REST", "InfluxDB"}
                                /\ c.max_unchanged_gap \in Nat

MAX_SEQUENCE_LENGTH == 400
UNKNOWN == Id("UNKNOWN", 0, 0, 0)   \* the identifier of data that has no protocol
LOST == -9999     \* what is known of the server's value when an upload failed
NoReport == [t |-> NoValue, h |-> NoValue, time |-> NoValue]

AllSensors == UNION SensorGroups
Model(s) == ProtocolDefs[s.model]
SensorId(s) == getDefId(Model(s), s.channel, s.rc)

\* Sensors with the same identifier are one sensor to the program.
ASSUME SensorsAssumption ==
  \A group \in SensorGroups : \A s, o \in group : SensorId(s) = SensorId(o) => s = o

\* Sensors and readings are such as a message can tell.
ASSUME ReadingsAssumption ==
  \A s \in AllSensors :
    /\ s.model \in DOMAIN ProtocolDefs
    /\ s.channel \in Nat /\ s.rc \in Nat
    /\ s.model = "f00592txr" => s.channel \in 1 .. 3
    /\ \A r \in ReadingsOf(s) :
         /\ r.t \in Temperatures(s.model) /\ r.h \in Humidities(s.model) /\ r.ok \in BOOLEAN

-----------------------------------------------------------------------------
(* What may be heard                                                       *)

\* A TX7U sends temperature and humidity in turn.
WhatIsSent(s) == IF s.model = "tx6" THEN {"T", "H"} ELSE {"T"}

\* How reception disturbs a message, and the place of the bit that is flipped
Kinds == ({"clear", "longer", "shorter", "noise", "late", "middle"} \X {0}) \cup ({"flip one", "flip all"} \X FlippedBits)
Clear == <<"clear", 0>>

\* The waveform that is received of a message
Waveform(s, r, what, kind) ==
  LET data == DataOf(s, r, what)
      bits == BitsOf(s.model, data)
      copies(first, second) == IF Repeats(s.model) THEN <<first, second>> ELSE <<first>>
      wave == WaveOf(s.model, copies(bits, bits))
      skew == IF s.model = "ft007th" THEN 20 ELSE 40
  IN  CASE kind[1] = "clear"   -> wave
        [] kind[1] = "longer"  -> Skewed(wave, skew)
        [] kind[1] = "shorter" -> Skewed(wave, -skew)
        [] kind[1] = "noise"   -> <<300, 700>> \o wave
        [] kind[1] = "late"    -> SubSeq(wave, 21, Len(wave))
        [] kind[1] = "middle"  -> SubSeq(wave, 2 * (Len(wave) \div 8) + 1, (9 * Len(wave)) \div 10)
        [] OTHER -> LET wrong == Flip(bits, kind[2])
                    IN  WaveOf(s.model, copies(wrong, IF kind[1] = "flip one" THEN bits ELSE wrong))

\* What is modelled of a sequence that the receiver has recorded, and the message
\* that the decoder thread makes of it
Heard(s, r, what, kind, wave) ==
  [sensor |-> s, reading |-> r, what |-> what, kind |-> kind, length |-> Len(wave),
   shortest |-> Min(ToSet(wave)), longest |-> Max(ToSet(wave)), message |-> Decode(wave, ToSet(RFProtocols))]

Recorded(s, r, what, kind) == Heard(s, r, what, kind, Waveform(s, r, what, kind))

\* The file of a DS18B20 as pollW1 reads it: its value is in thousandths, and only
\* digits are expected.
Files == {"clear", "missing", "no crc", "no value"} \X {0}
PollW1(s, r, file) ==
  LET status == CASE file[1] = "missing" -> 1
                  [] file[1] = "no crc" -> 2
                  [] file[1] = "no value" -> 3
                  [] OTHER -> IF r.t < 0 THEN 4 ELSE 0
      data == Binary(IF status = 0 THEN r.t ELSE 0, 24)
  IN  [sensor |-> s, reading |-> r, what |-> "T", kind |-> file,
       message |-> [protocol |-> "DS18B20", data |-> data, variant |-> s.rc, status |-> status,
                    decoded |-> status = 0]]

IsRadio(s) == s.model # "ds18b20"
RadioRecords(s) == {Recorded(s, r, what, kind) : r \in ReadingsOf(s), what \in WhatIsSent(s), kind \in Kinds}
W1Records(s) == {PollW1(s, r, file) : r \in ReadingsOf(s), file \in Files}
RecordsOf == [s \in AllSensors |-> IF IsRadio(s) THEN RadioRecords(s) ELSE W1Records(s)]

Nothing == [kind |-> <<"nothing", 0>>]

-----------------------------------------------------------------------------
VARIABLES
  sensors,      \* the sensors in range
  config,       \* the options of the program, one of Configurations
  definitions,  \* the sensors that the configuration names
  now,
  heard,        \* the message on its way to the main loop
  items,        \* the stored data: records of Readings with the definition `def`
  server,       \* what the server has of each identifier: [t, h, and those of them, `unchecked`,
                \*   that came last in a message that had failed a check]
  last,         \* the last valid reading of each sensor the main loop has got
  reported      \* when an upload of a valid message was last tried for it

configVars == <<sensors, config, definitions>>
vars == <<configVars, now, heard, items, server, last, reported>>

\* The limits of the receiver with each configuration
LimitsOf == [c \in Configurations |-> ReceiverLimits(c.dump, RFProtocols)]

\* The receiver records sequences within its limits only; a DS18B20 has none.
Admitted(h, limits) ==
  IsRadio(h.sensor) =>
    /\ Within(h.length, limits.min_sequence_length, MAX_SEQUENCE_LENGTH)
    /\ h.shortest >= limits.min_duration
    /\ h.longest <= limits.max_duration

\* command_sensor and SensorDef::add refuse a channel or rolling code that the
\* protocol does not have, and a second sensor with the same identifier.
MayBeDefined(s, others) ==
  LET def == Model(s)
  IN  /\ def.number_of_channels > 0 => s.channel \in 1 .. def.number_of_channels
      /\ s.model # "ds18b20" => s.rc < 2 ^ def.rolling_code_size
      /\ \A o \in others \ {s} : SensorId(o) # SensorId(s)

Init ==
  /\ sensors \in SensorGroups
  /\ config \in Configurations
  /\ definitions \in {d \in SUBSET sensors : \A s \in d : MayBeDefined(s, d)}
  /\ now = 0 /\ heard = Nothing
  /\ items = {} /\ server = << >>
  /\ last = [s \in sensors |-> NoReport] /\ reported = [s \in sensors |-> NoValue]

\* A sensor sends one reading at a time, but may repeat it.
MaySend(s, r) == last[s].time = now => last[s].reading = r

\* The receiver records a sequence and the decoder thread makes a message of it, or
\* the pollster reads a file.
Receive(h) ==
  /\ heard = Nothing
  /\ MaySend(h.sensor, h.reading)
  /\ h.kind # Clear => now <= NOISE_END
  /\ Admitted(h, LimitsOf[config])
  /\ heard' = h
  /\ UNCHANGED <<configVars, now, items, server, last, reported>>

-----------------------------------------------------------------------------
(* The main loop                                                           *)

isUndecoded(m) == m.status % 64 # 0
isValid(m) == m.status = 0

SensorDataOf(m) ==
  [protocol |-> m.protocol, data |-> m.data, variant |-> m.variant, data_time |-> now,
   t |-> NoValue, h |-> NoValue]

\* SensorDef::find
FindDef(id) ==
  LET found == {s \in definitions : SensorId(s) = id}
  IN  IF found = {} THEN NULL_SENSOR ELSE CHOOSE s \in found : TRUE

WithDef(d, def) == [f \in DOMAIN d \cup {"def"} |-> IF f = "def" THEN def ELSE d[f]]

\* SensorsData::find
Find(d) == {i \in items : equals(d, i)}

\* SensorsData::update: the flags, and the items after it
UpdateItems(d) ==
  IF Find(d) = {}
  THEN [changed |-> getMetrics(d) \cup {NEW_UID},
        items |-> items \cup {WithDef(copyFields(d), FindDef(getId(d)))}]
  ELSE LET item == CHOOSE i \in Find(d) : TRUE
           updated == update(d, item, now, config.max_unchanged_gap)
       IN  [changed |-> updated.changed,
            items |-> (items \ {item}) \cup {WithDef(updated.item, item.def)}]

\* Mutant for ServerIsCurrent: a request has the humidity only when the temperature is the same.
UploadedMutant(d, changed) ==
  IF config.server_type = "REST" THEN getFeatures(d)
  ELSE IF "T" \in changed THEN {"T"} ELSE getFeatures(d) \cap changed

\* What send puts into the request: JSON has all values, an InfluxDB request those
\* that have changed.
Uploaded(d, changed) ==
  IF config.server_type = "REST" THEN getFeatures(d) ELSE getFeatures(d) \cap changed

Set(f, id, value) == [k \in DOMAIN f \cup {id} |-> IF k = id THEN value ELSE f[k]]

\* The server's data after a request with some values of d, which fails or not
ServerAfter(id, d, what, valid, success) ==
  LET old == IF id \in DOMAIN server THEN server[id]
             ELSE [t |-> NoValue, h |-> NoValue, unchecked |-> {}]
      value(v) == IF success THEN v ELSE LOST
      new == [t |-> IF "T" \in what THEN value(getTemperatureCx10(d)) ELSE old.t,
              h |-> IF "H" \in what THEN value(getHumidity(d)) ELSE old.h,
              unchecked |-> IF valid THEN old.unchecked \ what ELSE old.unchecked \cup what]
  IN  IF what = {} THEN server ELSE Set(server, id, new)

\* The same after a request with data that has no protocol: the values are those of
\* the getters then.
ServerAfterUnknown(success) ==
  Set(server, UNKNOWN, [t |-> IF success THEN -2732 ELSE LOST, h |-> IF success THEN 0 ELSE LOST,
                        unchecked |-> {"T", "H"}])

\* The reading that the main loop has got
Got(h, t, hum) ==
  LET old == last[h.sensor]
  IN  [t |-> IF h.what = "T" THEN t ELSE old.t, time |-> now, reading |-> h.reading,
       h |-> IF h.what = "H" \/ h.sensor.model # "tx6" THEN hum ELSE old.h]

\* The flags with which send is called: without changes_only unchanged data is sent,
\* too.
FlagsToSend(changed, valid) ==
  IF changed = {} /\ ~config.changes_only /\ (valid \/ config.server_type # "InfluxDB")
  THEN {"T", "H", "B"} ELSE changed

\* The values that are sent of a message; when only the time has changed nothing is.
Sent(d, changed) ==
  IF changed = TIME_NOT_CHANGED THEN {} ELSE Uploaded(d, FlagsToSend(changed, TRUE))

\* The upload of some values
Upload(d, what, success) ==
  /\ server' = ServerAfter(getId(d), d, what \ {"B"}, TRUE, success)
  /\ reported' = IF what = {} THEN reported ELSE [reported EXCEPT ![heard.sensor] = now]

\* The stored data after a message, and the upload
StoreAndUpload(d, updated, success) ==
  /\ items' = updated.items
  /\ Upload(d, Sent(d, updated.changed), success)

\* A valid message
HandleValid(success) ==
  LET d == SensorDataOf(heard.message)
  IN  /\ heard # Nothing /\ isValid(heard.message)
      /\ StoreAndUpload(d, UpdateItems(d), success)
      /\ last' = [last EXCEPT ![heard.sensor] = Got(heard, heard.reading.t, heard.reading.h)]
      /\ heard' = Nothing
      /\ UNCHANGED <<configVars, now>>

\* A message that has failed a check is not stored, but uploaded when unchanged data
\* is, too, to a REST server, with all its values.  It has a protocol, and so the
\* identifier of its sensor, when a decoder has gone on in spite of the check.
HandleCorrupted(success) ==
  LET d == SensorDataOf(heard.message)
  IN  /\ heard # Nothing /\ ~isValid(heard.message) /\ ~isUndecoded(heard.message)
      /\ server' = IF FlagsToSend({}, FALSE) = {} THEN server
                   ELSE IF d.protocol = NULL THEN ServerAfterUnknown(success)
                   ELSE ServerAfter(getId(d), d, getFeatures(d) \ {"B"}, FALSE, success)
      /\ heard' = Nothing
      /\ UNCHANGED <<configVars, now, items, last, reported>>

HandleUndecoded ==
  /\ heard # Nothing /\ isUndecoded(heard.message)
  /\ heard' = Nothing
  /\ UNCHANGED <<configVars, now, items, server, last, reported>>

Tick ==
  /\ heard = Nothing /\ now + TICK <= MAX_TIME
  /\ now' = now + TICK
  /\ UNCHANGED <<configVars, heard, items, server, last, reported>>

Next ==
  \/ \E s \in sensors : \E h \in RecordsOf[s] : Receive(h)
  \/ \E success \in BOOLEAN : HandleValid(success) \/ HandleCorrupted(success)
  \/ HandleUndecoded
  \/ Tick

Spec == Init /\ [][Next]_vars
-----------------------------------------------------------------------------
(* Properties                                                              *)

SentData == DataOf(heard.sensor, heard.reading, heard.what)
ItemOf(s) == {i \in items : getId(i) = SensorId(s)}

\* A WH2 and an FT007TH with the same rolling code, which equals takes for one
\* sensor (WH2.cpp); and the sensors in range that have no such twin
Twins(s, o) == <<s.model, o.model>> \in {<<"wh2", "ft007th">>, <<"ft007th", "wh2">>} /\ s.rc = o.rc
Singles == {s \in sensors : \A o \in sensors : ~Twins(s, o)}

\* The times are in order, and the names are those of the configuration.
TypeOK ==
  /\ now \in 0 .. MAX_TIME
  /\ \A s \in sensors : /\ last[s].time \in -1 .. now
                        /\ reported[s] \in -1 .. now
  /\ \A i \in items : /\ i.def \in definitions \cup {NULL_SENSOR}
                      /\ i.data_time \in 0 .. now

\* No decoder accepts what a sensor of another protocol has sent, or a message with
\* a wrong bit: a valid message has the protocol, the data and the identifier of its
\* sensor, whatever happened to its pulses (Receiver::decoder, Protocol::decode).
AcceptedIsSent ==
  heard # Nothing /\ isValid(heard.message) =>
    /\ heard.message.protocol = Model(heard.sensor).protocol
    /\ IsRadio(heard.sensor) => heard.message.data = SentData
    /\ getId(SensorDataOf(heard.message)) = SensorId(heard.sensor)

\* What is sent is received, also when its pulses are 40 microseconds longer or
\* shorter (20 for FT007TH, whose first pulse is a mark); when there are pulses
\* before it, by the protocols that look for a preamble; when its begin is lost, by
\* those that are sent twice, of which TX141 also recovers from a one that is
\* received as zero in the first copy.
SentIsReceived ==
  LET model == heard.sensor.model
      kind == heard.kind[1]
      bearable == \/ kind \in {"clear", "longer", "shorter"}
                  \/ kind = "noise" /\ model \notin {"wh2", "ft007th", "tfa303049", "ds18b20"}
                  \/ kind = "late" /\ Repeats(model)
                  \/ /\ kind = "flip one" /\ model = "tx141"
                     /\ BitsOf(model, SentData)[heard.kind[2]] = 1
      expressible == model = "ds18b20" => heard.reading.t >= 0
  IN  heard # Nothing /\ bearable /\ expressible => isValid(heard.message)

\* A message that is sent twice is received when one copy of it is right: the first
\* attempt is cleaned up before the next one (AcuRite00592TXR.cpp:173, "cleanup
\* before next attempt"; AmbientWeatherF007TH.cpp, "Try the next message").  The
\* code does not keep this.
RepetitionIsUsed ==
  heard # Nothing /\ heard.kind[1] = "flip one" /\ Repeats(heard.sensor.model) => isValid(heard.message)

\* A limit of the command `dump` never keeps a sequence of an enabled protocol from
\* being recorded (setLimits, enableReceive), with one exception: a length from 1 to
\* 16 is replaced by a longer one than the sequences of TFA303049 have.
LimitsAdmitAll ==
  config.dump.min_sequence_length \notin 1 .. 16 =>
    \A s \in sensors : \A h \in RecordsOf[s] : h.kind = Clear => Admitted(h, LimitsOf[config])

\* There is one item for each sensor that was heard, and its name is the one that
\* the configuration has for this sensor (command_sensor, getId, equals).
ItemsAreSensors ==
  \A s \in Singles : last[s] # NoReport =>
    \E i \in items : ItemOf(s) = {i} /\ i.def = IF s \in definitions THEN s ELSE NULL_SENSOR

\* What equals takes for the same sensor has the same identifier, although the two
\* read different bits, or is a twin's; and a valid message has a value for the
\* stored data, which ignores a message of a TX7U that is of another type (equals,
\* getId, getMetrics).
EqualsIsIdentity ==
  heard # Nothing /\ isValid(heard.message) =>
    LET d == SensorDataOf(heard.message)
        isOfTwin(i) == \E o \in sensors : Twins(heard.sensor, o) /\ i \in ItemOf(o)
    IN  /\ \A i \in items : equals(d, i) <=> (getId(d) = getId(i) \/ isOfTwin(i))
        /\ getMetrics(d) # {}

\* Five times what a temperature in Fahrenheit is wrong by, in tenths of a degree
ScaleError(i) == 5 * getTemperatureFx10(i) - 1600 - 9 * getTemperatureCx10(i)

\* Where the sign of a TFA303049 is extended by 32 bits too few
FahrenheitIsWrong(i) == LONG_BITS = 64 /\ i.protocol = "TFA303049" /\ getTemperatureCx10(i) < 0

\* The stored data of a sensor is its last valid reading, also when temperature and
\* humidity come in messages of their own; in both scales, with less than a tenth of
\* a degree lost, but for a TFA303049 below zero on a platform of 64 bits.
LatestIsStored ==
  \A s \in Singles : \A i \in ItemOf(s) :
    LET c == getTemperatureCx10(i)
        f == getTemperatureFx10(i)
    IN  /\ last[s].t # NoValue =>
             /\ hasTemperature(i)
             /\ ~FahrenheitIsWrong(i) => Between(ScaleError(i), -9, 9)
             /\ CASE s.model \in {"f007th", "f007tp"} -> f = last[s].t
                  [] s.model = "ds18b20" -> Within(100 * c - last[s].t, -50, 50)
                  [] OTHER -> c = last[s].t
        /\ last[s].h # NoValue /\ s.model \notin {"f007tp", "ds18b20"} =>
             hasHumidity(i) /\ getHumidity(i) = last[s].h

\* The server knows every sensor that is stored, and what it has of a value is the
\* last valid reading, unless the last request with this value has failed, or was
\* made of a message that had failed a check (f007th_send.cpp, the flags that update
\* returns).
ServerIsCurrent ==
  \A s \in Singles : \A i \in ItemOf(s) :
    /\ SensorId(s) \in DOMAIN server
    /\ LET known == server[SensorId(s)]
       IN  /\ last[s].t # NoValue /\ "T" \notin known.unchecked => known.t \in {LOST, getTemperatureCx10(i)}
           /\ last[s].h # NoValue /\ hasHumidity(i) /\ "H" \notin known.unchecked =>
                known.h \in {LOST, getHumidity(i)}

\* When a message of a sensor has come, its last upload was tried no longer than
\* max_unchanged_gap ago (update of the protocols).
ReportedInTime ==
  config.max_unchanged_gap > 0 =>
    \A s \in Singles : last[s].time - reported[s] <= config.max_unchanged_gap
=============================================================================
