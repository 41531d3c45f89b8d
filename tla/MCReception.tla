----------------------------- MODULE MCReception -----------------------------
(* Instances of Reception for TLC: every model on its own, neighbours with *)
(* the same rolling code or on the same channel, and twins.                *)
EXTENDS Reception

Sensor(model, channel, rc) == [model |-> model, channel |-> channel, rc |-> rc]

Alone ==
  {Sensor("f00592txr", 3, 1000), Sensor("tx6", 0, 77), Sensor("wh2", 0, 200), Sensor("ft007th", 0, 200),
   Sensor("hg02832", 2, 170), Sensor("f007th", 3, 90), Sensor("f007tp", 3, 90),
   Sensor("tfa303049", 2, 37), Sensor("tx141", 2, 180), Sensor("ds18b20", 0, 1253)}

Neighbours ==
  { {Sensor("f007th", 3, 91), Sensor("f007tp", 3, 91)},
    {Sensor("f00592txr", 1, 1000), Sensor("f00592txr", 3, 1000)},
    {Sensor("tx141", 1, 180), Sensor("tx141", 4, 180)} }

MCTwins == {Sensor("wh2", 0, 201), Sensor("ft007th", 0, 201)}

MCSensorGroups == {{s} : s \in Alone} \cup Neighbours \cup {MCTwins}

R(t, h, ok) == [t |-> t, h |-> h, ok |-> ok]

\* WH2 does not see a minus.
Cold(s) == IF s.model \in {"wh2", "ft007th"} THEN 75 ELSE -75

MCReadingsOf(s) ==
  IF s.model = "ds18b20" THEN {R(19875, 0, TRUE), R(250, 0, TRUE), R(-1250, 0, TRUE)}
  ELSE IF s \in Alone THEN {R(215, 45, TRUE), R(215, 60, TRUE), R(Cold(s), 60, FALSE)}
  ELSE (IF s.channel = 1 THEN {} ELSE {R(Cold(s), 93, FALSE)})
         \cup (IF s.channel = 1 \/ s.model \in {"f007tp", "wh2"} THEN {R(215, 45, TRUE)} ELSE {})

Dump(min, max, length) == [min_duration |-> min, max_duration |-> max, min_sequence_length |-> length]
Configuration(changes_only, gap, server_type, dump) ==
  [changes_only |-> changes_only, max_unchanged_gap |-> gap, server_type |-> server_type, dump |-> dump]

MCConfigurations ==
  { Configuration(TRUE, 0, "REST", Dump(0, 0, 0)), Configuration(TRUE, 30, "InfluxDB", Dump(1000, 100, 500)),
    Configuration(FALSE, 0, "InfluxDB", Dump(10, 20000, 10)), Configuration(FALSE, 30, "REST", Dump(5000, 5000, 90)) }
=============================================================================
