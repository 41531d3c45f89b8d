---------------------------- MODULE SensorsData ----------------------------
(***************************************************************************)
(* The store of the latest readings, SensorsData in common/SensorsData.hpp *)
(* with INCLUDE_HTTPD: the main loop updates it with every valid message,  *)
(* the threads of the HTTP server read it at any time.                     *)
(*                                                                         *)
(* `items` is guarded by items_mutex and every history by its own mutex;   *)
(* SensorsData::update is cut between those critical sections.  The        *)
(* sensors are DS18B20, so a reading is a temperature and update is the    *)
(* one of that protocol; equals and getId tell the sensors apart.          *)
(***************************************************************************)
EXTENDS History, FiniteSets, SequencesExt

CONSTANTS
  Sensors,            \* sensors that can be received
  NULL,
  Definition,         \* index of the SensorDef of a sensor, 0 when undefined
  Values,             \* temperatures
  Capacities,         \* capacities the store may be made with, 32 in the program
  MIN_GAP,            \* 2 in the program: a reading this early is a repeated one
  max_unchanged_gap,
  MAX_TIME,           \* bound: time stops here
  MAX_RECORDS         \* bound: no message of a sensor with so long a history

ASSUME StoreAssumption ==
  /\ Definition \in [Sensors -> Nat]
  /\ Capacities \subseteq Nat
  /\ HISTORY_DEPTH \in Nat /\ MIN_GAP \in Nat \ {0} /\ max_unchanged_gap \in Nat
  /\ MAX_TIME \in Nat \ {0} /\ MAX_RECORDS \in Nat

VARIABLES
  now,
  capacity,
  items,        \* SensorsData::items, from 0 to size
  value,        \* the temperature stored in an item
  data_time,    \* the time stored in an item
  history,      \* the temperatureHistory of an item
  defData,      \* SensorDef::data: whether the definition of a sensor knows its item
  pc, sensor, reading, item

itemVars == <<capacity, items, value, data_time>>
mainVars == <<pc, sensor, reading, item>>
vars == <<now, itemVars, history, defData, mainVars>>

Stored == ToSet(items)
Defined(s) == Definition[s] # 0

\* Records have a value and a time, and `last` is NULL or one of them.
TypeOK ==
  /\ now \in 1 .. MAX_TIME
  /\ capacity \in Capacities
  /\ items \in Seq(Sensors)
  /\ value \in [Sensors -> Values \cup {NULL}]
  /\ data_time \in [Sensors -> 0 .. MAX_TIME]
  /\ \A s \in Sensors : /\ history[s].records \in Seq([time : 1 .. MAX_TIME, value : Values])
                        /\ history[s].last \in 0 .. Len(history[s].records)
                        /\ history[s].count \in Nat
  /\ defData \in [Sensors -> BOOLEAN]
  /\ pc \in {"idle", "add", "first", "record", "crashed"}
  /\ sensor \in Sensors \cup {NULL}
  /\ reading \in Values \cup {NULL}
  /\ item \in Sensors \cup {NULL}

Init ==
  /\ now = 1
  /\ capacity \in Capacities
  /\ items = << >>
  /\ value = [s \in Sensors |-> NULL]
  /\ data_time = [s \in Sensors |-> 0]
  /\ history = [s \in Sensors |-> NoHistory]
  /\ defData = [s \in Sensors |-> FALSE]
  /\ pc = "idle"
  /\ sensor = NULL
  /\ reading = NULL
  /\ item = NULL

Tick ==
  /\ now < MAX_TIME
  /\ now' = now + 1
  /\ UNCHANGED <<itemVars, history, defData, mainVars>>

-----------------------------------------------------------------------------
(* The main loop: SensorsData::update with reading v of sensor s           *)

Gap(s) == now - data_time[s]

\* A message of sensor s is at the head of the queue.
Receive(s) == pc = "idle" /\ Len(history[s].records) < MAX_RECORDS

\* find has no item: the item is made and filled before it is added.
UpdateUnknown(s, v) ==
  /\ Receive(s) /\ s \notin Stored
  /\ value' = [value EXCEPT ![s] = v]
  /\ data_time' = [data_time EXCEPT ![s] = now]
  /\ pc' = "add" /\ sensor' = s /\ reading' = v
  /\ UNCHANGED <<now, capacity, items, history, defData, item>>

\* Protocol::update when the temperature is the stored one
UpdateSame(s, v) ==
  /\ Receive(s) /\ s \in Stored /\ v = value[s]
  /\ Gap(s) >= MIN_GAP /\ max_unchanged_gap # 0 /\ Gap(s) >= max_unchanged_gap
  /\ data_time' = [data_time EXCEPT ![s] = now]
  /\ pc' = "record" /\ sensor' = s /\ reading' = v /\ item' = s
  /\ UNCHANGED <<now, capacity, items, value, history, defData>>

\* Mutant for HistoryIsCurrent: an early reading is stored and not recorded.
UpdateChangedMutant(s, v) ==
  /\ Receive(s) /\ s \in Stored /\ v # value[s]
  /\ data_time' = [data_time EXCEPT ![s] = now]
  /\ value' = [value EXCEPT ![s] = v]
  /\ IF Gap(s) < MIN_GAP THEN UNCHANGED mainVars
     ELSE pc' = "record" /\ sensor' = s /\ reading' = v /\ item' = s
  /\ UNCHANGED <<now, capacity, items, history, defData>>

\* Protocol::update with another temperature
UpdateChanged(s, v) ==
  /\ Receive(s) /\ s \in Stored /\ v # value[s]
  /\ data_time' = [data_time EXCEPT ![s] = now]
  /\ value' = [value EXCEPT ![s] = v]
  /\ pc' = "record" /\ sensor' = s /\ reading' = v /\ item' = s
  /\ UNCHANGED <<now, capacity, items, history, defData>>

\* Mutant for SortedByDefinition: items without a definition are not passed over.
InsertPositionMutant(d) ==
  LET before == {k \in 1 .. Len(items) : Definition[items[k]] <= d}
  IN  IF d = 0 THEN Len(items) + 1
      ELSE IF before = {} THEN 1
      ELSE 1 + CHOOSE k \in before : \A e \in before : e <= k

\* Where add puts a new item with definition d: after the items that are defined
\* before it, and at the end when it has no definition.
InsertPosition(d) ==
  LET before == {k \in 1 .. Len(items) : Defined(items[k]) /\ Definition[items[k]] <= d}
  IN  IF d = 0 THEN Len(items) + 1
      ELSE IF before = {} THEN 1
      ELSE 1 + CHOOSE k \in before : \A e \in before : e <= k

\* The critical section of SensorsData::add
AddItem ==
  /\ pc = "add"
  /\ Len(items) + 1 <= capacity
  /\ items' = InsertAt(items, InsertPosition(Definition[sensor]), sensor)
  /\ item' = sensor
  /\ pc' = "first"
  /\ UNCHANGED <<now, capacity, value, data_time, history, defData, sensor, reading>>

\* The array is full: add returns NULL when realloc gives it a larger one.
AddFails ==
  /\ pc = "add"
  /\ Len(items) + 1 > capacity
  /\ item' = NULL
  /\ pc' = "record"
  /\ UNCHANGED <<now, itemVars, history, defData, sensor, reading>>

\* The end of SensorsData::add, without items_mutex
AddFirstRecord ==
  /\ pc = "first"
  /\ history' = IF ~Defined(item) THEN history
                ELSE [history EXCEPT ![item] = AddRecord(@, [time |-> data_time[item], value |-> value[item]])]
  /\ pc' = "record"
  /\ UNCHANGED <<now, itemVars, defData, sensor, reading, item>>

\* update takes item->def without looking whether add has returned NULL.
NullItem ==
  /\ pc = "record" /\ item = NULL
  /\ pc' = "crashed"
  /\ UNCHANGED <<now, itemVars, history, defData, sensor, reading, item>>

TruncateHistory ==
  /\ pc = "record" /\ item # NULL
  /\ history' = IF ~Defined(item) THEN history
                ELSE [history EXCEPT ![item] =
                        AddRecord(Truncate(@, now - HISTORY_DEPTH),
                                  [time |-> data_time[item], value |-> value[item]])]
  /\ pc' = "idle" /\ sensor' = NULL /\ reading' = NULL /\ item' = NULL
  /\ UNCHANGED <<now, itemVars, defData>>

-----------------------------------------------------------------------------
(* The threads of the HTTP server                                          *)

\* SensorsData::find(SensorDef*) remembers the item in the definition.
FindByDefinition(s) ==
  /\ Defined(s) /\ ~defData[s] /\ s \in Stored
  /\ defData' = [defData EXCEPT ![s] = TRUE]
  /\ UNCHANGED <<now, itemVars, history, mainVars>>

\* History::get for a request without the parameter from; get with one changes
\* nothing.
GetHistory(s) ==
  /\ defData[s]
  /\ history' = [history EXCEPT ![s] = AfterGet(@, 0, now)]
  /\ UNCHANGED <<now, itemVars, defData, mainVars>>

-----------------------------------------------------------------------------
Next ==
  \/ Tick
  \/ \E s \in Sensors, v \in Values :
       UpdateUnknown(s, v) \/ UpdateSame(s, v) \/ UpdateChanged(s, v)
  \/ AddItem \/ AddFails \/ AddFirstRecord \/ NullItem \/ TruncateHistory
  \/ \E s \in Sensors : FindByDefinition(s) \/ GetHistory(s)

Spec == Init /\ [][Next]_vars

-----------------------------------------------------------------------------
(* Properties                                                              *)

\* Whatever the order in which sensors are heard, requests list the defined ones
\* in the order of the configuration file, then the others, and each once.
SortedByDefinition ==
  /\ IsInjective(items)
  /\ \A i, j \in 1 .. Len(items) :
       i < j /\ Defined(items[j]) =>
         Defined(items[i]) /\ Definition[items[i]] <= Definition[items[j]]

\* Between two messages the newest record of a history is the stored temperature,
\* unless everything was outdated when somebody asked for it.
HistoryIsCurrent ==
  pc = "idle" =>
    \A s \in Stored :
      Defined(s) /\ history[s].records # << >> =>
        Last(history[s].records) = [time |-> data_time[s], value |-> value[s]]

\* The list of records is ordered by time and `last` is its last record, also
\* after a request has emptied it between two updates: the next record is not
\* appended to one that was deleted.
HistoryIsLinked ==
  \A s \in Sensors :
    LET records == history[s].records
    IN  /\ history[s].last = Len(records)
        /\ \A i, j \in 1 .. Len(records) : i < j => records[i].time <= records[j].time

InRange(r, from, to) == r.time >= from /\ (to = 0 \/ r.time <= to)

\* A request without `from` gets everything younger than HISTORY_DEPTH, in the order
\* of the list: the records in range are a part of it without a gap.
LatestIsCopied ==
  \A s \in Sensors : \A to \in 0 .. MAX_TIME :
    LET records == history[s].records
    IN  \E first \in 1 .. Len(records) + 1, last \in 0 .. Len(records) :
          /\ CopiedByGet(history[s], 0, to, now) = SubSeq(records, first, last)
          /\ \A i \in 1 .. Len(records) :
               i \in first .. last <=> InRange(records[i], now - HISTORY_DEPTH, to)

\* The member count, which the JSON of a sensor shows as the size of its history,
\* never falls below the number of records, although get forgets to decrement it.
CountIsEnough == \A s \in Sensors : history[s].count >= Len(history[s].records)

\* The object that copyFrom has filled is added to the collection.
NewObjectIsAdded == pc = "record" => sensor \in Stored
=============================================================================
