------------------------------- MODULE Rules -------------------------------
(***************************************************************************)
(* The rules of common/SensorsData.hpp, what Config makes of their         *)
(* arguments, and the part of the main loop (f007th_send.cpp) that applies *)
(* the rules of a sensor to its new reading, one after the other.          *)
(*                                                                         *)
(* A rule sends an MQTT message or runs a command when the reading crosses *)
(* its bounds, and locks or unlocks other rules.  The connection to the    *)
(* broker comes and goes in a thread of the MQTT library.  All rules are   *)
(* about the temperature.  Every rule reads the clock for itself.          *)
(***************************************************************************)
EXTENDS Schedule, FiniteSets, SequencesExt

CONSTANTS
  Sensors,
  Order,        \* the rules in the order of the configuration file
  SensorOf,     \* the sensor of every rule
  Arguments,    \* the arguments every rule may be defined with, see ArgumentsType
  Temperatures,
  NONE

Rules == ToSet(Order)

\* `command` tells mqtt_bounds_rule and action_rule from the three uses of mqtt_rule;
\* schedule has its bounds, messages the bounds that have a message or a command to
\* run, and lock and unlock the rules named in lock_lo, lock_in and so on.
ArgumentsType ==
  [command : {"mqtt_bounds_rule", "action_rule", "mqtt_rule_lo", "mqtt_rule_hi", "mqtt_rule"},
   schedule : Seq(ItemType), messages : SUBSET Bounds,
   lock : [Bounds -> SUBSET Rules], unlock : [Bounds -> SUBSET Rules]]

\* The schedules that the commands make of their arguments
IsScheduleOf(command, items) ==
  \/ /\ command \in {"mqtt_bounds_rule", "action_rule"}
     /\ (Len(items) = 1 /\ items[1].low < items[1].high) \/ Compiles(items)
  \/ command = "mqtt_rule_lo" /\ Len(items) = 1 /\ items[1].high = NO_BOUND
  \/ command = "mqtt_rule_hi" /\ Len(items) = 1 /\ items[1].low = NO_BOUND
  \/ command = "mqtt_rule" /\ Len(items) = 0

ASSUME RulesAssumption ==
  /\ Order \in Seq(Rules)
  /\ NONE \notin Bounds
  /\ SensorOf \in [Rules -> Sensors]
  /\ \A r \in Rules : Arguments[r] \subseteq ArgumentsType
  /\ \A r \in Rules : \A a \in Arguments[r] : IsScheduleOf(a.command, a.schedule)
  /\ Temperatures \subseteq Int

VARIABLES
  arguments,    \* the arguments each rule is defined with
  isLocked,
  selfLocks,    \* the bound whose bit is set in selfLocks, NONE when none is
  connected,    \* MqttPublisher::is_connected
  day_time,     \* the local time, in minutes after midnight
  sensor, temperature, next,   \* the message in the main loop, the next of its rules
  published,    \* the bound of the last message of a rule the broker has got, or of the
                \* last command that was run
  dropped       \* rules whose last message was not sent, or command not run

mainVars == <<sensor, temperature, next>>
ruleVars == <<arguments, isLocked, selfLocks>>
vars == <<ruleVars, connected, day_time, mainVars, published, dropped>>

\* The flags, bounds and positions of the rules and of the main loop.
TypeOK ==
  /\ \A r \in Rules : arguments[r] \in Arguments[r]
  /\ isLocked \in [Rules -> BOOLEAN]
  /\ selfLocks \in [Rules -> Bounds \cup {NONE}]
  /\ connected \in BOOLEAN
  /\ day_time \in 0 .. DAY - 1
  /\ sensor \in Sensors
  /\ temperature \in Temperatures
  /\ next \in 1 .. Len(Order) + 1
  /\ published \in [Rules -> Bounds \cup {NONE}]
  /\ dropped \subseteq Rules

Init ==
  /\ arguments \in {a \in [Rules -> UNION {Arguments[r] : r \in Rules}] :
                      \A r \in Rules : a[r] \in Arguments[r]}
  /\ isLocked = [r \in Rules |-> FALSE]
  /\ selfLocks = [r \in Rules |-> NONE]
  /\ connected = TRUE
  /\ day_time \in 0 .. DAY - 1
  /\ sensor \in Sensors
  /\ temperature \in Temperatures
  /\ next = Len(Order) + 1
  /\ published = [r \in Rules |-> NONE]
  /\ dropped = {}

-----------------------------------------------------------------------------
(* The definition of rules in Config                                       *)

HasBounds(r) == arguments[r].command # "mqtt_rule"

\* Mutant for LocksFollowSimpleArguments: the unlock list is marked as one that locks.
LockListMutant(r, bound) ==
  LET a == arguments[r]
  IN  IF a.unlock[bound] # {} THEN [rules |-> a.unlock[bound], lock |-> TRUE]
      ELSE [rules |-> a.lock[bound], lock |-> TRUE]

\* Config::parseListOfRuleLocks for the rules to lock and then for those to unlock:
\* the second list replaces the first one.
LockList(r, bound) ==
  LET a == arguments[r]
  IN  IF a.unlock[bound] # {} THEN [rules |-> a.unlock[bound], lock |-> FALSE]
      ELSE [rules |-> a.lock[bound], lock |-> TRUE]

\* setLocks in the commands: the list for Inside ends up under Lower.
Locks(r, bound) ==
  LET none == [rules |-> {}, lock |-> TRUE]
      inside == LockList(r, "Inside")
  IN  IF arguments[r].command \notin {"mqtt_bounds_rule", "action_rule"} THEN LockList(r, bound)
      ELSE CASE bound = "Higher" -> LockList(r, "Higher")
             [] bound = "Lower"  -> IF inside.rules # {} THEN inside ELSE LockList(r, "Lower")
             [] bound = "Inside" -> none

-----------------------------------------------------------------------------
(* The main loop                                                           *)

Idle == next > Len(Order)

\* Mutant for TypeOK: the rules are counted from zero.
MessageMutant(s, t) ==
  /\ Idle
  /\ sensor' = s /\ temperature' = t
  /\ next' = 0
  /\ UNCHANGED <<ruleVars, connected, day_time, published, dropped>>

\* A message for which update says that the temperature has changed, or that it has
\* not for max_unchanged_gap.
Message(s, t) ==
  /\ Idle
  /\ sensor' = s /\ temperature' = t
  /\ next' = 1
  /\ UNCHANGED <<ruleVars, connected, day_time, published, dropped>>

\* The outcome of a rule with a temperature, at the present time
Outcome(r) ==
  IF HasBounds(r) THEN CheckBounds(arguments[r].schedule, day_time, temperature) ELSE "Inside"

\* Mutant for PublishedFollowsReading: a rule that has locked itself for one bound is
\* locked for all of them.
LockedMutant(r) ==
  \/ isLocked[r]
  \/ HasBounds(r) /\ selfLocks[r] # NONE

\* SensorData::checkRule.  Without bounds the rule is never locked by itself.
Locked(r) ==
  \/ isLocked[r]
  \/ HasBounds(r) /\ selfLocks[r] = Outcome(r)

CurrentRule(r) == ~Idle /\ r = Order[next]

SkipRule(r) ==
  /\ CurrentRule(r)
  /\ SensorOf[r] # sensor \/ Locked(r)
  /\ next' = next + 1
  /\ UNCHANGED <<ruleVars, connected, day_time, sensor, temperature, published, dropped>>

\* MqttRule::execute publishes when there is a connection, ActionRule::execute runs
\* the command in a process of its own, if fork gives one.
Executed(r, forked) == IF arguments[r].command = "action_rule" THEN forked ELSE connected

\* formatMessage, execute and applyLocks
ApplyRule(r, forked) ==
  /\ CurrentRule(r)
  /\ SensorOf[r] = sensor /\ ~Locked(r)
  /\ next' = next + 1
  /\ LET bound == Outcome(r)
         send  == bound \in arguments[r].messages
         list  == Locks(r, bound)
     IN  /\ published' = IF send /\ Executed(r, forked) THEN [published EXCEPT ![r] = bound] ELSE published
         /\ dropped' = IF ~send THEN dropped
                       ELSE IF Executed(r, forked) THEN dropped \ {r} ELSE dropped \cup {r}
         /\ selfLocks' = [selfLocks EXCEPT ![r] = bound]
         /\ isLocked' = [q \in Rules |-> IF q \in list.rules THEN list.lock ELSE isLocked[q]]
  /\ UNCHANGED <<arguments, connected, day_time, sensor, temperature>>

\* MqttPublisher::on_connect and on_disconnect
ConnectionChanges ==
  /\ connected' = ~connected
  /\ UNCHANGED <<ruleVars, day_time, mainVars, published, dropped>>

\* A minute passes, in the middle of a message, too.
TimePasses ==
  /\ day_time' = After(day_time)
  /\ UNCHANGED <<ruleVars, connected, mainVars, published, dropped>>

Next ==
  \/ \E s \in Sensors, t \in Temperatures : Message(s, t)
  \/ \E r \in Rules : SkipRule(r) \/ \E forked \in BOOLEAN : ApplyRule(r, forked)
  \/ ConnectionChanges \/ TimePasses

Spec == Init /\ [][Next]_vars

-----------------------------------------------------------------------------
(* Properties                                                              *)

\* The rule r has its turn in this step, with a reading of its sensor.
Turn(r) == CurrentRule(r) /\ SensorOf[r] = sensor /\ next' = next + 1

\* After the turn of a rule that is not locked, the last message of the rule at the
\* broker, or the last command run for it, is the one for the current reading and the
\* bounds of the present time, whatever was sent, locked or skipped before, unless the
\* message was lost because the broker was away or no process was there to run the
\* command.
PublishedFollowsReading ==
  [][\A r \in Rules :
       Turn(r) /\ ~isLocked[r] /\ Outcome(r) \in arguments[r].messages =>
         published'[r] = Outcome(r) \/ r \in dropped']_vars

Applied(r) == Turn(r) /\ ~Locked(r)

\* Rules without lock_in and unlock_in arguments that do not both lock and unlock for
\* the same outcome: for the others Config.cpp:1336 stores a list for another bound, or
\* replaces the list of the rules to lock.
SimpleArguments(r) ==
  /\ arguments[r].command \in {"mqtt_bounds_rule", "action_rule"} =>
       arguments[r].lock["Inside"] = {} /\ arguments[r].unlock["Inside"] = {}
  /\ \A b \in Bounds : arguments[r].lock[b] = {} \/ arguments[r].unlock[b] = {}

\* The rules named in simple lock and unlock arguments, and no others, are locked and
\* unlocked when a rule is applied with that outcome (Rule::applyLocks).
LocksFollowSimpleArguments ==
  [][\A r \in Rules :
       Applied(r) /\ SimpleArguments(r) =>
         \A q \in Rules :
           isLocked'[q] = (q \in arguments[r].lock[Outcome(r)]
                           \/ (isLocked[q] /\ q \notin arguments[r].unlock[Outcome(r)]))]_vars

\* The bounds of a rule with two items change at the two times these name, and stay
\* the same at any other time, at midnight, too (RuleBoundSchedule::checkBounds); that is,
\* unless these are 0:00 and 24:00.
\* They do not with more items: of 72.5..73.5[10:00]73..74[17:00]72..75[8:00], in the
\* sample configuration, the second item is in force from 0:00 to 8:00 only.
BoundsSwitchOnTime ==
  [][\A r \in Rules :
       LET items == arguments[r].schedule
       IN  day_time' # day_time /\ Len(items) = 2 /\ Named(items) # {0} =>
             (CurrentItem(items, day_time') # CurrentItem(items, day_time) <=> day_time' \in Named(items))]_vars
=============================================================================
