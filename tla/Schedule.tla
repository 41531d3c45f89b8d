------------------------------ MODULE Schedule ------------------------------
(***************************************************************************)
(* The bounds of a rule and their schedule: compileBoundSchedule           *)
(* (common/ConfigParser.cpp) makes a ring of items of an argument such as  *)
(* bounds=72.5..74.5[22:00]72..75[8:00], and RuleBoundSchedule (common/    *)
(* SensorsData.hpp) looks for the item that is in force.                   *)
(*                                                                         *)
(* The ring is a sequence here, its first item the one firstScheduleItem   *)
(* points to.  A schedule of one item stands for RuleBoundFixed, which     *)
(* does not look at the time.                                              *)
(***************************************************************************)
EXTENDS Integers, Sequences

CONSTANTS
  NO_BOUND,
  DAY         \* the length of a day; 24 * 60 in the code

ASSUME ScheduleAssumption ==
  /\ NO_BOUND \in Int
  /\ DAY \in Nat \ {0}

Bounds == {"Lower", "Inside", "Higher"}

ItemType == [low : Int, high : Int, time_offset : 0 .. DAY]

\* RuleBoundFixed
Fixed(low, high) == <<[low |-> low, high |-> high, time_offset |-> 0]>>

\* compileBoundSchedule and getDayTimeOffset accept these items, at least two; the
\* last minute they accept is 24:00.  From one item to the next the time goes back
\* at most once.
Compiles(items) ==
  LET time(i) == items[i].time_offset
      later == 2 .. Len(items)
  IN  /\ Len(items) >= 2
      /\ \A i \in DOMAIN items : items[i].low < items[i].high
      /\ \A i \in later : time(i) # time(i - 1)
      /\ \A i, j \in later : time(i) < time(i - 1) /\ time(j) < time(j - 1) => i = j

\* Mutant for BoundsSwitchOnTime: the time of the later items comes a minute late.
CurrentItemMutant(items, time) ==
  LET n == Len(items)
      later(i) == items[i].time_offset >= time
      back == {i \in 2 .. n : \A j \in i .. n : later(j)}
      ahead == {i \in 2 .. n : \A j \in 2 .. i : ~later(j)}
  IN  IF n = 1 THEN 1
      ELSE IF items[1].time_offset > time
      THEN IF back = {} THEN 1 ELSE CHOOSE i \in back : \A j \in back : i <= j
      ELSE IF ahead = {} THEN 1 ELSE CHOOSE i \in ahead : \A j \in ahead : i >= j

\* RuleBoundSchedule::checkBounds: from the first item it goes on through the items
\* whose time has come or, when the time of the first one has not, back through
\* those whose time has not, and stops at the first item in any case.
CurrentItem(items, time) ==
  LET n == Len(items)
      later(i) == items[i].time_offset > time
      back == {i \in 2 .. n : \A j \in i .. n : later(j)}
      ahead == {i \in 2 .. n : \A j \in 2 .. i : ~later(j)}
  IN  IF n = 1 THEN 1
      ELSE IF later(1)
      THEN IF back = {} THEN 1 ELSE CHOOSE i \in back : \A j \in back : i <= j
      ELSE IF ahead = {} THEN 1 ELSE CHOOSE i \in ahead : \A j \in ahead : i >= j

\* AbstractRuleBoundSchedule::checkBounds
CheckBounds(items, time, value) ==
  LET item == items[CurrentItem(items, time)]
  IN  IF item.low # NO_BOUND /\ value < item.low THEN "Lower"
      ELSE IF item.high # NO_BOUND /\ value > item.high THEN "Higher"
      ELSE "Inside"

-----------------------------------------------------------------------------
(* What a schedule means                                                   *)

After(time) == IF time = DAY - 1 THEN 0 ELSE time + 1

\* The times of the day that the items name; 24:00 is 0:00.
Named(items) == {IF items[i].time_offset = DAY THEN 0 ELSE items[i].time_offset : i \in DOMAIN items}
=============================================================================
