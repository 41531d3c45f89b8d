---------------------------- MODULE RulesProofs ----------------------------
(***************************************************************************)
(* What is published follows the readings, for any rules, sensors and      *)
(* arguments.                                                              *)
(*                                                                         *)
(* The step alone does not say so: when a rule locks itself nothing is     *)
(* sent, and the message the broker has is one of an earlier step.  The    *)
(* invariant SelfLockIsPublished remembers that it was sent, or lost.      *)
(***************************************************************************)
EXTENDS Rules, TLAPS

\* What a rule has locked itself for was published or dropped.
SelfLockIsPublished ==
  \A r \in Rules :
    selfLocks[r] # NONE /\ selfLocks[r] \in arguments[r].messages =>
      published[r] = selfLocks[r] \/ r \in dropped

Inv == TypeOK /\ SelfLockIsPublished

LEMMA OutcomeType ==
  ASSUME NEW r
  PROVE  Outcome(r) \in Bounds
<1>1. ASSUME NEW items, NEW time, NEW t PROVE CheckBounds(items, time, t) \in Bounds
  BY DEF CheckBounds, Bounds
<1> QED
  BY <1>1 DEF Outcome, Bounds

LEMMA LocksType ==
  ASSUME NEW r, NEW b \in Bounds
  PROVE  Locks(r, b).lock \in BOOLEAN
<1>1. ASSUME NEW c PROVE LockList(r, c).lock \in BOOLEAN
  BY DEF LockList
<1> QED
  BY <1>1 DEF Locks, Bounds

LEMMA InitInv == Init => Inv
<1> SUFFICES ASSUME Init PROVE Inv
  OBVIOUS
<1>1. Len(Order) \in Nat
  BY RulesAssumption
<1>2. TypeOK
  BY <1>1 DEF Init, TypeOK
<1>3. SelfLockIsPublished
  BY DEF Init, SelfLockIsPublished
<1> QED
  BY <1>2, <1>3 DEF Inv

LEMMA ApplyRuleInv ==
  ASSUME Inv, NEW r \in Rules, NEW forked, ApplyRule(r, forked)
  PROVE  Inv'
<1> DEFINE bound == Outcome(r)
           send == bound \in arguments[r].messages
           done == Executed(r, forked)
<1>0. Len(Order) \in Nat /\ next' = next + 1 /\ next \in 1 .. Len(Order)
  BY RulesAssumption DEF ApplyRule, CurrentRule, Idle, Inv, TypeOK
<1>1. /\ published' = IF send /\ done THEN [published EXCEPT ![r] = bound] ELSE published
      /\ dropped' = IF ~send THEN dropped
                    ELSE IF done THEN dropped \ {r} ELSE dropped \cup {r}
      /\ selfLocks' = [selfLocks EXCEPT ![r] = bound]
      /\ UNCHANGED <<arguments, connected, day_time, sensor, temperature>>
      /\ isLocked' = [q \in Rules |-> IF q \in Locks(r, bound).rules THEN Locks(r, bound).lock
                                      ELSE isLocked[q]]
  BY DEF ApplyRule
<1>2. bound \in Bounds
  BY OutcomeType
<1> HIDE DEF bound, done
<1>3. TypeOK'
  <2>1. /\ selfLocks' \in [Rules -> Bounds \cup {NONE}]
        /\ published' \in [Rules -> Bounds \cup {NONE}]
        /\ dropped' \subseteq Rules
    BY <1>1, <1>2 DEF Inv, TypeOK
  <2>2. isLocked' \in [Rules -> BOOLEAN]
    BY <1>1, <1>2, LocksType DEF Inv, TypeOK
  <2>3. next' \in 1 .. Len(Order) + 1
    BY <1>0
  <2> QED
    BY <1>1, <2>1, <2>2, <2>3 DEF Inv, TypeOK
<1>4. ASSUME NEW q \in Rules, selfLocks'[q] # NONE, selfLocks'[q] \in arguments'[q].messages
      PROVE  published'[q] = selfLocks'[q] \/ q \in dropped'
  <2>1. CASE q = r
    <3>1. selfLocks'[q] = bound /\ send
      BY <1>1, <1>4, <2>1 DEF Inv, TypeOK
    <3> QED
      BY <1>1, <2>1, <3>1 DEF Inv, TypeOK
  <2>2. CASE q # r
    <3>1. selfLocks'[q] = selfLocks[q] /\ published'[q] = published[q]
      BY <1>1, <2>2 DEF Inv, TypeOK
    <3>2. q \in dropped => q \in dropped'
      BY <1>1, <2>2
    <3> QED
      BY <1>1, <1>4, <3>1, <3>2 DEF Inv, SelfLockIsPublished
  <2> QED
    BY <2>1, <2>2
<1> QED
  BY <1>3, <1>4 DEF Inv, SelfLockIsPublished

LEMMA NextInv == Inv /\ [Next]_vars => Inv'
<1> SUFFICES ASSUME Inv, [Next]_vars PROVE Inv'
  OBVIOUS
<1>0. Len(Order) \in Nat
  BY RulesAssumption
<1>1. ASSUME NEW s \in Sensors, NEW t \in Temperatures, Message(s, t) PROVE Inv'
  BY <1>0, <1>1 DEF Message, ruleVars, Inv, TypeOK, SelfLockIsPublished
<1>2. ASSUME NEW r \in Rules, SkipRule(r) PROVE Inv'
  <2>1. next' \in 1 .. Len(Order) + 1
    BY <1>0, <1>2 DEF SkipRule, CurrentRule, Idle, Inv, TypeOK
  <2> QED
    BY <1>2, <2>1 DEF SkipRule, ruleVars, Inv, TypeOK, SelfLockIsPublished
<1>3. ASSUME NEW r \in Rules, NEW forked \in BOOLEAN, ApplyRule(r, forked) PROVE Inv'
  BY <1>3, ApplyRuleInv
<1>4. CASE ConnectionChanges
  BY <1>4 DEF ConnectionChanges, ruleVars, mainVars, Inv, TypeOK, SelfLockIsPublished
<1>5. CASE TimePasses
  <2>1. day_time' \in 0 .. DAY - 1
    BY <1>5, ScheduleAssumption DEF TimePasses, After, Inv, TypeOK
  <2> QED
    BY <1>5, <2>1 DEF TimePasses, ruleVars, mainVars, Inv, TypeOK, SelfLockIsPublished
<1>6. CASE UNCHANGED vars
  BY <1>6 DEF vars, ruleVars, mainVars, Inv, TypeOK, SelfLockIsPublished
<1> QED
  BY <1>1, <1>2, <1>3, <1>4, <1>5, <1>6 DEF Next

LEMMA InvAlways == Spec => []Inv
  BY InitInv, NextInv, PTL DEF Spec

\* The variables of the main loop and of the rules keep their types.
THEOREM TypeCorrect == Spec => []TypeOK
<1>1. Inv => TypeOK
  BY DEF Inv
<1> QED
  BY <1>1, InvAlways, PTL

-----------------------------------------------------------------------------
\* The only steps that are the turn of a rule are its own two.
LEMMA TurnOf ==
  ASSUME Inv, Next, NEW r \in Rules, Turn(r)
  PROVE  SkipRule(r) \/ \E forked \in BOOLEAN : ApplyRule(r, forked)
<1>0. next \in Nat /\ Len(Order) \in Nat
  BY RulesAssumption DEF Inv, TypeOK
<1>1. ASSUME NEW s \in Sensors, NEW t \in Temperatures, Message(s, t) PROVE FALSE
  BY <1>1 DEF Message, Turn, CurrentRule
<1>2. ASSUME ConnectionChanges \/ TimePasses PROVE FALSE
  BY <1>0, <1>2 DEF ConnectionChanges, TimePasses, mainVars, Turn
<1>3. ASSUME NEW q \in Rules, SkipRule(q) \/ \E forked \in BOOLEAN : ApplyRule(q, forked) PROVE q = r
  BY <1>3 DEF SkipRule, ApplyRule, CurrentRule, Turn
<1> QED
  BY <1>1, <1>2, <1>3 DEF Next

\* After the turn of a rule of the sensor (checkRule and execute in the main loop), the
\* broker has the rule's message for the current reading or that
\* message was lost.
THEOREM PublishedIsCurrent == Spec => PublishedFollowsReading
<1>1. ASSUME Inv, [Next]_vars
      PROVE  [\A r \in Rules :
               Turn(r) /\ ~isLocked[r] /\ Outcome(r) \in arguments[r].messages =>
                 published'[r] = Outcome(r) \/ r \in dropped']_vars
  <2> SUFFICES ASSUME Next, NEW r \in Rules, Turn(r), ~isLocked[r],
                      Outcome(r) \in arguments[r].messages
               PROVE  published'[r] = Outcome(r) \/ r \in dropped'
    BY <1>1
  <2> DEFINE bound == Outcome(r)
  <2>1. bound \in Bounds /\ bound \in arguments[r].messages
    BY OutcomeType
  <2>2. CASE SkipRule(r)
    <3>1. selfLocks[r] = bound
      BY <2>2 DEF SkipRule, Turn, Locked
    <3>2. selfLocks[r] # NONE
      BY <2>1, <3>1, RulesAssumption
    <3>3. published[r] = bound \/ r \in dropped
      BY <1>1, <2>1, <3>1, <3>2 DEF Inv, SelfLockIsPublished
    <3> QED
      BY <2>1, <2>2, <3>3 DEF SkipRule
  <2>3. ASSUME NEW forked \in BOOLEAN, ApplyRule(r, forked)
        PROVE  published'[r] = Outcome(r) \/ r \in dropped'
    <3>1. /\ published' = IF Executed(r, forked) THEN [published EXCEPT ![r] = bound] ELSE published
          /\ dropped' = IF Executed(r, forked) THEN dropped \ {r} ELSE dropped \cup {r}
      BY <2>1, <2>3 DEF ApplyRule
    <3> QED
      BY <1>1, <2>1, <3>1 DEF Inv, TypeOK
  <2> QED
    BY <1>1, <2>2, <2>3, TurnOf
<1> QED
  BY <1>1, InvAlways, PTL DEF Spec, PublishedFollowsReading

\* A rule that is applied locks and unlocks the rules its arguments name
\* (applyLocks), when the arguments are simple ones.
THEOREM LocksAreApplied == Spec => LocksFollowSimpleArguments
<1>1. ASSUME Inv, [Next]_vars
      PROVE  [\A r \in Rules :
               Applied(r) /\ SimpleArguments(r) =>
                 \A q \in Rules :
                   isLocked'[q] = (q \in arguments[r].lock[Outcome(r)]
                                   \/ (isLocked[q] /\ q \notin arguments[r].unlock[Outcome(r)]))]_vars
  <2> SUFFICES ASSUME Next, NEW r \in Rules, Applied(r), SimpleArguments(r), NEW q \in Rules
               PROVE  isLocked'[q] = (q \in arguments[r].lock[Outcome(r)]
                                      \/ (isLocked[q] /\ q \notin arguments[r].unlock[Outcome(r)]))
    BY <1>1
  <2> DEFINE b == Outcome(r)
             toLock == arguments[r].lock[b]
             toUnlock == arguments[r].unlock[b]
  <2>1. b \in Bounds
    BY OutcomeType
  <2>2. toLock = {} \/ toUnlock = {}
    BY <2>1 DEF SimpleArguments
  <2>3. Locks(r, b).rules = toLock \cup toUnlock
    BY <2>1, <2>2 DEF Locks, LockList, SimpleArguments, Bounds
  <2>4. /\ q \in toLock => Locks(r, b).lock = TRUE
        /\ q \in toUnlock => Locks(r, b).lock = FALSE
    <3>1. ASSUME q \in toLock PROVE Locks(r, b).lock = TRUE
      BY <2>1, <2>2, <3>1 DEF Locks, LockList, SimpleArguments, Bounds
    <3>2. ASSUME q \in toUnlock PROVE Locks(r, b).lock = FALSE
      BY <2>1, <2>2, <3>2 DEF Locks, LockList, SimpleArguments, Bounds
    <3> QED
      BY <3>1, <3>2
  <2>5. PICK forked \in BOOLEAN : ApplyRule(r, forked)
    BY <1>1, TurnOf DEF Applied, SkipRule, Turn
  <2>6. isLocked' = [p \in Rules |-> IF p \in Locks(r, b).rules THEN Locks(r, b).lock
                                     ELSE isLocked[p]]
    BY <2>5 DEF ApplyRule
  <2> HIDE DEF b
  <2>7. isLocked[q] \in BOOLEAN
    BY <1>1 DEF Inv, TypeOK
  <2>8. CASE q \in toLock \cup toUnlock
    <3>1. isLocked'[q] = Locks(r, b).lock
      BY <2>3, <2>6, <2>8
    <3> QED
      BY <2>2, <2>4, <2>8, <3>1 DEF b
  <2>9. CASE q \notin toLock \cup toUnlock
    <3>1. isLocked'[q] = isLocked[q]
      BY <2>3, <2>6, <2>9
    <3> QED
      BY <2>7, <2>9, <3>1 DEF b
  <2> QED
    BY <2>8, <2>9
<1> QED
  BY <1>1, InvAlways, PTL DEF Spec, LocksFollowSimpleArguments

-----------------------------------------------------------------------------
\* What the search for the current item of two finds: going back it reaches the
\* second item when the time of neither has come, going on when that of both has.
LEMMA CurrentOfTwo ==
  ASSUME NEW items \in Seq(ItemType), Len(items) = 2, NEW time \in 0 .. DAY - 1
  PROVE  CurrentItem(items, time) =
           IF (items[1].time_offset > time) <=> (items[2].time_offset > time) THEN 2 ELSE 1
<1> DEFINE later(i) == items[i].time_offset > time
<1>1. 2 .. 2 = {2} /\ \A j \in 2 .. 2 : j = 2
  OBVIOUS
<1>2. {i \in 2 .. 2 : \A j \in i .. 2 : later(j)} = IF later(2) THEN {2} ELSE {}
  BY <1>1
<1>3. {i \in 2 .. 2 : \A j \in 2 .. i : ~later(j)} = IF later(2) THEN {} ELSE {2}
  BY <1>1
<1>4. (CHOOSE i \in {2} : \A j \in {2} : i <= j) = 2 /\ (CHOOSE i \in {2} : \A j \in {2} : i >= j) = 2
  OBVIOUS
<1> QED
  BY <1>2, <1>3, <1>4 DEF CurrentItem

\* The bounds of a rule with two items change at the two times of the day that these
\* name and at no other (RuleBoundSchedule::checkBounds), whatever the times are.
THEOREM BoundsSwitch == Spec => BoundsSwitchOnTime
<1>1. ASSUME Inv, [Next]_vars
      PROVE  [\A r \in Rules :
               LET items == arguments[r].schedule
               IN  day_time' # day_time /\ Len(items) = 2 /\ Named(items) # {0} =>
                     (CurrentItem(items, day_time') # CurrentItem(items, day_time)
                       <=> day_time' \in Named(items))]_vars
  <2> SUFFICES ASSUME Next, NEW r \in Rules, day_time' # day_time,
                      Len(arguments[r].schedule) = 2, Named(arguments[r].schedule) # {0}
               PROVE  CurrentItem(arguments[r].schedule, day_time') # CurrentItem(arguments[r].schedule, day_time)
                        <=> day_time' \in Named(arguments[r].schedule)
    BY <1>1
  <2> DEFINE items == arguments[r].schedule
             first == items[1].time_offset
             second == items[2].time_offset
  <2>1. TimePasses
    <3>1. ASSUME NEW s \in Sensors, NEW t \in Temperatures, Message(s, t) PROVE FALSE
      BY <3>1 DEF Message
    <3>2. ASSUME NEW q \in Rules, SkipRule(q) \/ \E forked \in BOOLEAN : ApplyRule(q, forked) PROVE FALSE
      BY <3>2 DEF SkipRule, ApplyRule
    <3>3. ASSUME ConnectionChanges PROVE FALSE
      BY <3>3 DEF ConnectionChanges
    <3> QED
      BY <3>1, <3>2, <3>3 DEF Next
  <2>2. /\ day_time \in 0 .. DAY - 1 /\ day_time' \in 0 .. DAY - 1
        /\ day_time' = IF day_time = DAY - 1 THEN 0 ELSE day_time + 1
    BY <1>1, <2>1, ScheduleAssumption DEF TimePasses, After, Inv, TypeOK
  <2>3. arguments[r] \in ArgumentsType
    BY <1>1, RulesAssumption DEF Inv, TypeOK
  <2>4. items \in Seq(ItemType) /\ Len(items) = 2
    BY <2>3 DEF ArgumentsType
  <2>5. first \in 0 .. DAY /\ second \in 0 .. DAY
    <3>1. items[1] \in ItemType /\ items[2] \in ItemType
      BY <2>4
    <3> QED
      BY <3>1 DEF ItemType
  <2>6. IsScheduleOf(arguments[r].command, items)
    BY <1>1, RulesAssumption DEF Inv, TypeOK
  <2>7. first # second
    <3>1. Compiles(items)
      BY <2>4, <2>6 DEF IsScheduleOf
    <3> QED
      BY <2>4, <3>1 DEF Compiles
  <2>8. Named(items) = {IF first = DAY THEN 0 ELSE first, IF second = DAY THEN 0 ELSE second}
    BY <2>4 DEF Named
  <2>9. /\ CurrentItem(items, day_time) = IF (first > day_time) <=> (second > day_time) THEN 2 ELSE 1
        /\ CurrentItem(items, day_time') = IF (first > day_time') <=> (second > day_time') THEN 2 ELSE 1
    BY <2>2, <2>4, CurrentOfTwo
  <2> HIDE DEF items, first, second
  <2> QED
    BY <2>2, <2>5, <2>7, <2>8, <2>9, ScheduleAssumption DEF items
<1> QED
  BY <1>1, InvAlways, PTL DEF Spec, BoundsSwitchOnTime
=============================================================================
