------------------------------ MODULE MCRules ------------------------------
(* Instances of Rules for TLC: two rules, each of a sensor of its own, that *)
(* may lock and unlock each other.                                         *)
EXTENDS Rules, TLC

CONSTANTS r1, r2, s1, s2

MCOrder == <<r1, r2>>
MCSensorOf == r1 :> s1 @@ r2 :> s2
MCNoBound == -32768

\* lock or unlock the given rules for one bound
Only(bound, rules) == [b \in Bounds |-> IF b = bound THEN rules ELSE {}]

BoundsRule(command, schedule, lockBound, lock, unlock) ==
  [command |-> command, schedule |-> schedule, messages |-> {"Lower", "Higher"},
   lock |-> Only(lockBound, lock), unlock |-> Only(lockBound, unlock)]

Rule(command, schedule, bound, lock, unlock) ==
  [command |-> command, schedule |-> schedule, messages |-> {bound},
   lock |-> Only(bound, lock), unlock |-> Only(bound, unlock)]

Item(low, high, time) == [low |-> low, high |-> high, time_offset |-> time]

\* Until 2:00 and until 1:00, from 1:00 and from 2:00, from 2:00 and from midnight,
\* a day that is divided in three
Schedules ==
  { <<Item(1, 2, 2), Item(0, 1, 1)>>, <<Item(1, 2, 1), Item(0, 1, 2)>>,
    <<Item(1, 2, 2), Item(0, 1, DAY)>>, <<Item(1, 2, 1), Item(0, 1, 2), Item(0, 2, 0)>> }

MCArguments ==
  r1 :> ({BoundsRule("mqtt_bounds_rule", Fixed(1, 2), b, lock, unlock) :
            b \in Bounds, lock \in {{}, {r1, r2}}, unlock \in SUBSET {r2}}
         \cup {BoundsRule(command, schedule, "Higher", {}, {}) :
                 command \in {"mqtt_bounds_rule", "action_rule"}, schedule \in Schedules})
  @@ r2 :> UNION { {Rule("mqtt_rule_hi", Fixed(NO_BOUND, 2), "Higher", lock, {r1} \ lock),
                    Rule("mqtt_rule_lo", Fixed(1, NO_BOUND), "Lower", lock, {r1} \ lock),
                    Rule("mqtt_rule", << >>, "Inside", lock, {r1} \ lock)} : lock \in SUBSET {r1} }
=============================================================================
