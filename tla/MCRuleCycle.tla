---------------------------- MODULE MCRuleCycle ----------------------------
EXTENDS RuleCycle

Rule(points, all, d1, d2, cooldown, arm, actions) ==
  [points |-> points, all |-> all, debounce |-> [p \in Points |-> IF p = 1 THEN d1 ELSE d2],
   cooldown |-> cooldown, arm |-> arm, actions |-> actions]

(* Conditions with and without debounce, all and any, a rule that has to   *)
(* be armed; the second rule shares a point and keeps the cycle waiting.   *)
Subjects ==
  {Rule({1, 2}, all, 2, 1, 3, arm, <<"maneuver">>) : all, arm \in BOOLEAN}
    \cup {Rule({1, 2}, TRUE, 0, 0, 0, TRUE, <<"maneuver">>)}

Files == {[r \in RuleNames |-> IF r = 1 THEN s
                               ELSE Rule({2}, TRUE, 0, 0, 0, FALSE, <<"container-command", "log">>)] :
           s \in Subjects}
=============================================================================
