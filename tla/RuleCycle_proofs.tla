-------------------------- MODULE RuleCycle_proofs --------------------------
(***************************************************************************)
(* Proofs about RuleCycle, for every set of rules, with any conditions,    *)
(* debounces, cooldowns and actions.                                       *)
(***************************************************************************)
EXTENDS RuleCycle, TLAPS

(* A debounce never counts more time than has passed since an evaluation   *)
(* did not see its condition hold.                                         *)
HeldInv ==
  \A r \in RuleNames, p \in Points : state[r].held[p] <= failed[p]

(* A rule that is not fired has been seen false since it last acted.       *)
EdgeInv == \A r \in RuleNames : state[r].fired \/ calm[r]

NoDebounce(r) == \A p \in rules[r].points : rules[r].debounce[p] = 0

(* Without debounce, armAfterFalse lets a rule pass only once it was seen  *)
(* false.                                                                  *)
ArmInv ==
  \A r \in RuleNames : rules[r].arm /\ NoDebounce(r) /\ state[r].armed => sawFalse[r]

IInv == TypeOK /\ HeldInv /\ EdgeInv /\ ArmInv

-----------------------------------------------------------------------------
(* What the assumption says of a rule of this installation.                *)
LEMMA RuleFacts ==
  ASSUME TypeOK, NEW r \in RuleNames
  PROVE  /\ rules[r].points \subseteq Points /\ rules[r].cooldown \in Nat
         /\ rules[r].arm \in BOOLEAN
         /\ \A p \in Points : rules[r].debounce[p] \in 0 .. MaxDebounce
         /\ Len(rules[r].actions) \in Nat
<1>1. IsRule(rules[r])
  BY ConstantsAssumption DEF TypeOK
<1> QED BY <1>1 DEF IsRule

(* What TypeOK says of the state of a rule.                                *)
LEMMA StateFacts ==
  ASSUME TypeOK, NEW r \in RuleNames
  PROVE  /\ state[r] \in States /\ left[r] \in Nat
         /\ state[r].since \in Nat /\ state[r].since <= rules[r].cooldown
         /\ state[r].fired \in BOOLEAN /\ state[r].armed \in BOOLEAN
         /\ \A p \in Points : /\ state[r].held[p] \in Int /\ state[r].held[p] >= -1
                              /\ state[r].held[p] <= rules[r].debounce[p]
<1>1. state[r] \in States /\ left[r] \in Nat
  BY DEF TypeOK
<1>2. \A p \in Points : state[r].held[p] \in -1 .. rules[r].debounce[p]
  BY DEF TypeOK
<1>3. \A p \in Points : rules[r].debounce[p] \in Int
  BY RuleFacts
<1> QED BY <1>1, <1>2, <1>3 DEF TypeOK, States

(* A state of the rules of which each is well-formed.                      *)
StateOK(new) ==
  /\ new \in [RuleNames -> States]
  /\ \A r \in RuleNames :
       /\ new[r].since <= rules[r].cooldown
       /\ \A p \in Points : new[r].held[p] \in -1 .. rules[r].debounce[p]

LEMMA FreshOK ==
  ASSUME TypeOK PROVE StateOK(Fresh(rules))
<1> SUFFICES ASSUME NEW r \in RuleNames
             PROVE  /\ Fresh(rules)[r] \in States
                    /\ Fresh(rules)[r].since <= rules[r].cooldown
                    /\ \A p \in Points : Fresh(rules)[r].held[p] \in -1 .. rules[r].debounce[p]
  BY DEF StateOK, Fresh
<1>1. Fresh(rules)[r] = [fired |-> FALSE, armed |-> ~rules[r].arm,
                         since |-> rules[r].cooldown, held |-> [p \in Points |-> -1]]
  BY DEF Fresh
<1> QED BY <1>1, RuleFacts DEF States

(* An evaluation.                                                          *)
LEMMA CycleOK ==
  ASSUME TypeOK, RunCycle PROVE StateOK(state')
<1> SUFFICES ASSUME NEW r \in RuleNames
             PROVE  /\ state'[r] \in States
                    /\ state'[r].since <= rules[r].cooldown
                    /\ \A p \in Points : state'[r].held[p] \in -1 .. rules[r].debounce[p]
  BY DEF StateOK, RunCycle
<1> DEFINE h == [p \in Points |-> IF p \in rules[r].points THEN Held(r, p) ELSE -1]
<1>1. state'[r] = [fired |-> IsTrue(r), armed |-> state[r].armed \/ Arms(r),
                   since |-> IF Fires(r) THEN 0 ELSE state[r].since, held |-> h]
  BY DEF RunCycle
<1>2. \A p \in Points : h[p] \in -1 .. rules[r].debounce[p]
  BY RuleFacts, StateFacts DEF Held, From
<1>3. h \in [Points -> Int]
  BY <1>2, RuleFacts
<1> HIDE DEF h
<1>4. IsTrue(r) \in BOOLEAN
  BY Zenon DEF IsTrue, Debounced
<1>5. (IF Fires(r) THEN 0 ELSE state[r].since) \in Nat
      /\ (IF Fires(r) THEN 0 ELSE state[r].since) <= rules[r].cooldown
  BY RuleFacts, StateFacts
<1> QED BY <1>1, <1>2, <1>3, <1>4, <1>5 DEF States

LEMMA TickOK ==
  ASSUME TypeOK, Tick PROVE StateOK(state')
<1> SUFFICES ASSUME NEW r \in RuleNames
             PROVE  /\ state'[r] \in States
                    /\ state'[r].since <= rules[r].cooldown
                    /\ \A p \in Points : state'[r].held[p] \in -1 .. rules[r].debounce[p]
  BY DEF StateOK, Tick
<1> DEFINE h == [p \in Points |-> IF state[r].held[p] = -1 THEN -1
                                  ELSE Lesser(state[r].held[p] + 1, rules[r].debounce[p])]
<1>1. state'[r] = [fired |-> state[r].fired, armed |-> state[r].armed,
                   since |-> Lesser(state[r].since + 1, rules[r].cooldown), held |-> h]
  BY DEF Tick
<1>2. \A p \in Points : h[p] \in -1 .. rules[r].debounce[p]
  BY RuleFacts, StateFacts DEF Lesser
<1>3. h \in [Points -> Int]
  BY <1>2, RuleFacts
<1> HIDE DEF h
<1>4. Lesser(state[r].since + 1, rules[r].cooldown) \in Nat
      /\ Lesser(state[r].since + 1, rules[r].cooldown) <= rules[r].cooldown
  BY RuleFacts, StateFacts DEF Lesser
<1> QED BY <1>1, <1>2, <1>3, <1>4, StateFacts DEF States

-----------------------------------------------------------------------------
(* Every step keeps the types; the actions left never exceed those of the  *)
(* rule.                                                                   *)
LEMMA TypeStep == TypeOK /\ [Next]_vars => TypeOK'
<1> SUFFICES ASSUME TypeOK, [Next]_vars PROVE TypeOK'
  OBVIOUS
<1> USE ConstantsAssumption
<1> DEFINE LeftOK == /\ left' \in [RuleNames -> Nat]
                     /\ \A r \in RuleNames : left'[r] <= Len(rules[r].actions)
           HistoryOK == /\ failed' \in [Points -> 0 .. MaxDebounce]
                        /\ calm' \in [RuleNames -> BOOLEAN] /\ sawFalse' \in [RuleNames -> BOOLEAN]
           SnapshotOK == value' \in [Points -> BOOLEAN] /\ age' \in [Points -> 0 .. MaxAge + 1]
<1>0. StateOK(state) /\ \A r \in RuleNames : left[r] \in Nat /\ left[r] <= Len(rules[r].actions)
  BY DEF TypeOK, StateOK
<1>a. ASSUME rules' = rules, StateOK(state'), LeftOK, HistoryOK, SnapshotOK,
             running' \in BOOLEAN, restarts' \in 0 .. MaxRestarts
      PROVE  TypeOK'
  BY <1>a DEF TypeOK, StateOK
<1>b. ASSUME UNCHANGED state PROVE StateOK(state')
  <2>1. state' = state
    BY <1>b
  <2> QED BY <1>0, <2>1
<1>c. ASSUME UNCHANGED left PROVE LeftOK
  BY <1>c DEF TypeOK
<1>d. ASSUME UNCHANGED history PROVE HistoryOK
  BY <1>d DEF TypeOK, history
<1>e. ASSUME UNCHANGED snapshot PROVE SnapshotOK
  BY <1>e DEF TypeOK, snapshot
<1>f. running \in BOOLEAN /\ restarts \in 0 .. MaxRestarts
  BY DEF TypeOK
<1>1. CASE UNCHANGED vars
  BY <1>1, <1>a, <1>b, <1>c, <1>d, <1>e, <1>f DEF vars
<1>2. ASSUME NEW p \in Points, Record(p) PROVE TypeOK'
  <2>1. SnapshotOK
    BY <1>2 DEF Record, TypeOK
  <2> QED BY <1>2, <2>1, <1>a, <1>b, <1>c, <1>d, <1>f DEF Record
<1>3. CASE RunCycle
  <2>1. LeftOK
    BY <1>3, RuleFacts DEF RunCycle
  <2>2. HistoryOK
    <3>1. failed' \in [Points -> 0 .. MaxDebounce]
      BY <1>3 DEF RunCycle, Observe, TypeOK
    <3>2. calm' \in [RuleNames -> BOOLEAN]
      <4> SUFFICES ASSUME NEW r \in RuleNames
                   PROVE  (IF Fires(r) THEN FALSE ELSE calm[r] \/ ~IsTrue(r)) \in BOOLEAN
        BY <1>3 DEF RunCycle, Observe
      <4> QED BY Zenon
    <3>3. sawFalse' \in [RuleNames -> BOOLEAN]
      BY <1>3, Zenon DEF RunCycle, Observe
    <3> QED BY <3>1, <3>2, <3>3
  <2>3. StateOK(state')
    BY <1>3, CycleOK
  <2> QED BY <1>3, <2>1, <2>2, <2>3, <1>a, <1>e, <1>f DEF RunCycle
<1>4. ASSUME NEW r \in RuleNames, ActionEnds(r) PROVE TypeOK'
  <2>1. LeftOK
    BY <1>4, <1>0, RuleFacts DEF ActionEnds, TypeOK
  <2> QED BY <1>4, <2>1, <1>a, <1>b, <1>d, <1>e, <1>f DEF ActionEnds
<1>5. CASE Stop
  BY <1>5, <1>a, <1>b, <1>c, <1>d, <1>e, <1>f DEF Stop
<1>6. CASE Restart
  <2>1. LeftOK
    BY <1>6, RuleFacts DEF Restart
  <2>2. HistoryOK
    BY <1>6 DEF Restart
  <2>3. SnapshotOK
    BY <1>6 DEF Restart
  <2>4. StateOK(state')
    BY <1>6, FreshOK DEF Restart
  <2>5. restarts' \in 0 .. MaxRestarts
    BY <1>6, <1>f DEF Restart
  <2> QED BY <1>6, <2>1, <2>2, <2>3, <2>4, <2>5, <1>a DEF Restart
<1>7. CASE Tick
  <2>1. SnapshotOK
    BY <1>7 DEF Tick, Lesser, TypeOK
  <2>2. HistoryOK
    BY <1>7 DEF Tick, Lesser, TypeOK
  <2>3. StateOK(state')
    BY <1>7, TickOK
  <2> QED BY <1>7, <2>1, <2>2, <2>3, <1>a, <1>c, <1>f DEF Tick
<1> QED BY <1>1, <1>2, <1>3, <1>4, <1>5, <1>6, <1>7 DEF Next

-----------------------------------------------------------------------------
(* An evaluation starts the debounce with the failure it saw.              *)
LEMMA CycleKeeps ==
  ASSUME IInv, RunCycle PROVE HeldInv' /\ EdgeInv' /\ ArmInv'
<1> USE ConstantsAssumption DEF IInv
<1>1. HeldInv'
  <2> SUFFICES ASSUME NEW r \in RuleNames, NEW p \in Points
               PROVE  state'[r].held[p] <= failed'[p]
    BY DEF HeldInv
  <2>1. state'[r].held[p] = IF p \in rules[r].points THEN Held(r, p) ELSE -1
    BY DEF RunCycle
  <2>2. failed'[p] = (IF Holds(p) THEN failed[p] ELSE 0) /\ failed[p] \in Nat
    BY DEF RunCycle, Observe, TypeOK
  <2>3. state[r].held[p] \in Int /\ state[r].held[p] <= failed[p]
    BY StateFacts DEF HeldInv
  <2> QED BY <2>1, <2>2, <2>3 DEF Held, From
<1>2. EdgeInv'
  <2> SUFFICES ASSUME NEW r \in RuleNames PROVE state'[r].fired \/ calm'[r]
    BY DEF EdgeInv
  <2>1. state'[r].fired = IsTrue(r)
    BY DEF RunCycle
  <2>2. calm'[r] = IF Fires(r) THEN FALSE ELSE calm[r] \/ ~IsTrue(r)
    BY DEF RunCycle, Observe
  <2> QED BY <2>1, <2>2 DEF Fires
<1>3. ArmInv'
  <2> SUFFICES ASSUME NEW r \in RuleNames, (rules[r].arm /\ NoDebounce(r))',
                      state'[r].armed
               PROVE  sawFalse'[r]
    BY DEF ArmInv
  <2>1. rules' = rules /\ rules[r].arm /\ \A p \in rules[r].points : rules[r].debounce[p] = 0
    BY DEF RunCycle, NoDebounce
  <2>2. state[r].armed \/ Arms(r)
    BY DEF RunCycle
  <2>3. sawFalse'[r] = (sawFalse[r] \/
          (/\ ~(IF rules[r].all THEN \A p \in rules[r].points : Holds(p)
                                ELSE \E p \in rules[r].points : Holds(p))
           /\ \A p \in rules[r].points : Present(p)))
    BY DEF RunCycle, Observe
  <2>4. CASE state[r].armed
    BY <2>1, <2>3, <2>4 DEF ArmInv, NoDebounce
  <2>5. CASE Arms(r)
    <3>1. \A p \in rules[r].points : Debounced(r, p) <=> Holds(p)
      <4> SUFFICES ASSUME NEW p \in rules[r].points, Holds(p)
                   PROVE  Held(r, p) >= rules[r].debounce[p]
        BY DEF Debounced
      <4>1. state[r].held[p] \in Int /\ rules[r].debounce[p] = 0
        BY <2>1, RuleFacts, StateFacts
      <4> QED BY <4>1 DEF Held, From
    <3> QED BY <2>3, <2>5, <3>1 DEF Arms, IsTrue
  <2> QED BY <2>2, <2>4, <2>5
<1> QED BY <1>1, <1>2, <1>3

(* Time passes for the debounce as it does for the failure.                *)
LEMMA TickKeeps ==
  ASSUME IInv, Tick PROVE HeldInv' /\ EdgeInv' /\ ArmInv'
<1> USE ConstantsAssumption DEF IInv
<1>1. HeldInv'
  <2> SUFFICES ASSUME NEW r \in RuleNames, NEW p \in Points
               PROVE  state'[r].held[p] <= failed'[p]
    BY DEF HeldInv
  <2>1. state'[r].held[p] = IF state[r].held[p] = -1 THEN -1
                            ELSE Lesser(state[r].held[p] + 1, rules[r].debounce[p])
    BY DEF Tick
  <2>2. failed'[p] = Lesser(failed[p] + 1, MaxDebounce) /\ failed[p] \in 0 .. MaxDebounce
    BY DEF Tick, TypeOK
  <2>3. /\ state[r].held[p] \in Int /\ state[r].held[p] <= failed[p]
        /\ rules[r].debounce[p] \in 0 .. MaxDebounce
    BY StateFacts, RuleFacts DEF HeldInv
  <2> QED BY <2>1, <2>2, <2>3 DEF Lesser
<1>2. \A r \in RuleNames : state'[r].fired = state[r].fired /\ state'[r].armed = state[r].armed
  BY DEF Tick
<1>3. UNCHANGED <<rules, calm, sawFalse>>
  BY DEF Tick
<1>4. EdgeInv'
  BY <1>2, <1>3 DEF EdgeInv
<1>5. ArmInv'
  BY <1>2, <1>3 DEF ArmInv, NoDebounce
<1> QED BY <1>1, <1>4, <1>5

(* Every step keeps the invariant.                                         *)
THEOREM Preserved == IInv /\ [Next]_vars => IInv'
<1> SUFFICES ASSUME IInv, [Next]_vars PROVE HeldInv' /\ EdgeInv' /\ ArmInv'
  BY TypeStep DEF IInv
<1>1. CASE UNCHANGED <<rules, state, failed, calm, sawFalse>>
  BY <1>1 DEF IInv, HeldInv, EdgeInv, ArmInv, NoDebounce
<1>2. CASE Restart
  <2>1. state' = Fresh(rules) /\ rules' = rules
    BY <1>2 DEF Restart
  <2>2. \A r \in RuleNames : /\ state'[r].armed = ~rules[r].arm
                            /\ \A p \in Points : state'[r].held[p] = -1
    BY <2>1 DEF Fresh
  <2>3. (\A p \in Points : failed'[p] = 0) /\ \A r \in RuleNames : calm'[r]
    BY <1>2 DEF Restart
  <2>4. HeldInv'
    BY <2>2, <2>3 DEF HeldInv
  <2> QED BY <2>1, <2>2, <2>3, <2>4 DEF EdgeInv, ArmInv
<1> QED BY <1>1, <1>2, CycleKeeps, TickKeeps
        DEF Next, vars, history, Record, ActionEnds, Stop

(* IInv holds in every reachable state.                                    *)
THEOREM Invariance == Spec => []IInv
<1>1. Init => IInv
  <2> SUFFICES ASSUME Init PROVE IInv
    OBVIOUS
  <2>1. \A r \in RuleNames : IsRule(rules[r])
    BY ConstantsAssumption DEF Init
  <2>2. ASSUME NEW r \in RuleNames
        PROVE  /\ state[r] \in States /\ state[r].since <= rules[r].cooldown
               /\ \A p \in Points : /\ state[r].held[p] = -1
                                    /\ state[r].held[p] \in -1 .. rules[r].debounce[p]
               /\ left[r] <= Len(rules[r].actions)
               /\ calm[r] /\ (rules[r].arm => ~state[r].armed)
    <3>1. state[r] = [fired |-> FALSE, armed |-> ~rules[r].arm,
                      since |-> rules[r].cooldown, held |-> [p \in Points |-> -1]]
      BY DEF Init, Fresh
    <3>2. /\ rules[r].cooldown \in Nat /\ Len(rules[r].actions) \in Nat
          /\ \A p \in Points : rules[r].debounce[p] \in Nat
      BY <2>1, ConstantsAssumption DEF IsRule
    <3>3. left[r] = 0 /\ calm[r]
      BY DEF Init
    <3>4. state[r] \in States
      BY <3>1, <3>2 DEF States
    <3>5. state[r].since = rules[r].cooldown /\ \A p \in Points : state[r].held[p] = -1
      BY <3>1
    <3>6. state[r].armed = ~rules[r].arm
      BY <3>1
    <3>7. rules[r].arm => ~state[r].armed
      BY <3>6, Zenon
    <3> QED BY <3>2, <3>3, <3>4, <3>5, <3>7
  <2>5. state \in [RuleNames -> States]
    BY <2>2 DEF Init, Fresh
  <2>7. TypeOK
    <3>1. value \in [Points -> BOOLEAN] /\ age \in [Points -> 0 .. MaxAge + 1]
      BY ConstantsAssumption DEF Init
    <3>2. /\ left \in [RuleNames -> Nat] /\ running \in BOOLEAN /\ restarts \in 0 .. MaxRestarts
          /\ failed \in [Points -> 0 .. MaxDebounce]
          /\ calm \in [RuleNames -> BOOLEAN] /\ sawFalse \in [RuleNames -> BOOLEAN]
      BY ConstantsAssumption DEF Init
    <3> QED BY <2>2, <2>5, <3>1, <3>2 DEF Init, TypeOK
  <2>8. HeldInv /\ EdgeInv /\ ArmInv
    <3>1. \A p \in Points : failed[p] = 0
      BY DEF Init
    <3> QED BY <2>2, <3>1 DEF HeldInv, EdgeInv, ArmInv
  <2> QED BY <2>7, <2>8 DEF IInv
<1> QED BY <1>1, Preserved, PTL DEF Spec

(* The states of the rules keep their types: no age passes its debounce or *)
(* cooldown, no rule has more actions left than it has.                    *)
THEOREM TypeCorrect == Spec => []TypeOK
<1>1. IInv => TypeOK
  BY DEF IInv
<1> QED BY <1>1, Invariance, PTL

(* Whatever the rules are: one acts only on fresh values of which the      *)
(* evaluations have seen the conditions hold as long as the debounce asks, *)
(* once per period of truth, outside its cooldown and, with armAfterFalse  *)
(* and no debounce, after it was seen false (RuleEvaluator.evaluate).      *)
THEOREM ActsWithCauseHolds == Spec => ActsWithCause
<1>1. ASSUME IInv, [Next]_vars, NEW r \in RuleNames, Starts(r)
      PROVE  HeldLongEnough(r) /\ OncePerPeriod(r)
  <2> USE ConstantsAssumption DEF IInv
  <2>1. left \in [RuleNames -> Nat] /\ left[r] = 0 /\ left'[r] > 0
    BY <1>1 DEF Starts, TypeOK
  <2>2. RunCycle
    BY <1>1, <2>1 DEF Next, vars, Record, ActionEnds, Stop, Restart, Tick
  <2>3. Fires(r)
    BY <2>1, <2>2 DEF RunCycle
  <2>4. \A p \in rules[r].points : Debounced(r, p) =>
          age[p] <= MaxAge /\ value[p] /\ failed[p] >= rules[r].debounce[p]
    <3> SUFFICES ASSUME NEW p \in rules[r].points, Debounced(r, p)
                 PROVE  age[p] <= MaxAge /\ value[p] /\ failed[p] >= rules[r].debounce[p]
      OBVIOUS
    <3>1. Present(p) /\ value[p] /\ Held(r, p) >= rules[r].debounce[p] /\ Holds(p)
      BY DEF Debounced, Holds
    <3>2. /\ p \in Points /\ rules[r].debounce[p] \in Nat /\ failed[p] \in Nat
          /\ state[r].held[p] \in Int /\ state[r].held[p] <= failed[p]
      BY <1>1, RuleFacts, StateFacts DEF TypeOK, HeldInv
    <3> QED BY <3>1, <3>2 DEF Held, From, Present
  <2>5. HeldLongEnough(r)
    BY <2>3, <2>4 DEF HeldLongEnough, Fires, IsTrue
  <2>6. OncePerPeriod(r)
    BY <1>1, <2>3 DEF OncePerPeriod, Fires, EdgeInv, ArmInv, NoDebounce
  <2> QED BY <2>5, <2>6
<1>2. IInv /\ [Next]_vars => [\A r \in RuleNames : Starts(r) => HeldLongEnough(r) /\ OncePerPeriod(r)]_vars
  BY <1>1
<1> QED BY <1>2, Invariance, PTL DEF Spec, ActsWithCause
=============================================================================
