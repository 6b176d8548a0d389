----------------------------- MODULE RuleCycle -----------------------------
(***************************************************************************)
(* ManagementService (services/management-service): the snapshot of the    *)
(* telemetry, the evaluation cycle with the edge, debounce and cooldown    *)
(* state of RuleEvaluator, and the actions of ActionExecutor.              *)
(*                                                                         *)
(* A point is what one condition of a rule looks at: a measurement of the  *)
(* device it names, reduced to whether the comparison with the threshold   *)
(* holds.  Time passes in ticks; a time stamp is kept as its age, up to    *)
(* the age from which no comparison tells it from an older one.            *)
(***************************************************************************)
EXTENDS Integers, Sequences

CONSTANTS
  Points,      \* what the conditions look at
  RuleNames,
  RuleFiles,   \* the contents of rules.json that are tried: RuleNames -> rule
  MaxAge,      \* snapshotMaxAgeMs, in ticks
  MaxDebounce, \* no debounceMs is longer; ages of evaluations end there
  MaxRestarts  \* bound: new processes

(* all: when.all, otherwise when.any; debounce is given per condition.     *)
IsRule(rule) ==
  /\ rule.points \subseteq Points /\ rule.points # {}
  /\ rule.all \in BOOLEAN /\ rule.arm \in BOOLEAN
  /\ rule.debounce \in [Points -> 0 .. MaxDebounce] /\ rule.cooldown \in Nat
  /\ rule.actions \in Seq({"command", "container-command", "maneuver", "log"})
  /\ rule.actions # << >>

ASSUME ConstantsAssumption ==
  /\ MaxAge \in Nat /\ MaxDebounce \in Nat /\ MaxRestarts \in Nat
  /\ \A file \in RuleFiles : \A r \in RuleNames : IsRule(file[r])

VARIABLES
  rules,    \* the rules of this installation
  value,    \* per point: the condition holds of the value recorded last
  age,      \* and the age of the record; MaxAge + 1: there is none
  state,    \* RuleState of each rule; held: age of conditionHeldSince, -1 for
            \* undefined; since: age of lastFiredAt, or no less than cooldown
  left,     \* actions that the executor has still to end
  running,
  restarts,
  \* for the properties only:
  failed,   \* per point: time since an evaluation did not see it hold
  calm,     \* an evaluation has seen the rule false since it last acted
  sawFalse  \* an evaluation had all values of the rule, and it did not hold

snapshot == <<value, age>>
history  == <<failed, calm, sawFalse>>
vars     == <<rules, snapshot, state, left, running, restarts, history>>

States == [fired : BOOLEAN, armed : BOOLEAN, since : Nat, held : [Points -> Int]]

TypeOK ==
  /\ rules \in RuleFiles
  /\ value \in [Points -> BOOLEAN] /\ age \in [Points -> 0 .. MaxAge + 1]
  /\ state \in [RuleNames -> States] /\ left \in [RuleNames -> Nat]
  /\ \A r \in RuleNames :
       /\ state[r].since <= rules[r].cooldown
       /\ \A p \in Points : state[r].held[p] \in -1 .. rules[r].debounce[p]
       /\ left[r] <= Len(rules[r].actions)
  /\ running \in BOOLEAN /\ restarts \in 0 .. MaxRestarts
  /\ failed \in [Points -> 0 .. MaxDebounce]
  /\ calm \in [RuleNames -> BOOLEAN] /\ sawFalse \in [RuleNames -> BOOLEAN]

(* What a process starts with, stateFor included.                          *)
Fresh(file) ==
  [r \in RuleNames |-> [fired |-> FALSE, armed |-> ~file[r].arm,
                        since |-> file[r].cooldown, held |-> [p \in Points |-> -1]]]

Init ==
  /\ rules \in RuleFiles
  /\ value = [p \in Points |-> FALSE] /\ age = [p \in Points |-> MaxAge + 1]
  /\ state = Fresh(rules) /\ left = [r \in RuleNames |-> 0]
  /\ running = TRUE /\ restarts = 0
  /\ failed = [p \in Points |-> 0]
  /\ calm = [r \in RuleNames |-> TRUE] /\ sawFalse = [r \in RuleNames |-> FALSE]

-----------------------------------------------------------------------------
(* snapshot() leaves out what is older than maxAgeMs.                      *)
Present(p) == age[p] <= MaxAge

Holds(p) == Present(p) /\ value[p]

From(held) == IF held < 0 THEN 0 ELSE held

(* Mutant: every evaluation starts the time again.                         *)
HeldFromNow(r, p) == IF Holds(p) THEN 0 ELSE -1

(* conditionHeldSince after this evaluation.                               *)
Held(r, p) == IF Holds(p) THEN From(state[r].held[p]) ELSE -1

Debounced(r, p) == Holds(p) /\ Held(r, p) >= rules[r].debounce[p]

IsTrue(r) ==
  IF rules[r].all THEN \A p \in rules[r].points : Debounced(r, p)
                  ELSE \E p \in rules[r].points : Debounced(r, p)

Arms(r) == ~IsTrue(r) /\ \A p \in rules[r].points : Present(p)

(* Mutant: a rule acts at every evaluation that finds it true.             *)
FiresAgain(r) ==
  IsTrue(r) /\ state[r].armed /\ state[r].since >= rules[r].cooldown

(* A rising edge of an armed rule outside its cooldown.                    *)
Fires(r) ==
  /\ IsTrue(r) /\ ~state[r].fired
  /\ state[r].armed /\ state[r].since >= rules[r].cooldown

-----------------------------------------------------------------------------
(* A MANAGEMENT job is recorded; what the queue and overlapping reads did  *)
(* to the order of the values is in the choice of the value.               *)
Record(p) ==
  /\ running
  /\ \E v \in BOOLEAN : value' = [value EXCEPT ![p] = v]
  /\ age' = [age EXCEPT ![p] = 0]
  /\ UNCHANGED <<rules, state, left, running, restarts, history>>

Resting == \A r \in RuleNames : left[r] = 0

(* The points that the evaluation has not seen hold, and the rules that it *)
(* has really seen false.                                                  *)
Observe ==
  /\ failed' = [p \in Points |-> IF Holds(p) THEN failed[p] ELSE 0]
  /\ calm' = [r \in RuleNames |-> IF Fires(r) THEN FALSE ELSE calm[r] \/ ~IsTrue(r)]
  /\ sawFalse' = [r \in RuleNames |->
       LET P == rules[r].points
           holds == IF rules[r].all THEN \A p \in P : Holds(p) ELSE \E p \in P : Holds(p)
       IN  sawFalse[r] \/ (~holds /\ \A p \in P : Present(p))]

(* runCycle: snapshot and evaluate, then execute() for all rules that      *)
(* fire.  The next cycle is scheduled when all of them have ended.  An     *)
(* edge of an unarmed rule, or within the cooldown, is used up.            *)
RunCycle ==
  /\ running /\ Resting
  /\ state' = [r \in RuleNames |->
       [fired |-> IsTrue(r), armed |-> state[r].armed \/ Arms(r),
        since |-> IF Fires(r) THEN 0 ELSE state[r].since,
        held |-> [p \in Points |-> IF p \in rules[r].points THEN Held(r, p) ELSE -1]]]
  /\ left' = [r \in RuleNames |-> IF Fires(r) THEN Len(rules[r].actions) ELSE 0]
  /\ Observe
  /\ UNCHANGED <<rules, snapshot, running, restarts>>

Action(r) == rules[r].actions[Len(rules[r].actions) - left[r] + 1]

(* The request of a container command waits for its answer for ever.       *)
NoLimit == {"container-command"}

(* Mutant: the action behind the one that has ended is left out.           *)
EndsAndSkips(r) ==
  /\ left[r] > 0 /\ left' = [left EXCEPT ![r] = @ - 2]
  /\ UNCHANGED <<rules, snapshot, state, running, restarts, history>>

(* An action ends, with success or without: the next one is run.  Commands *)
(* and manoeuvres have time limits, records are best-effort.               *)
ActionEnds(r) ==
  /\ left[r] > 0 /\ left' = [left EXCEPT ![r] = @ - 1]
  /\ UNCHANGED <<rules, snapshot, state, running, restarts, history>>

(* stop(): no further cycle; the actions that are running go on.           *)
Stop ==
  /\ running /\ running' = FALSE
  /\ UNCHANGED <<rules, snapshot, state, left, restarts, history>>

(* A new process, after stop() or a crash, has an empty snapshot and knows *)
(* nothing of what the rules have done.                                    *)
Restart ==
  /\ restarts < MaxRestarts /\ restarts' = restarts + 1
  /\ running' = TRUE
  /\ age' = [p \in Points |-> MaxAge + 1] /\ value' = [p \in Points |-> FALSE]
  /\ state' = Fresh(rules) /\ left' = [r \in RuleNames |-> 0]
  /\ failed' = [p \in Points |-> 0]
  /\ calm' = [r \in RuleNames |-> TRUE] /\ sawFalse' = [r \in RuleNames |-> FALSE]
  /\ UNCHANGED rules

Lesser(a, b) == IF a < b THEN a ELSE b

Tick ==
  /\ age' = [p \in Points |-> Lesser(age[p] + 1, MaxAge + 1)]
  /\ state' = [r \in RuleNames |->
       [fired |-> state[r].fired, armed |-> state[r].armed,
        since |-> Lesser(state[r].since + 1, rules[r].cooldown),
        held |-> [p \in Points |->
          IF state[r].held[p] = -1 THEN -1
          ELSE Lesser(state[r].held[p] + 1, rules[r].debounce[p])]]]
  /\ failed' = [p \in Points |-> Lesser(failed[p] + 1, MaxDebounce)]
  /\ UNCHANGED <<rules, value, left, running, restarts, calm, sawFalse>>

Next ==
  \/ \E p \in Points : Record(p)
  \/ RunCycle \/ Stop \/ Restart \/ Tick
  \/ \E r \in RuleNames : ActionEnds(r)

Spec == Init /\ [][Next]_vars

(* The timer of the cycle fires, time passes, and actions end that have a  *)
(* time limit.                                                             *)
FairSpec ==
  /\ Spec
  /\ WF_vars(RunCycle) /\ WF_vars(Tick)
  /\ \A r \in RuleNames : WF_vars(left[r] > 0 /\ Action(r) \notin NoLimit /\ ActionEnds(r))

-----------------------------------------------------------------------------
Starts(r) == left[r] = 0 /\ left'[r] > 0

(* A rule acts on fresh values that hold now and at every evaluation of    *)
(* the debounce time: on all its conditions, or for when.any on one.       *)
HeldLongEnough(r) ==
  LET lasting == {p \in rules[r].points :
                    age[p] <= MaxAge /\ value[p] /\ failed[p] >= rules[r].debounce[p]}
  IN  IF rules[r].all THEN lasting = rules[r].points ELSE lasting # {}

(* It acts once while it stays true, and not within its cooldown; with     *)
(* armAfterFalse, not before it was seen false.  (A rule whose conditions  *)
(* have a debounce is armed while they have not lasted, and then acts on   *)
(* conditions that were never false.)                                      *)
OncePerPeriod(r) ==
  /\ calm[r] /\ state[r].since >= rules[r].cooldown
  /\ rules[r].arm /\ (\A p \in rules[r].points : rules[r].debounce[p] = 0) => sawFalse[r]

(* Edge, debounce, cooldown and arming together let a rule act only when   *)
(* it should (RuleEvaluator.evaluate).                                     *)
ActsWithCause ==
  [][\A r \in RuleNames : Starts(r) => HeldLongEnough(r) /\ OncePerPeriod(r)]_vars

(* A rule with armAfterFalse does not act before it was seen false, as the *)
(* documentation of armAfterFalse has it: false of a rule with a debounce, *)
(* whose conditions count as false until they have lasted.                 *)
ArmedByFalse ==
  [][\A r \in RuleNames : Starts(r) /\ rules[r].arm => sawFalse[r]]_vars

(* The edge of a rule whose conditions hold from some time on is taken,    *)
(* the debounce and the other rules notwithstanding.                       *)
EdgeIsTaken ==
  \A r \in RuleNames :
    <>[](running /\ \A p \in rules[r].points : age[p] <= MaxAge /\ value[p]) /\ []<>Resting
      => <>[]state[r].fired
=============================================================================
