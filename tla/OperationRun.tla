---------------------------- MODULE OperationRun ----------------------------
(***************************************************************************)
(* One run of an operation by OperationExecutor.execute                    *)
(* (packages/platform/commands/src/operation-executor.ts): the gate in     *)
(* front of the run, the fail-closed operation_runs row, the steps in      *)
(* sequential or parallel mode, the compensation list and the best-effort  *)
(* terminal status.  A step is a manoeuvre of this system ("local"), a     *)
(* raw command chain ("raw") or a manoeuvre of another system reached      *)
(* through the tunnel ("remote").  What a local step does to the devices   *)
(* is the business of ManeuverRun; here it ends well or badly.             *)
(***************************************************************************)
EXTENDS Naturals, Sequences

CONSTANTS
  Records,             \* operation records the registry may hold
  Setups               \* executors: has a remoteChannel, has remoteTimeoutMs > 0

StepKinds == {"local", "raw", "remote"}

(* "undoes" is the author's intent, which step an entry of the rollback    *)
(* list compensates; no code reads it.                                     *)
RecordType ==
  [ mode      : {"sequential", "parallel"},
    onFailure : {"stop", "continue", "rollback"},
    steps     : Seq(StepKinds),
    rollback  : Seq([kind : StepKinds, undoes : Nat]) ]

ASSUME RecordsAssumption == Records \subseteq RecordType
ASSUME SetupsAssumption  == Setups \subseteq [channel : BOOLEAN, limit : BOOLEAN]

VARIABLES
  setup,    \* the executor; a limit is the default (120 s)
  rec,      \* the record being executed
  phase,    \* how far execute() has come
  row,      \* status column of the operation_runs row, "none" before INSERT
  st,       \* state of each step's promise
  far,      \* what the remote system has done about each remote step
  order,    \* stepOutcomes: step indices in the order their outcomes arrived
  comp,     \* state of each entry of the rollback list
  rb,       \* rollback entry the compensation chain looks at next
  result    \* status returned to the caller

vars == <<setup, rec, phase, row, st, far, order, comp, rb, result>>

Steps      == 1 .. Len(rec.steps)
RollbackIx == 1 .. Len(rec.rollback)

StepStates == {"idle", "running", "ok", "failed", "lost"}
FarStates  == {"none", "sent", "ok", "failed"}
CompStates == {"idle", "running", "ok", "failed", "skipped", "unknown"}
Phases     == {"idle", "validated", "steps", "rollback", "finishing",
               "returned", "threw", "crashed"}
Verdicts   == {"completed", "failed", "rolled_back"}

TypeOK ==
  /\ setup \in Setups
  /\ rec \in Records
  /\ phase \in Phases
  /\ row \in {"none", "running"} \cup Verdicts
  /\ st \in [Steps -> StepStates]
  /\ far \in [Steps -> FarStates]
  /\ order \in Seq(Steps)
  /\ comp \in [RollbackIx -> CompStates]
  /\ rb \in 0 .. Len(rec.rollback)
  /\ result \in {"none", "rejected"} \cup Verdicts

Init ==
  /\ setup \in Setups
  /\ rec \in Records
  /\ phase = "idle"
  /\ row = "none"
  /\ st = [i \in Steps |-> "idle"]
  /\ far = [i \in Steps |-> "none"]
  /\ order = <<>>
  /\ comp = [i \in RollbackIx |-> "idle"]
  /\ rb = Len(rec.rollback)
  /\ result = "none"

-----------------------------------------------------------------------------
(* The gate: registry lookup, divideTotal parameters, precondition hook.   *)

Reject ==
  /\ phase = "idle"
  /\ phase' = "returned"
  /\ result' = "rejected"
  /\ UNCHANGED <<setup, rec, row, st, far, order, comp, rb>>

(* registry.resolve may throw (its database source is down): no row yet.   *)
LookupThrowsBeforeRun ==
  /\ phase = "idle"
  /\ phase' = "threw"
  /\ UNCHANGED <<setup, rec, row, st, far, order, comp, rb, result>>

Validate ==
  /\ phase = "idle"
  /\ phase' = "validated"
  /\ UNCHANGED <<setup, rec, row, st, far, order, comp, rb, result>>

BeginRun ==
  /\ phase = "validated"
  /\ phase' = "steps"
  /\ row' = "running"
  /\ UNCHANGED <<setup, rec, st, far, order, comp, rb, result>>

(* runs.begin throws: fail-closed, the run is refused.                     *)
BeginFails ==
  /\ phase = "validated"
  /\ phase' = "returned"
  /\ result' = "rejected"
  /\ UNCHANGED <<setup, rec, row, st, far, order, comp, rb>>

-----------------------------------------------------------------------------
(* Steps.                                                                  *)

Running == {i \in Steps : st[i] = "running"}

(* The sequential chain skips the rest only for onFailure = "stop".        *)
Stopped ==
  /\ rec.onFailure = "stop"
  /\ \E i \in Steps : st[i] = "failed"

Launch(S) ==
  /\ st' = [i \in Steps |-> IF i \in S THEN "running" ELSE st[i]]
  /\ far' = [i \in Steps |-> IF i \in S /\ rec.steps[i] = "remote" /\ setup.channel
                             THEN "sent" ELSE far[i]]

StartNext ==
  /\ phase = "steps" /\ rec.mode = "sequential"
  /\ Running = {} /\ ~Stopped
  /\ Len(order) < Len(rec.steps)
  /\ Launch({Len(order) + 1})
  /\ UNCHANGED <<setup, rec, phase, row, order, comp, rb, result>>

StartAll ==
  /\ phase = "steps" /\ rec.mode = "parallel"
  /\ \A i \in Steps : st[i] = "idle"
  /\ Steps # {}
  /\ Launch(Steps)
  /\ UNCHANGED <<setup, rec, phase, row, order, comp, rb, result>>

(* stepOutcomes.push                                                       *)
Settle(i, v) ==
  /\ phase = "steps" /\ st[i] = "running"
  /\ st' = [st EXCEPT ![i] = v]
  /\ order' = Append(order, i)
  /\ UNCHANGED <<setup, rec, phase, row, far, comp, rb, result>>

(* A local manoeuvre or raw chain ends; an unknown manoeuvre name is a     *)
(* failure of the step ("maneuver_not_found").                             *)
LocalStepEnds(i) ==
  /\ rec.steps[i] \in {"local", "raw"}
  /\ \E v \in {"ok", "failed"} : Settle(i, v)

(* registry.resolve of a manoeuvre step throws.  The sequential chain      *)
(* rejects and takes execute() with it; Promise.allSettled swallows the    *)
(* rejection and the step leaves no outcome.                               *)
StepLookupThrows(i) ==
  /\ phase = "steps" /\ st[i] = "running" /\ rec.steps[i] = "local"
  /\ st' = [st EXCEPT ![i] = "lost"]
  /\ phase' = IF rec.mode = "sequential" THEN "threw" ELSE phase
  /\ UNCHANGED <<setup, rec, row, far, order, comp, rb, result>>

(* The remote system carries the manoeuvre out, awaited or not.            *)
RemoteExecutes(i) ==
  /\ far[i] = "sent"
  /\ \E v \in {"ok", "failed"} : far' = [far EXCEPT ![i] = v]
  /\ UNCHANGED <<setup, rec, phase, row, st, order, comp, rb, result>>

RemoteReplies(i) == far[i] \in {"ok", "failed"} /\ Settle(i, far[i])

(* remoteChannel.execute rejects, or answers system_unreachable: the reply *)
(* or the request was lost in the tunnel.                                  *)
RemoteErrs(i) == setup.channel /\ rec.steps[i] = "remote" /\ Settle(i, "failed")

(* "remote_channel_not_available": the executor has no remote channel.     *)
RemoteUnavailable(i) ==
  ~setup.channel /\ rec.steps[i] = "remote" /\ Settle(i, "failed")

(* Mutant: the race has no timer.                                          *)
NoTimeout(i) == FALSE

(* The Promise.race timer wins: "remote_timeout".                          *)
RemoteTimesOut(i) ==
  /\ setup.limit /\ setup.channel
  /\ rec.steps[i] = "remote"
  /\ Settle(i, "failed")

StepsDone ==
  /\ phase = "steps" /\ Running = {}
  /\ IF rec.mode = "sequential"
     THEN Stopped \/ Len(order) = Len(rec.steps)
     ELSE \A i \in Steps : st[i] # "idle"

(* Mutant: some() for every().                                             *)
SomeSuccess == \E k \in 1 .. Len(order) : st[order[k]] = "ok"

(* success = stepOutcomes.every(ok): a step without an outcome is ignored. *)
Success == \A k \in 1 .. Len(order) : st[order[k]] = "ok"

RolledBack == ~Success /\ rec.onFailure = "rollback"

EndSteps ==
  /\ StepsDone
  /\ phase' = IF RolledBack THEN "rollback" ELSE "finishing"
  /\ UNCHANGED <<setup, rec, row, st, far, order, comp, rb, result>>

-----------------------------------------------------------------------------
(* Compensation: rollback[i] is paired with stepOutcomes[i], the pairs are *)
(* walked backwards, one at a time.                                        *)

(* Mutant: the outcome exists, but its ok flag is not read.                *)
PairedRan(i) == i <= Len(order)

PairedOk(i) == i <= Len(order) /\ st[order[i]] = "ok"

(* Mutant: the previous compensation is not awaited.                       *)
RollbackNextNoAwait ==
  /\ phase = "rollback" /\ rb > 0
  /\ comp' = [comp EXCEPT ![rb] = IF PairedOk(rb) THEN "running" ELSE "skipped"]
  /\ rb' = rb - 1
  /\ UNCHANGED <<setup, rec, phase, row, st, far, order, result>>

RollbackNext ==
  /\ phase = "rollback" /\ rb > 0
  /\ comp[rb] = "idle"
  /\ IF ~PairedOk(rb)
     THEN comp' = [comp EXCEPT ![rb] = "skipped"] /\ rb' = rb - 1
     ELSE IF rec.rollback[rb].kind = "remote" /\ ~setup.channel
     THEN comp' = [comp EXCEPT ![rb] = "failed"] /\ rb' = rb - 1
     ELSE comp' = [comp EXCEPT ![rb] = "running"] /\ rb' = rb
  /\ UNCHANGED <<setup, rec, phase, row, st, far, order, result>>

CompensationSettles(v) ==
  /\ phase = "rollback" /\ rb > 0
  /\ comp[rb] = "running"
  /\ comp' = [comp EXCEPT ![rb] = v]
  /\ rb' = rb - 1
  /\ UNCHANGED <<setup, rec, phase, row, st, far, order, result>>

(* Best effort: a failed compensation does not stop the others.            *)
CompensationEnds ==
  /\ rb > 0 /\ rec.rollback[rb].kind \in {"local", "raw"}
  /\ \E v \in {"ok", "failed"} : CompensationSettles(v)

(* A manoeuvre name that no longer resolves is passed over in silence.     *)
CompensationUnknown ==
  /\ rb > 0 /\ rec.rollback[rb].kind = "local"
  /\ CompensationSettles("unknown")

CompensationLookupThrows ==
  /\ phase = "rollback" /\ rb > 0
  /\ comp[rb] = "running" /\ rec.rollback[rb].kind = "local"
  /\ phase' = "threw"
  /\ UNCHANGED <<setup, rec, row, st, far, order, comp, rb, result>>

RemoteCompensationReplies ==
  /\ rb > 0 /\ rec.rollback[rb].kind = "remote"
  /\ \E v \in {"ok", "failed"} : CompensationSettles(v)

RemoteCompensationTimesOut ==
  /\ setup.limit
  /\ rb > 0 /\ rec.rollback[rb].kind = "remote"
  /\ CompensationSettles("failed")

EndRollback ==
  /\ phase = "rollback" /\ rb = 0
  /\ phase' = "finishing"
  /\ UNCHANGED <<setup, rec, row, st, far, order, comp, rb, result>>

-----------------------------------------------------------------------------
(* The end of execute(): the terminal status is written best-effort.       *)

Verdict == IF RolledBack THEN "rolled_back"
           ELSE IF Success THEN "completed" ELSE "failed"

(* Mutant: the caller is told the status of the row.                       *)
FinishWithRow ==
  /\ phase = "finishing"
  /\ phase' = "returned"
  /\ result' = row
  /\ row' \in {Verdict, row}
  /\ UNCHANGED <<setup, rec, st, far, order, comp, rb>>

(* runs.finish succeeds, or throws and is audited only.                    *)
FinishBestEffort == row' \in {Verdict, row}

Finish ==
  /\ phase = "finishing"
  /\ phase' = "returned"
  /\ result' = Verdict
  /\ FinishBestEffort
  /\ UNCHANGED <<setup, rec, st, far, order, comp, rb>>

(* The process dies.  Nothing at start-up looks at "running" rows.         *)
Crash ==
  /\ phase \notin {"returned", "threw", "crashed"}
  /\ phase' = "crashed"
  /\ UNCHANGED <<setup, rec, row, st, far, order, comp, rb, result>>

StepAction(i) ==
  \/ LocalStepEnds(i)
  \/ StepLookupThrows(i)
  \/ RemoteExecutes(i)
  \/ RemoteReplies(i)
  \/ RemoteErrs(i)
  \/ RemoteUnavailable(i)
  \/ RemoteTimesOut(i)

Next ==
  \/ Reject \/ LookupThrowsBeforeRun \/ Validate \/ BeginRun \/ BeginFails
  \/ StartNext \/ StartAll \/ EndSteps
  \/ \E i \in Steps : StepAction(i)
  \/ RollbackNext \/ CompensationEnds \/ CompensationUnknown
  \/ CompensationLookupThrows \/ RemoteCompensationReplies
  \/ RemoteCompensationTimesOut \/ EndRollback
  \/ Finish
  \/ Crash

Spec == Init /\ [][Next]_vars

(* A live process keeps executing its own code, local commands are bounded *)
(* by the queue's wait timeout, and timers fire.  Nothing is assumed of    *)
(* the remote system or of the tunnel.                                     *)
LocalProgress ==
  \/ StartNext \/ StartAll \/ EndSteps
  \/ RollbackNext \/ CompensationEnds \/ EndRollback \/ Finish
  \/ RemoteCompensationTimesOut

FairSpec ==
  /\ Spec
  /\ WF_vars(LocalProgress)
  /\ WF_vars(\E i \in Steps : \/ LocalStepEnds(i) \/ RemoteTimesOut(i)
                           \/ RemoteUnavailable(i))

-----------------------------------------------------------------------------
(* Properties.                                                             *)

(* runs.begin is fail-closed: no step of an operation ever starts unless   *)
(* its operation_runs row was written first, and a rejected request has    *)
(* neither a row nor an effect.                                            *)
FailClosed ==
  /\ (\E i \in Steps : st[i] # "idle") => row # "none"
  /\ result = "rejected" => row = "none" /\ \A i \in Steps : st[i] = "idle"

(* "completed", to the caller or in the table, is said only of a run all   *)
(* of whose steps were carried out and succeeded.                          *)
CompletedMeansDone ==
  "completed" \in {row, result} => \A i \in Steps : st[i] = "ok"

(* The code keeps that in sequential mode, whatever throws or is lost.     *)
SequentialCompletedMeansDone == rec.mode = "sequential" => CompletedMeansDone

(* A compensation runs only for a step that succeeded (the contract of     *)
(* runOperationRollback: "only successful steps").                         *)
CompensatesOnlySuccess ==
  \A c \in RollbackIx :
    comp[c] \notin {"idle", "skipped"} => st[rec.rollback[c].undoes] = "ok"

(* The author of the record listed the compensations in step order, and    *)
(* none beyond the last step.                                              *)
Aligned ==
  /\ Len(rec.rollback) <= Len(rec.steps)
  /\ \A c \in RollbackIx : rec.rollback[c].undoes = c

(* The code keeps that in sequential mode, if the list mirrors the steps.  *)
SequentialCompensatesOnlySuccess ==
  rec.mode = "sequential" /\ Aligned => CompensatesOnlySuccess

(* A run reported as rolled back has tried the compensation of every step  *)
(* that succeeded and has one, however the other compensations ended.      *)
CompensationComplete ==
  rec.mode = "sequential" /\ Aligned /\ result = "rolled_back" =>
    \A c \in RollbackIx :
      st[rec.rollback[c].undoes] = "ok" => comp[c] \in {"ok", "failed", "unknown"}

(* The compensations of a sequential run are exactly those of the steps    *)
(* that succeeded: none for another step while it runs, none left out of a *)
(* run reported as rolled back.                                            *)
CompensatesWhatSucceeded == SequentialCompensatesOnlySuccess /\ CompensationComplete

(* Compensations run one at a time, in reverse order of the list: the      *)
(* entry i is not touched before every later entry is through.             *)
ReverseOrder ==
  \A c, d \in RollbackIx :
    c < d /\ comp[c] # "idle" => comp[d] \notin {"idle", "running"}

(* No compensation runs while a step of the run is still under way, in     *)
(* either mode: Promise.allSettled and the sequential chain both wait.     *)
RollbackAfterSteps ==
  (\E c \in RollbackIx : comp[c] # "idle") => Running = {}

(* With onFailure = "stop" a sequential run starts no step behind a failed *)
(* one.                                                                    *)
StopSkipsRest ==
  rec.mode = "sequential" /\ rec.onFailure = "stop" =>
    \A i, j \in Steps : i < j /\ st[i] = "failed" => st[j] = "idle"

(* The order a run keeps whatever throws, is late or is lost: the row      *)
(* before the steps, no step behind a failed one that stops the run, the   *)
(* compensations behind all steps, and each behind its successors.         *)
OrderKept == FailClosed /\ StopSkipsRest /\ RollbackAfterSteps /\ ReverseOrder

(* Once its row is written a run comes to an end by itself, whatever the   *)
(* remote systems do: the remote timeout keeps it from hanging, and an     *)
(* executor without a remote channel needs none.                           *)
RunEnds ==
  (phase = "steps" /\ (setup.channel => setup.limit))
    ~> (phase \in {"returned", "threw", "crashed"})

-----------------------------------------------------------------------------
(* What a reachable state satisfies besides: the strengthening under which *)
(* the safety properties are inductive.                                    *)

Ended == {"rollback", "finishing", "returned"}

(* Steps start behind the row, compensations behind the steps.             *)
PhaseInv ==
  /\ phase \in {"idle", "validated"} => row = "none" /\ \A i \in Steps : st[i] = "idle"
  /\ phase \in {"steps", "rollback", "finishing"} => row = "running"
  /\ phase # "returned" => result = "none"
  /\ phase \in {"idle", "validated", "steps"} =>
       rb = Len(rec.rollback) /\ \A c \in RollbackIx : comp[c] = "idle"
  /\ (\E c \in RollbackIx : comp[c] # "idle") => phase # "steps" /\ Running = {}
  /\ phase \in {"rollback", "finishing"} => Running = {}
  /\ "completed" \in {row, result} => phase = "returned" /\ result # "rejected"

(* Outcomes arrive in step order in sequential mode: order is 1, 2, ...    *)
OrderInv ==
  rec.mode = "sequential" =>
    /\ Len(order) <= Len(rec.steps)
    /\ \A k \in 1 .. Len(order) : order[k] = k /\ st[k] \in {"ok", "failed"}
    /\ \A i \in Steps :
         /\ i = Len(order) + 1 => st[i] \in {"idle", "running", "lost"}
         /\ i > Len(order) + 1 => st[i] = "idle"
    /\ Stopped => \A i \in Steps : i > Len(order) => st[i] = "idle"
    /\ rec.onFailure = "stop" => \A i \in Steps : st[i] = "failed" => i = Len(order)
    /\ (\E i \in Steps : st[i] = "lost") => phase \in {"threw", "crashed"}
    /\ phase \in Ended /\ result # "rejected" => Stopped \/ Len(order) = Len(rec.steps)

(* The verdict is the one the outcomes call for.                           *)
VerdictInv ==
  /\ "completed" \in {row, result} => Success
  /\ phase = "rollback" => RolledBack
  /\ (phase = "finishing" /\ RolledBack) \/ result = "rolled_back" => rb = 0

(* The compensation chain walks down the list.                             *)
ChainInv ==
  \A c \in RollbackIx :
    /\ c < rb => comp[c] = "idle"
    /\ c = rb => comp[c] \in {"idle", "running"}
    /\ c > rb => comp[c] \notin {"idle", "running"}
    /\ comp[c] = "skipped" => ~PairedOk(c)
    /\ comp[c] \notin {"idle", "skipped"} => PairedOk(c)

IInv == TypeOK /\ FailClosed /\ PhaseInv /\ OrderInv /\ VerdictInv /\ ChainInv
=============================================================================
