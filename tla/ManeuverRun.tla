----------------------------- MODULE ManeuverRun ----------------------------
(***************************************************************************)
(* One manoeuvre as OperationExecutor carries it out on the devices of one *)
(* system: runManeuver, runStepList, runRollbackSteps and resolveStep of   *)
(* packages/platform/commands/src/operation-executor.ts.  A raw command    *)
(* chain of an operation is the same thing without a rollback list.        *)
(*                                                                         *)
(* A command to a device is a call of ICommandChannel.execute, which never *)
(* throws: it answers "ok" or "failed" (a failed job, a read-back that did *)
(* not match, a queue timeout).  Targets are sets: resolution drops        *)
(* duplicates of deviceTypes, and records name no device twice in a step.  *)
(* State and specification have names of their own (stage, maneuverVars,   *)
(* ManeuverSpec), for OperationExecutor_proofs extends OperationRun too.   *)
(***************************************************************************)
EXTENDS Naturals, Sequences

CONSTANTS
  Devices,     \* devices of this system
  Maneuvers    \* manoeuvre records the registry may hold

Selector == [fixed : BOOLEAN, devs : SUBSET Devices]

(* fixed: the selector is a deviceId, taken as it is; otherwise deviceIds  *)
(* or deviceTypes, which resolve to the devices that are online.           *)
ManeuverType ==
  [ mode      : {"sequential", "parallel"},
    onFailure : {"stop", "continue", "rollback"},
    steps     : Seq([fixed : BOOLEAN, devs : SUBSET Devices, timer : BOOLEAN]),
    rollback  : Seq(Selector) ]

ASSUME ManeuversAssumption == Maneuvers \subseteq ManeuverType

VARIABLES
  maneuver, \* the record
  group,    \* deviceIds of the request; Devices when it names none
  online,   \* devices the registry shows as online
  stage,    \* "start", "steps", "rollback", "done"
  plan,     \* targets of each step, resolved up front
  call,     \* call[s][d]: the command of step s to device d
  empty,    \* steps with the outcome "no_available_targets"
  cur,      \* sequential mode: the step the chain is at
  armed,    \* <<s, d>> whose stop command was scheduled
  unarmed,  \* <<s, d>> whose scheduling failed (audited only)
  undo,     \* state of each rollback step
  rplan,    \* targets of each rollback step, resolved when it runs
  rcall     \* rcall[r][d]: the compensation r to device d

maneuverVars == <<maneuver, group, online, stage, plan, call, empty, cur,
                  armed, unarmed, undo, rplan, rcall>>

StepIx    == 1 .. Len(maneuver.steps)
Undos     == 1 .. Len(maneuver.rollback)
CallState == {"idle", "sent", "ok", "failed"}
Settled   == {"ok", "failed"}

ManeuverTypeOK ==
  /\ maneuver \in Maneuvers
  /\ group \subseteq Devices
  /\ online \subseteq Devices
  /\ stage \in {"start", "steps", "rollback", "done"}
  /\ plan \in [StepIx -> SUBSET Devices]
  /\ call \in [StepIx -> [Devices -> CallState]]
  /\ empty \subseteq StepIx
  /\ cur \in 1 .. Len(maneuver.steps) + 1
  /\ armed \subseteq StepIx \X Devices
  /\ unarmed \subseteq StepIx \X Devices
  /\ undo \in [Undos -> {"idle", "open", "closed"}]
  /\ rplan \in [Undos -> SUBSET Devices]
  /\ rcall \in [Undos -> [Devices -> CallState]]

ManeuverInit ==
  /\ maneuver \in Maneuvers
  /\ group \in SUBSET Devices
  /\ online \in SUBSET Devices
  /\ stage = "start"
  /\ plan = [s \in StepIx |-> {}]
  /\ call = [s \in StepIx |-> [d \in Devices |-> "idle"]]
  /\ empty = {}
  /\ cur = 1
  /\ armed = {} /\ unarmed = {}
  /\ undo = [r \in Undos |-> "idle"]
  /\ rplan = [r \in Undos |-> {}]
  /\ rcall = [r \in Undos |-> [d \in Devices |-> "idle"]]

-----------------------------------------------------------------------------
(* A device comes online or drops out; the registry follows.               *)
Availability ==
  /\ \E d \in Devices :
       online' = IF d \in online THEN online \ {d} ELSE online \cup {d}
  /\ UNCHANGED <<maneuver, group, stage, plan, call, empty, cur, armed, unarmed,
                 undo, rplan, rcall>>

(* resolveStep                                                             *)
Resolve(sel, g) == IF sel.fixed THEN sel.devs ELSE sel.devs \cap online \cap g

(* runStepList resolves every step before the first command is sent.  In   *)
(* parallel mode it then sends everything at once.                         *)
ResolveSteps ==
  /\ stage = "start"
  /\ stage' = "steps"
  /\ plan' = [s \in StepIx |-> Resolve(maneuver.steps[s], group)]
  /\ IF maneuver.mode = "parallel"
     THEN /\ call' = [s \in StepIx |-> [d \in Devices |->
                        IF d \in plan'[s] THEN "sent" ELSE "idle"]]
          /\ empty' = {s \in StepIx : plan'[s] = {}}
     ELSE UNCHANGED <<call, empty>>
  /\ UNCHANGED <<maneuver, group, online, cur, armed, unarmed, undo, rplan,
                 rcall>>

InFlight == {s \in StepIx : \E d \in Devices : call[s][d] = "sent"}

(* Sequential mode: the targets of the current step, one after the other,  *)
(* all of them even when one fails.                                        *)
SendNext(d) ==
  /\ stage = "steps" /\ maneuver.mode = "sequential" /\ cur \in StepIx
  /\ InFlight = {}
  /\ d \in plan[cur] /\ call[cur][d] = "idle"
  /\ call' = [call EXCEPT ![cur][d] = "sent"]
  /\ UNCHANGED <<maneuver, group, online, stage, plan, empty, cur, armed,
                 unarmed, undo, rplan, rcall>>

(* The stop command is scheduled, best effort: a failure is audited only.  *)
ScheduleTimer(s, d) ==
  \/ armed' = armed \cup {<<s, d>>} /\ UNCHANGED unarmed
  \/ unarmed' = unarmed \cup {<<s, d>>} /\ UNCHANGED armed

(* The channel answers; a success with a timer schedules the stop command. *)
Answer(s, d) ==
  /\ call[s][d] = "sent"
  /\ \/ /\ call' = [call EXCEPT ![s][d] = "failed"]
        /\ UNCHANGED <<armed, unarmed>>
     \/ /\ call' = [call EXCEPT ![s][d] = "ok"]
        /\ IF maneuver.steps[s].timer
           THEN ScheduleTimer(s, d)
           ELSE UNCHANGED <<armed, unarmed>>
  /\ UNCHANGED <<maneuver, group, online, stage, plan, empty, cur, undo, rplan,
                 rcall>>

StepOk(s) == plan[s] # {} /\ \A d \in plan[s] : call[s][d] = "ok"

(* Mutant: stopping resets the position.                                   *)
AdvanceResets ==
  /\ stage = "steps" /\ maneuver.mode = "sequential" /\ cur \in StepIx
  /\ \A d \in plan[cur] : call[cur][d] \in Settled
  /\ empty' = IF plan[cur] = {} THEN empty \cup {cur} ELSE empty
  /\ cur' = IF ~StepOk(cur) /\ maneuver.onFailure = "stop" THEN 0 ELSE cur + 1
  /\ UNCHANGED <<maneuver, group, online, stage, plan, call, armed, unarmed,
                 undo, rplan, rcall>>

(* The chain moves on; onFailure = "stop" ends it at the first failure,    *)
(* "continue" and "rollback" do not.                                       *)
Advance ==
  /\ stage = "steps" /\ maneuver.mode = "sequential" /\ cur \in StepIx
  /\ \A d \in plan[cur] : call[cur][d] \in Settled
  /\ empty' = IF plan[cur] = {} THEN empty \cup {cur} ELSE empty
  /\ cur' = IF ~StepOk(cur) /\ maneuver.onFailure = "stop"
            THEN Len(maneuver.steps) + 1 ELSE cur + 1
  /\ UNCHANGED <<maneuver, group, online, stage, plan, call, armed, unarmed,
                 undo, rplan, rcall>>

(* Mutant: steps without targets are forgotten.                            *)
SucceedsOnCalls == \A s \in StepIx, d \in Devices : call[s][d] # "failed"

StepsSucceed == empty = {} /\ \A s \in StepIx, d \in Devices : call[s][d] # "failed"

EndForward ==
  /\ stage = "steps" /\ InFlight = {}
  /\ maneuver.mode = "sequential" => cur \notin StepIx
  /\ stage' = IF ~StepsSucceed /\ maneuver.onFailure = "rollback"
              THEN "rollback" ELSE "done"
  /\ UNCHANGED <<maneuver, group, online, plan, call, empty, cur, armed,
                 unarmed, undo, rplan, rcall>>

-----------------------------------------------------------------------------
(* Compensation.  The rollback selectors are resolved again, now, without  *)
(* the group, and cut down to the devices any step succeeded on.           *)

Succeeded == {d \in Devices : \E s \in StepIx : call[s][d] = "ok"}

(* Mutant: every device of the selector is compensated.                    *)
OpenUndoAll(r) ==
  /\ stage = "rollback" /\ undo[r] = "idle"
  /\ maneuver.mode = "sequential" => \A q \in Undos : q > r => undo[q] = "closed"
  /\ undo' = [undo EXCEPT ![r] = "open"]
  /\ rplan' = [rplan EXCEPT ![r] = Resolve(maneuver.rollback[r], Devices)]
  /\ UNCHANGED <<maneuver, group, online, stage, plan, call, empty, cur, armed,
                 unarmed, rcall>>

OpenUndo(r) ==
  /\ stage = "rollback" /\ undo[r] = "idle"
  /\ maneuver.mode = "sequential" => \A q \in Undos : q > r => undo[q] = "closed"
  /\ undo' = [undo EXCEPT ![r] = "open"]
  /\ rplan' = [rplan EXCEPT ![r] = Resolve(maneuver.rollback[r], Devices) \cap Succeeded]
  /\ UNCHANGED <<maneuver, group, online, stage, plan, call, empty, cur, armed,
                 unarmed, rcall>>

UndoSend(r, d) ==
  /\ undo[r] = "open" /\ d \in rplan[r] /\ rcall[r][d] = "idle"
  /\ \A e \in Devices : rcall[r][e] # "sent"
  /\ rcall' = [rcall EXCEPT ![r][d] = "sent"]
  /\ UNCHANGED <<maneuver, group, online, stage, plan, call, empty, cur, armed,
                 unarmed, undo, rplan>>

(* A failed compensation is audited; the others go on.                     *)
UndoAnswer(r, d) ==
  /\ rcall[r][d] = "sent"
  /\ \E v \in Settled : rcall' = [rcall EXCEPT ![r][d] = v]
  /\ UNCHANGED <<maneuver, group, online, stage, plan, call, empty, cur, armed,
                 unarmed, undo, rplan>>

CloseUndo(r) ==
  /\ undo[r] = "open"
  /\ \A d \in rplan[r] : rcall[r][d] \in Settled
  /\ undo' = [undo EXCEPT ![r] = "closed"]
  /\ UNCHANGED <<maneuver, group, online, stage, plan, call, empty, cur, armed,
                 unarmed, rplan, rcall>>

(* Mutant: only a clean rollback ends.                                     *)
EndUndoClean ==
  /\ stage = "rollback"
  /\ \A r \in Undos : undo[r] = "closed" /\ \A d \in Devices : rcall[r][d] # "failed"
  /\ stage' = "done"
  /\ UNCHANGED <<maneuver, group, online, plan, call, empty, cur, armed,
                 unarmed, undo, rplan, rcall>>

EndUndo ==
  /\ stage = "rollback"
  /\ \A r \in Undos : undo[r] = "closed"
  /\ stage' = "done"
  /\ UNCHANGED <<maneuver, group, online, plan, call, empty, cur, armed,
                 unarmed, undo, rplan, rcall>>

-----------------------------------------------------------------------------
Forward  == \/ ResolveSteps \/ Advance \/ EndForward
            \/ \E d \in Devices : SendNext(d)
            \/ \E s \in StepIx, d \in Devices : Answer(s, d)

Backward == \/ \E r \in Undos : OpenUndo(r) \/ CloseUndo(r)
            \/ \E r \in Undos, d \in Devices : UndoSend(r, d) \/ UndoAnswer(r, d)
            \/ EndUndo

ManeuverNext == Forward \/ Backward \/ Availability

ManeuverSpec == ManeuverInit /\ [][ManeuverNext]_maneuverVars

(* The executor's own code runs on, and executeAndWait answers every       *)
(* command, if only with a timeout.                                        *)
FairManeuverSpec == ManeuverSpec /\ WF_maneuverVars(Forward \/ Backward)

-----------------------------------------------------------------------------
(* Properties.                                                             *)

(* success is reported only if every step had targets and every target of  *)
(* every step accepted its command, whichever steps were skipped.          *)
SuccessMeansAll ==
  stage = "done" /\ StepsSucceed => \A s \in StepIx : StepOk(s)

(* onFailure = "stop", sequential: behind a step that failed on a device   *)
(* or found none, no command is sent any more.                             *)
StopSendsNoMore ==
  maneuver.mode = "sequential" /\ maneuver.onFailure = "stop" =>
    \A s, t \in StepIx :
      /\ s < t
      /\ s \in empty \/ \E d \in Devices : call[s][d] = "failed"
      => \A d \in Devices : call[t][d] = "idle"

(* A device is sent a compensation only if a command of this very run      *)
(* succeeded on it, and not before every forward command is answered.      *)
UndoOnlyTouched ==
  \A r \in Undos, d \in Devices :
    rcall[r][d] # "idle" => d \in Succeeded /\ InFlight = {}

(* Best effort is complete: when the run is over, every rollback step was  *)
(* tried on every device the run had changed and that the selector still   *)
(* reached when the step was resolved.                                     *)
UndoComplete ==
  stage = "done" /\ ~StepsSucceed /\ maneuver.onFailure = "rollback" =>
    \A r \in Undos : \A d \in maneuver.rollback[r].devs \cap Succeeded :
      (maneuver.rollback[r].fixed \/ d \in rplan[r]) => rcall[r][d] \in Settled

(* Sequential compensation goes backwards, one command at a time.          *)
UndoReversed ==
  maneuver.mode = "sequential" =>
    \A r, q \in Undos, d, e \in Devices :
      /\ (r < q /\ rcall[r][d] # "idle") => rcall[q][e] # "sent"
      /\ (rcall[r][d] = "sent" /\ rcall[q][e] = "sent") => r = q /\ d = e

(* Every timed command that succeeded has its stop command scheduled, or   *)
(* the failure to schedule it on record, even if the step failed as a      *)
(* whole; no stop command is scheduled for any other.                      *)
TimersMatch ==
  \A s \in StepIx, d \in Devices :
    (maneuver.steps[s].timer /\ call[s][d] = "ok")
      <=> (<<s, d>> \in armed \cup unarmed)

(* The forward part of a run gives a true account of itself: its success,  *)
(* what a stop leaves undone and which stop commands are outstanding.      *)
StepsAccounted == SuccessMeansAll /\ StopSendsNoMore /\ TimersMatch

(* The backward part touches only devices this run has changed, leaves out *)
(* none that it still reaches, and goes in reverse.  It is said per        *)
(* device: which of the steps succeeded on it the code does not ask.       *)
UndoExact == UndoOnlyTouched /\ UndoComplete /\ UndoReversed

(* What OperationRun assumes of a local step.                              *)
Busy == InFlight # {} \/ \E r \in Undos, d \in Devices : rcall[r][d] = "sent"

Status == IF stage # "done" THEN "running"
          ELSE IF StepsSucceed THEN "ok" ELSE "failed"

Contract == INSTANCE LocalStep WITH status <- Status, busy <- Busy

(* A manoeuvre is such a step: it ends, once, with every command answered. *)
ImplementsLocalStep == Contract!Spec
=============================================================================
