---------------------- MODULE OperationExecutor_proofs ----------------------
(***************************************************************************)
(* Proofs about the two halves of OperationExecutor: the run of an         *)
(* operation (OperationRun), for any records and any executors, and the    *)
(* run of a manoeuvre (ManeuverRun), for any devices and any records; and  *)
(* that a manoeuvre is a step as an operation expects it (LocalStep).      *)
(* Every theorem is about one specification or the other.                  *)
(***************************************************************************)
EXTENDS OperationRun, ManeuverRun, SequenceTheorems, TLAPS

(* What a record of the repository looks like.                              *)
LEMMA RecordShape ==
  ASSUME rec \in Records
  PROVE  /\ rec.steps \in Seq(StepKinds)
         /\ Len(rec.steps) \in Nat
         /\ Len(rec.rollback) \in Nat
         /\ rec.mode \in {"sequential", "parallel"}
         /\ rec.onFailure \in {"stop", "continue", "rollback"}
BY RecordsAssumption DEF RecordType

(* Every action keeps the state of a run within its type.                  *)
LEMMA TypeStep == TypeOK /\ [Next]_vars => TypeOK'
<1> SUFFICES ASSUME TypeOK, [Next]_vars
             PROVE  TypeOK'
    OBVIOUS
<1> USE DEF TypeOK, Steps, RollbackIx, Phases, Verdicts
<1>a. rec \in Records /\ Len(rec.steps) \in Nat /\ Len(rec.rollback) \in Nat
  BY RecordShape
<1>1. CASE Reject \/ LookupThrowsBeforeRun \/ Validate \/ BeginRun \/ BeginFails
  BY <1>1 DEF Reject, LookupThrowsBeforeRun, Validate, BeginRun, BeginFails
<1>2. CASE StartNext
  <2>1. st' \in [Steps -> StepStates] /\ far' \in [Steps -> FarStates]
    BY <1>2 DEF StartNext, Launch, StepStates, FarStates
  <2> QED
    BY <1>2, <2>1 DEF StartNext
<1>3. CASE StartAll
  <2>1. st' \in [Steps -> StepStates] /\ far' \in [Steps -> FarStates]
    BY <1>3 DEF StartAll, Launch, StepStates, FarStates
  <2> QED
    BY <1>3, <2>1 DEF StartAll
<1>4. ASSUME NEW i \in Steps, StepAction(i)
      PROVE  TypeOK'
  <2>1. ASSUME NEW v \in {"ok", "failed"}, Settle(i, v)
        PROVE  TypeOK'
    <3>1. st' \in [Steps -> StepStates]
      BY <2>1 DEF Settle, StepStates
    <3>2. order' \in Seq(Steps)
      BY <2>1 DEF Settle
    <3> QED
      BY <2>1, <3>1, <3>2 DEF Settle
  <2>2. CASE LocalStepEnds(i)
    BY <2>1, <2>2 DEF LocalStepEnds
  <2>3. CASE StepLookupThrows(i)
    BY <2>3 DEF StepLookupThrows, StepStates
  <2>4. CASE RemoteExecutes(i)
    BY <2>4 DEF RemoteExecutes, FarStates
  <2>5. CASE RemoteReplies(i) \/ RemoteErrs(i) \/ RemoteUnavailable(i) \/ RemoteTimesOut(i)
    BY <2>1, <2>5 DEF RemoteReplies, RemoteErrs, RemoteUnavailable, RemoteTimesOut
  <2> QED
    BY <1>4, <2>2, <2>3, <2>4, <2>5 DEF StepAction
<1>5. CASE EndSteps
  BY <1>5 DEF EndSteps
<1>6. CASE RollbackNext
  BY <1>6, <1>a DEF RollbackNext, CompStates
<1>7. ASSUME NEW v \in {"ok", "failed", "unknown"}, CompensationSettles(v)
      PROVE  TypeOK'
  BY <1>7, <1>a DEF CompensationSettles, CompStates
<1>8. CASE CompensationEnds \/ CompensationUnknown
  BY <1>7, <1>8 DEF CompensationEnds, CompensationUnknown
<1>9. CASE CompensationLookupThrows
  BY <1>9 DEF CompensationLookupThrows
<1>10. CASE RemoteCompensationReplies \/ RemoteCompensationTimesOut
  BY <1>7, <1>10 DEF RemoteCompensationReplies, RemoteCompensationTimesOut
<1>11. CASE EndRollback \/ Crash
  BY <1>11 DEF EndRollback, Crash
<1>12. CASE Finish
  <2>1. Verdict \in Verdicts
    BY DEF Verdict
  <2> QED
    BY <1>12, <2>1 DEF Finish, FinishBestEffort
<1>13. CASE UNCHANGED vars
  BY <1>13 DEF vars
<1> QED
  BY <1>1, <1>2, <1>3, <1>4, <1>5, <1>6, <1>8, <1>9, <1>10, <1>11, <1>12, <1>13
     DEF Next

(* A run stays well typed, whatever record it executes.                    *)
THEOREM TypeCorrect == Spec => []TypeOK
<1>1. Init => TypeOK
  BY RecordShape DEF Init, TypeOK, Steps, RollbackIx, Phases, StepStates, FarStates,
     CompStates
<1> QED
  BY <1>1, TypeStep, PTL DEF Spec

-----------------------------------------------------------------------------
(* The actions that end a step are Settle with one of two values.          *)
Settles(i) == \E v \in {"ok", "failed"} : Settle(i, v)

(* A step ends by settling, by a lookup that throws, or reaches its peer.   *)
LEMMA StepActions ==
  ASSUME TypeOK, NEW i \in Steps, StepAction(i)
  PROVE  Settles(i) \/ StepLookupThrows(i) \/ RemoteExecutes(i)
<1>1. RemoteReplies(i) => Settles(i)
  BY DEF RemoteReplies, Settles
<1> QED
  BY <1>1 DEF StepAction, Settles, LocalStepEnds, RemoteErrs, RemoteUnavailable,
     RemoteTimesOut

(* A compensation ends by settling with one of three values.                *)
LEMMA CompensationActions ==
  ASSUME CompensationEnds \/ CompensationUnknown \/ RemoteCompensationReplies
           \/ RemoteCompensationTimesOut
  PROVE  \E v \in {"ok", "failed", "unknown"} : CompensationSettles(v)
BY DEF CompensationEnds, CompensationUnknown, RemoteCompensationReplies,
   RemoteCompensationTimesOut

(* Next, sorted by what the actions change.                                *)
LEMMA NextCases ==
  ASSUME TypeOK, [Next]_vars
  PROVE  \/ Reject \/ BeginRun \/ BeginFails \/ StartNext \/ StartAll
         \/ \E i \in Steps : Settles(i) \/ StepLookupThrows(i)
         \/ EndSteps \/ RollbackNext \/ EndRollback \/ Finish
         \/ \E v \in {"ok", "failed", "unknown"} : CompensationSettles(v)
         \/ /\ \/ phase = "idle" /\ phase' = "validated"
               \/ phase' \in {"threw", "crashed"} /\ phase \notin {"returned"}
               \/ phase' = phase
            /\ UNCHANGED <<setup, rec, row, st, order, comp, rb, result>>
<1>1. ASSUME NEW i \in Steps, StepAction(i)
      PROVE  \/ Settles(i) \/ StepLookupThrows(i)
             \/ phase' = phase /\ UNCHANGED <<setup, rec, row, st, order, comp, rb, result>>
  BY <1>1, StepActions DEF RemoteExecutes
<1>2. LookupThrowsBeforeRun \/ CompensationLookupThrows \/ Crash =>
        /\ phase' \in {"threw", "crashed"} /\ phase \notin {"returned"}
        /\ UNCHANGED <<setup, rec, row, st, order, comp, rb, result>>
  BY DEF LookupThrowsBeforeRun, CompensationLookupThrows, Crash
<1>3. Validate => /\ phase = "idle" /\ phase' = "validated"
                  /\ UNCHANGED <<setup, rec, row, st, order, comp, rb, result>>
  BY DEF Validate
<1>4. UNCHANGED vars =>
        phase' = phase /\ UNCHANGED <<setup, rec, row, st, order, comp, rb, result>>
  BY DEF vars
<1>5. CASE UNCHANGED vars
  BY <1>4, <1>5
<1>6. CASE Next
  BY <1>1, <1>2, <1>3, <1>6, CompensationActions DEF Next
<1> QED
  BY <1>5, <1>6

(* What Settle does to the list of outcomes.                               *)
LEMMA SettleFacts ==
  ASSUME TypeOK, NEW i \in Steps, Settles(i)
  PROVE  /\ phase = "steps" /\ st[i] = "running"
         /\ st'[i] \in {"ok", "failed"}
         /\ \A j \in Steps : j # i => st'[j] = st[j]
         /\ Len(order') = Len(order) + 1
         /\ order'[Len(order) + 1] = i
         /\ \A k \in 1 .. Len(order) : order'[k] = order[k]
         /\ UNCHANGED <<setup, rec, phase, row, comp, rb, result>>
<1>1. PICK v \in {"ok", "failed"} : Settle(i, v)
  BY DEF Settles
<1>2. order \in Seq(Steps) /\ order' = Append(order, i)
  BY <1>1 DEF Settle, TypeOK
<1> QED
  BY <1>1, <1>2 DEF Settle, TypeOK

(* Launching a set of steps marks exactly these as running.                 *)
LEMMA LaunchFacts ==
  ASSUME TypeOK, NEW S \in SUBSET Steps, Launch(S), rec' = rec
  PROVE  \A j \in Steps : st'[j] = IF j \in S THEN "running" ELSE st[j]
BY DEF Launch, Steps

(* A lookup that throws loses its own step, and ends a sequential run.      *)
LEMMA LookupFacts ==
  ASSUME TypeOK, NEW i \in Steps, StepLookupThrows(i)
  PROVE  /\ phase = "steps" /\ st[i] = "running" /\ st'[i] = "lost"
         /\ \A j \in Steps : j # i => st'[j] = st[j]
         /\ phase' = IF rec.mode = "sequential" THEN "threw" ELSE phase
         /\ UNCHANGED <<setup, rec, row, order, comp, rb, result>>
BY DEF StepLookupThrows, TypeOK

(* The steps of a run stay the same; none runs iff none is marked running.  *)
LEMMA RunningFacts ==
  ASSUME TypeOK, rec' = rec
  PROVE  /\ Steps' = Steps /\ RollbackIx' = RollbackIx
         /\ (Running = {}) <=> \A i \in Steps : st[i] # "running"
         /\ (Running' = {}) <=> \A i \in Steps : st'[i] # "running"
BY DEF Running, Steps, RollbackIx

-----------------------------------------------------------------------------
(* Steps run behind the row, compensations behind the steps.               *)
LEMMA PhaseStep == IInv /\ [Next]_vars => FailClosed' /\ PhaseInv'
<1> SUFFICES ASSUME IInv, [Next]_vars
             PROVE  FailClosed' /\ PhaseInv'
    OBVIOUS
<1> USE DEF IInv, FailClosed, PhaseInv
<1>t. TypeOK /\ TypeOK' /\ Len(rec.rollback) \in Nat /\ Len(rec.steps) \in Nat
  BY TypeStep, RecordShape DEF TypeOK
<1>1. CASE Reject \/ BeginRun \/ BeginFails
  BY <1>1, <1>t, RunningFacts DEF Reject, BeginRun, BeginFails
<1>2. CASE StartNext \/ StartAll
  BY <1>2, <1>t, RunningFacts DEF StartNext, StartAll
<1>3. ASSUME NEW i \in Steps, Settles(i)
      PROVE  FailClosed' /\ PhaseInv'
  BY <1>3, <1>t, SettleFacts, RunningFacts
<1>4. ASSUME NEW i \in Steps, StepLookupThrows(i)
      PROVE  FailClosed' /\ PhaseInv'
  BY <1>4, <1>t, LookupFacts, RunningFacts
<1>5. CASE EndSteps
  BY <1>5, <1>t, RunningFacts DEF EndSteps, StepsDone
<1>6. CASE RollbackNext
  BY <1>6, <1>t, RunningFacts DEF RollbackNext
<1>7. CASE EndRollback
  BY <1>7, <1>t, RunningFacts DEF EndRollback
<1>8. CASE Finish
  BY <1>8, <1>t, RunningFacts DEF Finish, FinishBestEffort, Verdict
<1>9. ASSUME NEW v \in {"ok", "failed", "unknown"}, CompensationSettles(v)
      PROVE  FailClosed' /\ PhaseInv'
  BY <1>9, <1>t, RunningFacts DEF CompensationSettles
<1>10. CASE /\ \/ phase = "idle" /\ phase' = "validated"
               \/ phase' \in {"threw", "crashed"} /\ phase \notin {"returned"}
               \/ phase' = phase
            /\ UNCHANGED <<setup, rec, row, st, order, comp, rb, result>>
  BY <1>10, <1>t, RunningFacts
<1> QED
  BY <1>t, <1>1, <1>2, <1>3, <1>4, <1>5, <1>6, <1>7, <1>8, <1>9, <1>10, NextCases

(* In sequential mode the outcomes arrive in the order of the steps.       *)
LEMMA OrderStep == IInv /\ [Next]_vars => OrderInv'
<1> SUFFICES ASSUME IInv, [Next]_vars, rec'.mode = "sequential"
             PROVE  OrderInv'
    BY DEF OrderInv
<1> USE DEF IInv, OrderInv, Ended
<1>t. TypeOK /\ TypeOK' /\ Len(rec.rollback) \in Nat /\ Len(rec.steps) \in Nat
  BY TypeStep, RecordShape DEF TypeOK
<1>u. Len(order) \in Nat
  BY DEF TypeOK
<1>r. rec' = rec
  BY <1>t, NextCases, SettleFacts, LookupFacts
     DEF Reject, BeginRun, BeginFails, StartNext, StartAll, EndSteps, RollbackNext,
         EndRollback, Finish, FinishBestEffort, CompensationSettles
<1>s. Stopped' <=> rec.onFailure = "stop" /\ \E i \in Steps : st'[i] = "failed"
  BY <1>r DEF Stopped, Steps
<1>1. CASE /\ UNCHANGED <<st, order>>
           /\ \/ phase' = phase /\ result' = result
              \/ phase' \notin Ended
              \/ phase \in Ended /\ result # "rejected"
              \/ result' = "rejected"
           /\ phase \in {"threw", "crashed"} => phase' \in {"threw", "crashed"}
  BY <1>1, <1>t, <1>u, <1>r, <1>s DEF Stopped, Steps
<1>2. CASE StartNext
  BY <1>2, <1>t, <1>u, <1>r, <1>s, LaunchFacts DEF StartNext, Stopped, Steps, Running
<1>3. ASSUME NEW i \in Steps, Settles(i)
      PROVE  OrderInv'
  BY <1>3, <1>t, <1>u, <1>r, <1>s, SettleFacts DEF Stopped, Steps, PhaseInv
<1>4. ASSUME NEW i \in Steps, StepLookupThrows(i)
      PROVE  OrderInv'
  BY <1>4, <1>t, <1>u, <1>r, <1>s, LookupFacts DEF Stopped, Steps
<1>5. CASE EndSteps
  BY <1>5, <1>t, <1>u, <1>r, <1>s DEF EndSteps, StepsDone, Stopped, Steps
<1> QED
  BY <1>t, <1>r, <1>1, <1>2, <1>3, <1>4, <1>5, NextCases
     DEF Reject, BeginRun, BeginFails, StartAll, RollbackNext, EndRollback, Finish, FinishBestEffort,
         CompensationSettles, PhaseInv

(* An outcome that has arrived does not change any more.                   *)
LEMMA OutcomesStand ==
  ASSUME TypeOK, [Next]_vars, phase \notin {"idle", "validated", "steps"}
  PROVE  /\ UNCHANGED <<rec, st, order>>
         /\ Success' = Success /\ RolledBack' = RolledBack
         /\ \A c \in RollbackIx : PairedOk(c)' = PairedOk(c)
<1>1. UNCHANGED <<rec, st, order>>
  BY NextCases, SettleFacts, LookupFacts
     DEF Reject, BeginRun, BeginFails, StartNext, StartAll, EndSteps, RollbackNext,
         EndRollback, Finish, FinishBestEffort, CompensationSettles
<1> QED
  BY <1>1 DEF Success, RolledBack, PairedOk, RollbackIx

(* The verdict is the one the outcomes call for.                           *)
LEMMA VerdictStep == IInv /\ [Next]_vars => VerdictInv'
<1> SUFFICES ASSUME IInv, [Next]_vars
             PROVE  VerdictInv'
    OBVIOUS
<1> USE DEF IInv, VerdictInv
<1>t. TypeOK
  OBVIOUS
<1>1. CASE phase \in {"idle", "validated", "steps"}
  <2>1. phase' # "returned" \/ result' = "rejected"
    BY <1>1, <1>t, NextCases, SettleFacts, LookupFacts
       DEF Reject, BeginRun, BeginFails, StartNext, StartAll, EndSteps, RollbackNext,
           EndRollback, Finish, FinishBestEffort, CompensationSettles
  <2>2. FailClosed' /\ PhaseInv'
    BY PhaseStep
  <2>3. "completed" \notin {row', result'} /\ result' # "rolled_back"
    BY <2>1, <2>2 DEF PhaseInv
  <2>4. (phase' = "rollback" => RolledBack') /\ (phase' = "finishing" => ~RolledBack')
    BY <1>1, <1>t, NextCases, SettleFacts, LookupFacts
       DEF Reject, BeginRun, BeginFails, StartNext, StartAll, EndSteps, RollbackNext,
           EndRollback, Finish, FinishBestEffort, CompensationSettles, RolledBack, Success
  <2> QED
    BY <2>3, <2>4
<1>2. CASE phase \notin {"idle", "validated", "steps"}
  <2>1. UNCHANGED <<rec, st, order>> /\ Success' = Success /\ RolledBack' = RolledBack
    BY <1>2, <1>t, OutcomesStand
  <2>2. CASE Finish
    BY <2>1, <2>2 DEF Finish, FinishBestEffort, Verdict, PhaseInv, RolledBack
  <2>3. CASE ~Finish
    <3>1. /\ UNCHANGED <<row, result>>
          /\ phase' = "rollback" => phase = "rollback"
          /\ phase' = "finishing" => phase = "finishing" \/ rb = 0
          /\ rb = 0 => rb' = 0
      BY <1>2, <2>3, <1>t, NextCases, SettleFacts, LookupFacts
         DEF Reject, BeginRun, BeginFails, StartNext, StartAll, EndSteps, RollbackNext,
             EndRollback, CompensationSettles, StepsDone
    <3> QED
      BY <2>1, <3>1
  <2> QED
    BY <2>2, <2>3
<1> QED
  BY <1>1, <1>2

(* The compensation chain walks down the list.                             *)
LEMMA ChainStep == IInv /\ [Next]_vars => ChainInv'
<1> SUFFICES ASSUME IInv, [Next]_vars, NEW c \in RollbackIx'
             PROVE  /\ c < rb' => comp'[c] = "idle"
                    /\ c = rb' => comp'[c] \in {"idle", "running"}
                    /\ c > rb' => comp'[c] \notin {"idle", "running"}
                    /\ comp'[c] = "skipped" => ~PairedOk(c)'
                    /\ comp'[c] \notin {"idle", "skipped"} => PairedOk(c)'
    BY DEF ChainInv
<1> USE DEF IInv, ChainInv
<1>t. TypeOK /\ TypeOK' /\ Len(rec.rollback) \in Nat
  BY TypeStep, RecordShape DEF TypeOK
<1>1. CASE phase \in {"idle", "validated", "steps"}
  <2>1. UNCHANGED <<rec, comp, rb>>
    BY <1>1, <1>t, NextCases, SettleFacts, LookupFacts
       DEF Reject, BeginRun, BeginFails, StartNext, StartAll, EndSteps, RollbackNext,
           EndRollback, Finish, FinishBestEffort, CompensationSettles
  <2> QED
    BY <1>1, <2>1, <1>t DEF PhaseInv, RollbackIx, TypeOK
<1>2. CASE phase \notin {"idle", "validated", "steps"}
  <2>1. UNCHANGED rec /\ c \in RollbackIx /\ PairedOk(c)' = PairedOk(c)
    BY <1>2, <1>t, OutcomesStand DEF RollbackIx
  <2>2. CASE RollbackNext
    BY <2>1, <2>2, <1>t DEF RollbackNext, RollbackIx, TypeOK, CompStates
  <2>3. ASSUME NEW v \in {"ok", "failed", "unknown"}, CompensationSettles(v)
        PROVE  /\ c < rb' => comp'[c] = "idle"
               /\ c = rb' => comp'[c] \in {"idle", "running"}
               /\ c > rb' => comp'[c] \notin {"idle", "running"}
               /\ comp'[c] = "skipped" => ~PairedOk(c)'
               /\ comp'[c] \notin {"idle", "skipped"} => PairedOk(c)'
    BY <2>1, <2>3, <1>t DEF CompensationSettles, RollbackIx, TypeOK, CompStates
  <2>4. CASE UNCHANGED <<comp, rb>>
    BY <2>1, <2>4
  <2> QED
    BY <1>2, <1>t, <2>2, <2>3, <2>4, NextCases, SettleFacts, LookupFacts
       DEF Reject, BeginRun, BeginFails, StartNext, StartAll, EndSteps, EndRollback, Finish
<1> QED
  BY <1>1, <1>2

(* The inductive invariant holds in every reachable state.                 *)
THEOREM Inductive == Spec => []IInv
<1>1. Init => IInv
  <2>1. Init => TypeOK
    BY RecordShape DEF Init, TypeOK, Steps, RollbackIx, Phases, StepStates, FarStates,
       CompStates
  <2> QED
    BY <2>1, RecordShape
       DEF Init, IInv, FailClosed, PhaseInv, OrderInv, VerdictInv, ChainInv, Ended,
           Stopped, Steps, RollbackIx, Running, Success, RolledBack
<1>2. IInv /\ [Next]_vars => IInv'
  BY TypeStep, PhaseStep, OrderStep, VerdictStep, ChainStep DEF IInv
<1> QED
  BY <1>1, <1>2, PTL DEF Spec

-----------------------------------------------------------------------------
(* No step starts before its operation_runs row is written.                *)
THEOREM FailClosedHolds == Spec => []FailClosed
<1>1. IInv => FailClosed
  BY DEF IInv
<1> QED
  BY <1>1, Inductive, PTL

(* A sequential run that is said to be completed did all of its steps.     *)
THEOREM CompletedHolds == Spec => []SequentialCompletedMeansDone
<1>1. ASSUME IInv, rec.mode = "sequential", "completed" \in {row, result}, NEW i \in Steps
      PROVE  st[i] = "ok"
  <2>1. phase = "returned" /\ result # "rejected" /\ Success
    BY <1>1 DEF IInv, PhaseInv, VerdictInv
  <2>2. rec.steps \in Seq(StepKinds) /\ Len(rec.steps) \in Nat /\ Len(order) \in Nat
    BY <1>1, RecordShape DEF IInv, TypeOK
  <2>3. \A k \in 1 .. Len(order) : order[k] = k /\ st[k] = "ok"
    BY <1>1, <2>1 DEF IInv, OrderInv, Success
  <2>4. ~Stopped
    <3> SUFFICES ASSUME NEW j \in Steps, st[j] = "failed", rec.onFailure = "stop"
                 PROVE  FALSE
        BY DEF Stopped
    <3>1. j = Len(order)
      BY <1>1 DEF IInv, OrderInv
    <3> QED
      BY <3>1, <2>2, <2>3 DEF Steps
  <2>5. Len(order) = Len(rec.steps)
    BY <1>1, <2>1, <2>4 DEF IInv, OrderInv, Ended
  <2> QED
    BY <2>3, <2>5 DEF Steps
<1>2. IInv => SequentialCompletedMeansDone
  BY <1>1 DEF SequentialCompletedMeansDone, CompletedMeansDone
<1> QED
  BY <1>2, Inductive, PTL

(* Sequential mode, mirrored list: only what succeeded is compensated.     *)
THEOREM CompensatesHolds == Spec => []SequentialCompensatesOnlySuccess
<1>1. ASSUME IInv, rec.mode = "sequential", Aligned, NEW c \in RollbackIx,
             comp[c] \notin {"idle", "skipped"}
      PROVE  st[rec.rollback[c].undoes] = "ok"
  <2>1. PairedOk(c) /\ rec.rollback[c].undoes = c /\ c \in Nat \ {0}
    BY <1>1 DEF IInv, ChainInv, Aligned, RollbackIx
  <2>2. order[c] = c
    BY <1>1, <2>1 DEF IInv, OrderInv, PairedOk, TypeOK
  <2> QED
    BY <2>1, <2>2 DEF PairedOk
<1>2. IInv => SequentialCompensatesOnlySuccess
  BY <1>1 DEF SequentialCompensatesOnlySuccess, CompensatesOnlySuccess
<1> QED
  BY <1>2, Inductive, PTL

(* ... and, in a run reported as rolled back, all of it.                   *)
THEOREM CompensationCompleteHolds == Spec => []CompensationComplete
<1>1. ASSUME IInv, rec.mode = "sequential", Aligned, result = "rolled_back",
             NEW c \in RollbackIx, st[rec.rollback[c].undoes] = "ok"
      PROVE  comp[c] \in {"ok", "failed", "unknown"}
  <2>1. rec.rollback[c].undoes = c /\ c \in Steps /\ c > rb
    BY <1>1, RecordShape DEF IInv, TypeOK, VerdictInv, Aligned, RollbackIx, Steps
  <2>2. PairedOk(c)
    BY <1>1, <2>1, RecordShape DEF IInv, TypeOK, OrderInv, PairedOk, Steps
  <2>3. comp[c] \notin {"idle", "running", "skipped"} /\ comp[c] \in CompStates
    BY <1>1, <2>1, <2>2 DEF IInv, ChainInv, TypeOK
  <2> QED
    BY <2>3 DEF CompStates
<1>2. IInv => CompensationComplete
  BY <1>1 DEF CompensationComplete
<1> QED
  BY <1>2, Inductive, PTL

(* Compensations run backwards, one at a time, behind all steps.           *)
THEOREM ReverseOrderHolds == Spec => []ReverseOrder /\ []RollbackAfterSteps
<1>1. IInv => ReverseOrder
  BY DEF IInv, TypeOK, ChainInv, ReverseOrder, RollbackIx
<1>2. IInv => RollbackAfterSteps
  BY DEF IInv, PhaseInv, RollbackAfterSteps
<1> QED
  BY <1>1, <1>2, Inductive, PTL

(* onFailure = "stop": no step starts behind a failed one.                 *)
THEOREM StopHolds == Spec => []StopSkipsRest
<1>1. ASSUME IInv, rec.mode = "sequential", rec.onFailure = "stop",
             NEW i \in Steps, NEW j \in Steps, i < j, st[i] = "failed"
      PROVE  st[j] = "idle"
  <2>1. i = Len(order) /\ Stopped
    BY <1>1 DEF IInv, OrderInv, Stopped
  <2> QED
    BY <1>1, <2>1 DEF IInv, OrderInv
<1>2. IInv => StopSkipsRest
  BY <1>1 DEF StopSkipsRest
<1> QED
  BY <1>2, Inductive, PTL

(* The compensations of a sequential run are exactly those of the steps    *)
(* that succeeded.                                                         *)
THEOREM CompensatesWhatSucceededHolds == Spec => []CompensatesWhatSucceeded
<1>1. SequentialCompensatesOnlySuccess /\ CompensationComplete => CompensatesWhatSucceeded
  BY DEF CompensatesWhatSucceeded
<1> QED
  BY <1>1, CompensatesHolds, CompensationCompleteHolds, PTL

(* The row, the steps and the compensations keep their order.              *)
THEOREM OrderKeptHolds == Spec => []OrderKept
<1>1. FailClosed /\ StopSkipsRest /\ RollbackAfterSteps /\ ReverseOrder => OrderKept
  BY DEF OrderKept
<1> QED
  BY <1>1, FailClosedHolds, StopHolds, ReverseOrderHolds, PTL

-----------------------------------------------------------------------------
(* Manoeuvres.                                                             *)

StepsOver == stage \in {"rollback", "done"}
Idle(s)   == \A d \in Devices : call[s][d] = "idle"

(* The step failed on a device or found none.                              *)
Failing(s) == s \in empty \/ \E d \in Devices : call[s][d] = "failed"

(* Every target has answered, and the want of targets is on record.        *)
Through(s) ==
  /\ \A d \in plan[s] : call[s][d] \in Settled
  /\ plan[s] = {} => s \in empty

(* The first of the failures that ends the chain lies before s.            *)
CutOff(s) == maneuver.onFailure = "stop" /\ \E q \in StepIx : q < s /\ Failing(q)

(* Commands go to targets only, and behind the forward part none is open.  *)
CallInv ==
  /\ \A s \in StepIx, d \in Devices : call[s][d] # "idle" => d \in plan[s]
  /\ \A s \in empty : plan[s] = {}
  /\ stage = "start" => cur = 1 /\ empty = {} /\ \A s \in StepIx : Idle(s)
  /\ StepsOver => InFlight = {}

ParallelInv ==
  maneuver.mode = "parallel" /\ stage # "start" =>
    \A s \in StepIx : /\ \A d \in plan[s] : call[s][d] # "idle"
                      /\ plan[s] = {} => s \in empty

(* The chain: what is behind cur is through or cut off, what is before it  *)
(* untouched.                                                              *)
StepChainInv ==
  maneuver.mode = "sequential" =>
    /\ \A s \in StepIx : s > cur => Idle(s)
    /\ \A s \in StepIx : s < cur => Through(s) \/ CutOff(s)
    /\ \A s \in empty : s < cur
    /\ \A s, t \in StepIx :
         maneuver.onFailure = "stop" /\ s < t /\ Failing(s) => Idle(t)
    /\ cur \in StepIx /\ maneuver.onFailure = "stop" =>
         \A s \in StepIx : s < cur => ~Failing(s)
    /\ StepsOver => cur \notin StepIx

(* Each rollback step: nothing before it is opened, its targets are what   *)
(* the run had changed and the selector reached, one command at a time,    *)
(* all of them answered when it is closed.                                 *)
UndoInv ==
  /\ \A r \in Undos : undo[r] = "idle" => \A d \in Devices : rcall[r][d] = "idle"
  /\ \A r \in Undos, d \in Devices : rcall[r][d] # "idle" => d \in rplan[r]
  /\ \A r \in Undos : undo[r] # "idle" => StepsOver /\ rplan[r] \subseteq Succeeded
  /\ \A r \in Undos : undo[r] = "open" => stage = "rollback"
  /\ \A r \in Undos : undo[r] # "idle" /\ maneuver.rollback[r].fixed =>
       \A d \in maneuver.rollback[r].devs \cap Succeeded : d \in rplan[r]
  /\ \A r \in Undos : undo[r] = "closed" => \A d \in rplan[r] : rcall[r][d] \in Settled
  /\ \A r \in Undos, d, e \in Devices :
       rcall[r][d] = "sent" /\ rcall[r][e] = "sent" => d = e

(* The rollback list is walked from its end.                               *)
ReverseInv ==
  maneuver.mode = "sequential" =>
    \A r, q \in Undos : r < q /\ undo[r] # "idle" => undo[q] = "closed"

(* The rollback runs exactly when the record asks for it.                  *)
EndInv ==
  /\ stage = "rollback" => ~StepsSucceed /\ maneuver.onFailure = "rollback"
  /\ stage = "done" /\ ~StepsSucceed /\ maneuver.onFailure = "rollback" =>
       \A r \in Undos : undo[r] = "closed"

ManeuverIInv ==
  /\ ManeuverTypeOK /\ CallInv /\ ParallelInv /\ StepChainInv /\ TimersMatch
  /\ UndoInv /\ ReverseInv /\ EndInv

-----------------------------------------------------------------------------
(* What a record looks like.                                               *)
LEMMA ManeuverShape ==
  ASSUME maneuver \in Maneuvers
  PROVE  /\ maneuver.mode \in {"sequential", "parallel"}
         /\ Len(maneuver.steps) \in Nat /\ Len(maneuver.rollback) \in Nat
         /\ \A s \in StepIx : maneuver.steps[s].devs \subseteq Devices
         /\ \A r \in Undos : maneuver.rollback[r].devs \subseteq Devices
<1> DEFINE StepType == [fixed : BOOLEAN, devs : SUBSET Devices, timer : BOOLEAN]
<1>1. /\ maneuver.mode \in {"sequential", "parallel"}
      /\ maneuver.steps \in Seq(StepType) /\ maneuver.rollback \in Seq(Selector)
  BY ManeuversAssumption DEF ManeuverType
<1>2. \A s \in StepIx : maneuver.steps[s] \in StepType
  <2> HIDE DEF StepType
  <2> QED BY <1>1, ElementOfSeq DEF StepIx
<1>3. \A r \in Undos : maneuver.rollback[r] \in Selector
  <2> HIDE DEF StepType
  <2> QED BY <1>1, ElementOfSeq DEF Undos
<1> QED BY <1>1, <1>2, <1>3 DEF Selector

(* A command changes its state, and no other does.                         *)
LEMMA CallAt ==
  ASSUME ManeuverTypeOK, NEW s \in StepIx, NEW d \in Devices, NEW v \in CallState,
         call' = [call EXCEPT ![s][d] = v]
  PROVE  /\ call' \in [StepIx -> [Devices -> CallState]]
         /\ \A t \in StepIx, e \in Devices :
              call'[t][e] = IF t = s /\ e = d THEN v ELSE call[t][e]
  BY DEF ManeuverTypeOK

LEMMA TimersFrame ==
  ASSUME TimersMatch, UNCHANGED <<maneuver, armed, unarmed>>,
         \A s \in StepIx, d \in Devices : call'[s][d] = "ok" <=> call[s][d] = "ok"
  PROVE  TimersMatch'
<1>1. StepIx' = StepIx
  BY DEF StepIx
<1> QED BY <1>1, Zenon DEF TimersMatch

LEMMA UndoCallAt ==
  ASSUME ManeuverTypeOK, NEW r \in Undos, NEW d \in Devices, NEW v \in CallState,
         rcall' = [rcall EXCEPT ![r][d] = v]
  PROVE  /\ rcall' \in [Undos -> [Devices -> CallState]]
         /\ \A q \in Undos, e \in Devices :
              rcall'[q][e] = IF q = r /\ e = d THEN v ELSE rcall[q][e]
  BY DEF ManeuverTypeOK

LEMMA InitHolds == ManeuverInit => ManeuverIInv
<1> SUFFICES ASSUME ManeuverInit PROVE ManeuverIInv
  OBVIOUS
<1>0. maneuver \in Maneuvers /\ Len(maneuver.steps) \in Nat /\ Len(maneuver.rollback) \in Nat
  BY ManeuverShape DEF ManeuverInit
<1>1. ManeuverTypeOK
  BY <1>0 DEF ManeuverInit, ManeuverTypeOK, CallState, StepIx
<1>2. CallInv /\ ParallelInv /\ TimersMatch
  BY DEF ManeuverInit, CallInv, ParallelInv, TimersMatch, Idle, StepsOver
<1>3. StepChainInv
  BY <1>0 DEF ManeuverInit, StepChainInv, StepsOver, Idle, Failing, StepIx
<1>4. UndoInv /\ ReverseInv /\ EndInv
  BY DEF ManeuverInit, UndoInv, ReverseInv, EndInv
<1> QED BY <1>1, <1>2, <1>3, <1>4 DEF ManeuverIInv

-----------------------------------------------------------------------------
(* The forward part.                                                       *)
LEMMA ResolveKeeps == ManeuverIInv /\ ResolveSteps => ManeuverIInv'
<1> SUFFICES ASSUME ManeuverIInv, ResolveSteps PROVE ManeuverIInv'
  OBVIOUS
<1> USE DEF ManeuverIInv
<1>0. /\ UNCHANGED <<maneuver, group, online, cur, armed, unarmed, undo, rplan, rcall>>
      /\ StepIx' = StepIx /\ Undos' = Undos
      /\ stage = "start" /\ stage' = "steps"
  BY DEF ResolveSteps, StepIx, Undos
<1>1. plan' \in [StepIx -> SUBSET Devices]
  BY ManeuverShape DEF ResolveSteps, Resolve, ManeuverTypeOK
<1>2. cur = 1 /\ empty = {} /\ \A s \in StepIx, d \in Devices : call[s][d] = "idle"
  BY <1>0 DEF CallInv, Idle
<1>3. /\ call' \in [StepIx -> [Devices -> CallState]]
      /\ \A s \in StepIx, d \in Devices :
           /\ call'[s][d] \in {"idle", "sent"}
           /\ call'[s][d] # "idle" => d \in plan'[s]
      /\ empty' \subseteq StepIx /\ \A s \in empty' : plan'[s] = {}
  <2>1. CASE maneuver.mode = "parallel"
    <3>1. call' = [s \in StepIx |-> [d \in Devices |->
                    IF d \in plan'[s] THEN "sent" ELSE "idle"]]
      BY <2>1 DEF ResolveSteps
    <3>2. empty' = {s \in StepIx : plan'[s] = {}}
      BY <2>1 DEF ResolveSteps
    <3> QED BY <3>1, <3>2 DEF CallState
  <2>2. CASE maneuver.mode # "parallel"
    <3>1. UNCHANGED <<call, empty>>
      BY <2>2 DEF ResolveSteps
    <3> QED BY <1>2, <3>1 DEF ManeuverTypeOK
  <2> QED BY <2>1, <2>2
<1>4. ManeuverTypeOK'
  BY <1>0, <1>1, <1>3 DEF ManeuverTypeOK
<1>5. CallInv' /\ EndInv'
  BY <1>0, <1>3 DEF CallInv, StepsOver, EndInv
<1>6. ParallelInv'
  BY <1>0, <1>1, <1>3 DEF ParallelInv, ResolveSteps
<1>7. StepChainInv'
  <2> SUFFICES ASSUME maneuver.mode = "sequential" PROVE StepChainInv'
    BY <1>0 DEF StepChainInv
  <2>1. call' = call /\ empty' = {}
    BY <1>2 DEF ResolveSteps
  <2>2. \A s \in StepIx : ~(s < cur)
    BY <1>2 DEF StepIx
  <2> QED BY <1>0, <1>2, <2>1, <2>2 DEF StepChainInv, Idle, Failing, StepsOver
<1>8. TimersMatch'
  BY <1>0, <1>2, <1>3 DEF TimersMatch
<1>9. UndoInv' /\ ReverseInv'
  <2>1. \A r \in Undos : undo[r] = "idle"
    BY <1>0 DEF UndoInv, StepsOver
  <2> QED BY <1>0, <2>1 DEF UndoInv, ReverseInv
<1> QED BY <1>4, <1>5, <1>6, <1>7, <1>8, <1>9

(* Before the rollback begins its part of the invariant says only that     *)
(* nothing of it has happened.                                             *)
LEMMA UndoUntouched ==
  ASSUME ManeuverIInv, ~StepsOver, UNCHANGED <<maneuver, undo, rplan, rcall>>
  PROVE  UndoInv' /\ ReverseInv'
<1>1. \A r \in Undos : undo[r] = "idle"
  BY DEF ManeuverIInv, UndoInv
<1>2. Undos' = Undos
  BY DEF Undos
<1> QED BY <1>1, <1>2 DEF ManeuverIInv, UndoInv, ReverseInv

LEMMA SendKeeps ==
  ASSUME ManeuverIInv, NEW d \in Devices, SendNext(d)
  PROVE  ManeuverIInv'
<1> USE DEF ManeuverIInv
<1>0. /\ UNCHANGED <<maneuver, group, online, stage, plan, empty, cur, armed, unarmed,
                     undo, rplan, rcall>>
      /\ StepIx' = StepIx /\ Undos' = Undos
      /\ stage = "steps" /\ maneuver.mode = "sequential" /\ cur \in StepIx
      /\ d \in plan[cur] /\ call[cur][d] = "idle"
  BY DEF SendNext, StepIx, Undos
<1>1. /\ call' \in [StepIx -> [Devices -> CallState]]
      /\ \A t \in StepIx, e \in Devices :
           call'[t][e] = IF t = cur /\ e = d THEN "sent" ELSE call[t][e]
  <2>1. call' = [call EXCEPT ![cur][d] = "sent"] /\ "sent" \in CallState
    BY DEF SendNext, CallState
  <2> QED BY <1>0, <2>1, CallAt
<1>2. ManeuverTypeOK'
  BY <1>0, <1>1 DEF ManeuverTypeOK
<1>3. CallInv' /\ ParallelInv' /\ EndInv'
  BY <1>0, <1>1 DEF CallInv, StepsOver, ParallelInv, EndInv
<1>4. StepChainInv'
  <2>1. \A s \in StepIx : Failing(s)' <=> Failing(s)
    BY <1>0, <1>1 DEF Failing
  <2>2. cur \in Nat /\ StepIx \subseteq Nat
    BY <1>0 DEF StepIx
  <2>3. \A s \in StepIx : s # cur => (Idle(s)' <=> Idle(s)) /\ (Through(s)' <=> Through(s))
    BY <1>0, <1>1 DEF Idle, Through, ManeuverTypeOK
  <2>4. \A s \in StepIx : CutOff(s)' <=> CutOff(s)
    BY <1>0, <2>1 DEF CutOff
  <2>5. maneuver.onFailure = "stop" => \A s \in StepIx : s < cur => ~Failing(s)
    BY <1>0 DEF StepChainInv
  <2>6. \A s \in StepIx : s > cur => Idle(s)'
    <3>1. \A s \in StepIx : s > cur => Idle(s) /\ s # cur
      BY <1>0, <2>2 DEF StepChainInv
    <3> QED BY <2>3, <3>1
  <2>7. \A s \in StepIx : s < cur => Through(s)' \/ CutOff(s)'
    BY <1>0, <2>2, <2>3, <2>4 DEF StepChainInv
  <2>8. \A s, t \in StepIx :
          maneuver.onFailure = "stop" /\ s < t /\ Failing(s)' => Idle(t)'
    BY <1>0, <2>1, <2>2, <2>3, <2>5 DEF StepChainInv
  <2>9. maneuver.onFailure = "stop" => \A s \in StepIx : s < cur => ~Failing(s)'
    BY <2>1, <2>5
  <2> QED BY <1>0, <2>6, <2>7, <2>8, <2>9 DEF StepChainInv, StepsOver
<1>5. TimersMatch'
  BY <1>0, <1>1, TimersFrame
<1>6. UndoInv' /\ ReverseInv'
  BY <1>0, UndoUntouched DEF StepsOver
<1> QED BY <1>2, <1>3, <1>4, <1>5, <1>6

(* The channel answers one command; while it was open, nothing was behind. *)
LEMMA AnswerKeeps ==
  ASSUME ManeuverIInv, NEW s \in StepIx, NEW d \in Devices, Answer(s, d)
  PROVE  ManeuverIInv'
<1> USE DEF ManeuverIInv
<1>0. /\ UNCHANGED <<maneuver, group, online, stage, plan, empty, cur, undo, rplan, rcall>>
      /\ StepIx' = StepIx /\ Undos' = Undos /\ call[s][d] = "sent"
  BY DEF Answer, StepIx, Undos
<1>1. PICK v \in Settled :
        /\ call' = [call EXCEPT ![s][d] = v]
        /\ IF v = "ok" /\ maneuver.steps[s].timer
           THEN \/ armed' = armed \cup {<<s, d>>} /\ UNCHANGED unarmed
                \/ unarmed' = unarmed \cup {<<s, d>>} /\ UNCHANGED armed
           ELSE UNCHANGED <<armed, unarmed>>
  BY Zenon DEF Answer, ScheduleTimer, Settled
<1>2. /\ call' \in [StepIx -> [Devices -> CallState]]
      /\ \A t \in StepIx, e \in Devices :
           call'[t][e] = IF t = s /\ e = d THEN v ELSE call[t][e]
  <2>1. v \in CallState
    BY DEF CallState, Settled
  <2> QED BY <1>1, <2>1, CallAt
<1>3. ManeuverTypeOK'
  <2>1. armed' \subseteq StepIx \X Devices /\ unarmed' \subseteq StepIx \X Devices
    BY <1>1 DEF ManeuverTypeOK
  <2> QED BY <1>0, <1>2, <2>1 DEF ManeuverTypeOK
<1>4. s \in InFlight /\ v # "idle" /\ v # "sent" /\ ~StepsOver
  BY <1>0, <1>1 DEF InFlight, CallInv, Settled
<1>5. CallInv' /\ ParallelInv' /\ EndInv'
  <2>1. ~StepsOver' /\ stage # "start" /\ stage' # "start"
    BY <1>0, <1>4 DEF StepsOver, CallInv, Idle
  <2>2. \A t \in StepIx, e \in Devices :
          /\ call'[t][e] = "idle" <=> call[t][e] = "idle"
          /\ call'[t][e] # "idle" => e \in plan[t]
    BY <1>0, <1>2, <1>4 DEF CallInv
  <2>3. CallInv'
    BY <1>0, <2>1, <2>2 DEF CallInv
  <2>4. ParallelInv'
    BY <1>0, <2>1, <2>2 DEF ParallelInv, ManeuverTypeOK
  <2>5. EndInv'
    BY <2>1 DEF EndInv, StepsOver
  <2> QED BY <2>3, <2>4, <2>5
<1>6. StepChainInv'
  <2> SUFFICES ASSUME maneuver.mode = "sequential" PROVE StepChainInv'
    BY <1>0 DEF StepChainInv
  <2>0. cur \in Nat /\ s \in Nat /\ StepIx \subseteq Nat
    BY ManeuverShape DEF ManeuverTypeOK, StepIx
  <2>1. s = cur
    <3>1. ~(s > cur)
      BY <1>0 DEF StepChainInv, Idle
    <3>2. ASSUME s < cur PROVE FALSE
      <4>1. d \in plan[s] /\ ~Through(s)
        BY <1>0 DEF CallInv, Through, Settled
      <4>2. CutOff(s)
        BY <3>2, <4>1 DEF StepChainInv
      <4>3. Idle(s)
        BY <4>2 DEF CutOff, StepChainInv
      <4> QED BY <1>0, <4>3 DEF Idle
    <3> QED BY <2>0, <3>1, <3>2
  <2>2. \A t \in StepIx : t # cur =>
          /\ Idle(t)' <=> Idle(t)
          /\ Through(t)' <=> Through(t)
          /\ Failing(t)' <=> Failing(t)
    BY <1>0, <1>2, <2>1 DEF Idle, Through, Failing, ManeuverTypeOK
  <2>3. ASSUME NEW t \in StepIx, t < cur, CutOff(t) PROVE CutOff(t)'
    <3>1. PICK q \in StepIx : q < t /\ Failing(q)
      BY <2>3 DEF CutOff
    <3>2. q # cur
      BY <2>0, <2>3, <3>1
    <3> QED BY <1>0, <2>2, <2>3, <3>1, <3>2 DEF CutOff
  <2>4. \A t \in StepIx : t > cur => Idle(t) /\ Idle(t)'
    <3>1. \A t \in StepIx : t > cur => Idle(t) /\ t # cur
      BY <2>0 DEF StepChainInv
    <3> QED BY <2>2, <3>1
  <2>5. \A t \in StepIx : t < cur => Through(t)' \/ CutOff(t)'
    <3>1. \A t \in StepIx : t < cur => (Through(t) \/ CutOff(t)) /\ t # cur
      BY <2>0 DEF StepChainInv
    <3> QED BY <2>2, <2>3, <3>1
  <2>6. ASSUME maneuver.onFailure = "stop" PROVE \A t \in StepIx : t < cur => ~Failing(t)'
    <3>1. \A t \in StepIx : t < cur => ~Failing(t) /\ t # cur
      BY <1>0, <2>0, <2>1, <2>6 DEF StepChainInv
    <3> QED BY <2>2, <3>1
  <2>7. ASSUME NEW q \in StepIx, NEW t \in StepIx, maneuver.onFailure = "stop", q < t, Failing(q)'
        PROVE  Idle(t)'
    <3>1. ~(q < cur)
      BY <2>6, <2>7
    <3>2. t > cur
      BY <2>0, <2>7, <3>1
    <3> QED BY <2>4, <3>2
  <2>8. \A t \in empty : t < cur
    BY DEF StepChainInv
  <2> QED BY <1>0, <1>4, <2>4, <2>5, <2>6, <2>7, <2>8 DEF StepChainInv, StepsOver
<1>7. TimersMatch'
  <2>1. \A t \in StepIx, e \in Devices : ~(t = s /\ e = d) =>
          /\ call'[t][e] = call[t][e]
          /\ (<<t, e>> \in armed' \cup unarmed') <=> (<<t, e>> \in armed \cup unarmed)
    BY <1>1, <1>2
  <2>2. <<s, d>> \notin armed \cup unarmed
    BY <1>0 DEF TimersMatch
  <2>3. (maneuver.steps[s].timer /\ call'[s][d] = "ok") <=> (<<s, d>> \in armed' \cup unarmed')
    <3>1. CASE v = "ok" /\ maneuver.steps[s].timer
      <4>1. <<s, d>> \in armed' \cup unarmed'
        BY <1>1, <3>1
      <4> QED BY <1>2, <3>1, <4>1, Zenon
    <3>2. CASE ~(v = "ok" /\ maneuver.steps[s].timer)
      <4>1. <<s, d>> \notin armed' \cup unarmed'
        BY <1>1, <2>2, <3>2
      <4>2. call'[s][d] = v
        BY <1>2
      <4> QED BY <3>2, <4>1, <4>2, Zenon
    <3> QED BY <3>1, <3>2
  <2>4. \A t \in StepIx, e \in Devices :
          (maneuver.steps[t].timer /\ call'[t][e] = "ok") <=> (<<t, e>> \in armed' \cup unarmed')
    <3> TAKE t \in StepIx, e \in Devices
    <3>1. CASE t = s /\ e = d
      BY <2>3, <3>1, Zenon
    <3>2. CASE ~(t = s /\ e = d)
      <4>1. (maneuver.steps[t].timer /\ call[t][e] = "ok") <=> (<<t, e>> \in armed \cup unarmed)
        BY Zenon DEF TimersMatch
      <4> QED BY <2>1, <3>2, <4>1, Zenon
    <3> QED BY <3>1, <3>2
  <2>5. maneuver' = maneuver /\ StepIx' = StepIx
    BY <1>0
  <2> QED BY <2>4, <2>5, Zenon DEF TimersMatch
<1>8. UndoInv' /\ ReverseInv'
  BY <1>0, <1>4, UndoUntouched
<1> QED BY <1>3, <1>5, <1>6, <1>7, <1>8

(* The chain moves to the next step, or behind the last one.               *)
LEMMA AdvanceKeeps == ManeuverIInv /\ Advance => ManeuverIInv'
<1> SUFFICES ASSUME ManeuverIInv, Advance PROVE ManeuverIInv'
  OBVIOUS
<1> USE DEF ManeuverIInv
<1>0. /\ UNCHANGED <<maneuver, group, online, stage, plan, call, armed, unarmed, undo,
                     rplan, rcall>>
      /\ StepIx' = StepIx /\ Undos' = Undos
      /\ stage = "steps" /\ maneuver.mode = "sequential" /\ cur \in StepIx
      /\ empty' = IF plan[cur] = {} THEN empty \cup {cur} ELSE empty
      /\ cur' = IF ~StepOk(cur) /\ maneuver.onFailure = "stop"
                THEN Len(maneuver.steps) + 1 ELSE cur + 1
  BY DEF Advance, StepIx, Undos
<1>1. Len(maneuver.steps) \in Nat /\ cur \in Nat /\ StepIx = 1 .. Len(maneuver.steps)
  BY <1>0, ManeuverShape DEF ManeuverTypeOK, StepIx
<1>2. ManeuverTypeOK'
  <2>1. cur' \in 1 .. Len(maneuver.steps) + 1 /\ empty' \subseteq StepIx
    BY <1>0, <1>1 DEF ManeuverTypeOK
  <2> QED BY <1>0, <2>1 DEF ManeuverTypeOK
<1>3. CallInv' /\ EndInv' /\ ParallelInv'
  BY <1>0 DEF CallInv, StepsOver, EndInv, ParallelInv
<1>4. TimersMatch'
  BY <1>0, TimersFrame
<1>5. UndoInv' /\ ReverseInv'
  BY <1>0, UndoUntouched DEF StepsOver
<1>6. StepChainInv'
  <2>0. PICK c \in StepIx : c = cur
    BY <1>0
  <2>1. \A t \in StepIx : (Idle(t)' <=> Idle(t)) /\ (Through(t) => Through(t)')
    BY <1>0 DEF Idle, Through
  <2>2. \A t \in StepIx : t # cur => (Failing(t)' <=> Failing(t))
    BY <1>0 DEF Failing
  <2>3. \A t \in StepIx : CutOff(t) => CutOff(t)'
    BY <1>0 DEF CutOff, Failing
  <2>4. Through(c)'
    BY <1>0, <2>0 DEF Advance, Through
  <2>5. cur < cur' /\ \A t \in empty' : t < cur'
    BY <1>0, <1>1 DEF StepChainInv, ManeuverTypeOK
  <2>6. \A t \in StepIx : t > cur' => Idle(t)'
    <3>1. \A t \in StepIx : t > cur' => t > cur
      BY <1>1, <1>2, <2>5 DEF ManeuverTypeOK
    <3> QED BY <1>0, <2>1, <3>1 DEF StepChainInv
  <2>7. Failing(c)' => ~StepOk(cur)
    BY <1>0, <2>0 DEF Failing, StepOk, StepChainInv, CallInv
  <2>8. ASSUME ~StepOk(cur) PROVE Failing(c)'
    <3>1. CASE plan[cur] = {}
      BY <1>0, <2>0, <3>1 DEF Failing
    <3>2. CASE plan[cur] # {}
      <4>1. PICK e \in plan[cur] : call[cur][e] # "ok"
        BY <2>8, <3>2 DEF StepOk
      <4>2. call[cur][e] = "failed" /\ e \in Devices
        BY <1>0, <4>1 DEF Advance, Settled, ManeuverTypeOK
      <4> QED BY <1>0, <2>0, <4>2 DEF Failing
    <3> QED BY <3>1, <3>2
  <2>9. \A t \in StepIx : t < cur' => Through(t)' \/ CutOff(t)'
    <3> SUFFICES ASSUME NEW t \in StepIx, t < cur' PROVE Through(t)' \/ CutOff(t)'
      OBVIOUS
    <3>1. CASE t < cur
      BY <1>0, <2>1, <2>3, <3>1 DEF StepChainInv
    <3>2. CASE t = cur
      BY <2>0, <2>4, <3>2
    <3>3. CASE t > cur
      <4>1. ~StepOk(cur) /\ maneuver.onFailure = "stop"
        BY <1>0, <1>1, <3>3
      <4>2. CutOff(t)'
        BY <1>0, <2>0, <2>8, <3>3, <4>1 DEF CutOff
      <4> QED BY <4>2
    <3> QED BY <1>1, <3>1, <3>2, <3>3
  <2>10. ASSUME NEW q \in StepIx, NEW t \in StepIx, maneuver.onFailure = "stop", q < t, Failing(q)'
         PROVE  Idle(t)'
    <3>1. CASE q # c
      BY <1>0, <2>0, <2>1, <2>2, <2>10, <3>1 DEF StepChainInv
    <3>2. CASE q = c
      <4>1. t > cur
        BY <2>0, <2>10, <3>2
      <4> QED BY <1>0, <2>1, <4>1 DEF StepChainInv
    <3> QED BY <3>1, <3>2
  <2>11. ASSUME cur' \in StepIx, maneuver.onFailure = "stop"
         PROVE  \A q \in StepIx : q < cur' => ~Failing(q)'
    <3>1. StepOk(cur) /\ cur' = cur + 1
      BY <1>0, <1>1, <2>11
    <3>2. \A q \in StepIx : q < cur' => q < cur \/ q = cur
      BY <1>1, <3>1
    <3>3. \A q \in StepIx : q < cur => ~Failing(q) /\ q # cur
      BY <1>0, <1>1, <2>11 DEF StepChainInv
    <3> QED BY <2>0, <2>2, <2>7, <3>1, <3>2, <3>3
  <2> QED BY <1>0, <2>5, <2>6, <2>9, <2>10, <2>11 DEF StepChainInv, StepsOver
<1> QED BY <1>2, <1>3, <1>4, <1>5, <1>6

-----------------------------------------------------------------------------
(* The end of the forward part, and everything that leaves it alone.       *)
LEMMA ForwardUntouched ==
  ASSUME ManeuverIInv, UNCHANGED <<maneuver, plan, call, empty, cur, armed, unarmed>>,
         stage' = stage \/ (stage # "start" /\ stage' # "start" /\ InFlight = {}
                           /\ (maneuver.mode = "sequential" => cur \notin StepIx))
  PROVE  /\ CallInv' /\ ParallelInv' /\ StepChainInv' /\ TimersMatch'
         /\ StepIx' = StepIx /\ Undos' = Undos /\ Succeeded' = Succeeded
         /\ InFlight' = InFlight /\ (StepsSucceed' <=> StepsSucceed)
<1> USE DEF ManeuverIInv
<1>1. /\ StepIx' = StepIx /\ Undos' = Undos /\ Succeeded' = Succeeded
      /\ InFlight' = InFlight /\ (StepsSucceed' <=> StepsSucceed)
  BY DEF StepIx, Undos, Succeeded, InFlight, StepsSucceed
<1>2. CallInv'
  BY <1>1 DEF CallInv, Idle, StepsOver
<1>3. ParallelInv'
  BY <1>1 DEF ParallelInv
<1>4. StepChainInv'
  <2>1. \A s \in StepIx : /\ Idle(s)' <=> Idle(s)
                          /\ Through(s)' <=> Through(s)
                          /\ Failing(s)' <=> Failing(s)
    BY DEF Idle, Through, Failing
  <2>2. \A s \in StepIx : CutOff(s)' <=> CutOff(s)
    BY <1>1, <2>1 DEF CutOff
  <2>3. maneuver.mode = "sequential" /\ StepsOver' => cur \notin StepIx
    BY DEF StepsOver, StepChainInv
  <2> QED BY <1>1, <2>1, <2>2, <2>3 DEF StepChainInv
<1>5. TimersMatch'
  BY TimersFrame
<1> QED BY <1>1, <1>2, <1>3, <1>4, <1>5

LEMMA EndStepsKeeps == ManeuverIInv /\ EndForward => ManeuverIInv'
<1> SUFFICES ASSUME ManeuverIInv, EndForward PROVE ManeuverIInv'
  OBVIOUS
<1>0. /\ UNCHANGED <<maneuver, group, online, plan, call, empty, cur, armed, unarmed, undo,
                     rplan, rcall>>
      /\ stage = "steps" /\ InFlight = {} /\ (maneuver.mode = "sequential" => cur \notin StepIx)
      /\ stage' = IF ~StepsSucceed /\ maneuver.onFailure = "rollback" THEN "rollback" ELSE "done"
  BY DEF EndForward
<1>1. /\ CallInv' /\ ParallelInv' /\ StepChainInv' /\ TimersMatch'
      /\ StepIx' = StepIx /\ Undos' = Undos /\ (StepsSucceed' <=> StepsSucceed)
  BY <1>0, ForwardUntouched
<1>2. ManeuverTypeOK'
  BY <1>0, <1>1 DEF ManeuverIInv, ManeuverTypeOK
<1>3. UndoInv' /\ ReverseInv'
  BY <1>0, UndoUntouched DEF StepsOver
<1>4. EndInv'
  BY <1>0, <1>1 DEF EndInv
<1> QED BY <1>1, <1>2, <1>3, <1>4 DEF ManeuverIInv

LEMMA AvailabilityKeeps == ManeuverIInv /\ Availability => ManeuverIInv'
<1> SUFFICES ASSUME ManeuverIInv, Availability PROVE ManeuverIInv'
  OBVIOUS
<1>0. /\ UNCHANGED <<maneuver, group, stage, plan, call, empty, cur, armed, unarmed, undo,
                     rplan, rcall>>
      /\ online' \subseteq Devices
  BY DEF Availability, ManeuverIInv, ManeuverTypeOK
<1>1. /\ CallInv' /\ ParallelInv' /\ StepChainInv' /\ TimersMatch'
      /\ StepIx' = StepIx /\ Undos' = Undos /\ Succeeded' = Succeeded
      /\ (StepsSucceed' <=> StepsSucceed)
  BY <1>0, ForwardUntouched
<1>2. ManeuverTypeOK'
  BY <1>0, <1>1 DEF ManeuverIInv, ManeuverTypeOK
<1>3. UndoInv' /\ ReverseInv' /\ EndInv'
  BY <1>0, <1>1 DEF ManeuverIInv, UndoInv, ReverseInv, EndInv, StepsOver
<1> QED BY <1>1, <1>2, <1>3 DEF ManeuverIInv

-----------------------------------------------------------------------------
(* The rollback.                                                           *)
LEMMA OpenKeeps ==
  ASSUME ManeuverIInv, NEW r \in Undos, OpenUndo(r)
  PROVE  ManeuverIInv'
<1>0. /\ UNCHANGED <<maneuver, group, online, stage, plan, call, empty, cur, armed, unarmed,
                     rcall>>
      /\ stage = "rollback" /\ undo[r] = "idle"
      /\ maneuver.mode = "sequential" => \A q \in Undos : q > r => undo[q] = "closed"
      /\ undo' = [undo EXCEPT ![r] = "open"]
      /\ rplan' = [rplan EXCEPT ![r] = Resolve(maneuver.rollback[r], Devices) \cap Succeeded]
  BY DEF OpenUndo
<1>1. /\ CallInv' /\ ParallelInv' /\ StepChainInv' /\ TimersMatch'
      /\ StepIx' = StepIx /\ Undos' = Undos /\ Succeeded' = Succeeded
      /\ (StepsSucceed' <=> StepsSucceed)
  BY <1>0, ForwardUntouched
<1> DEFINE T == Resolve(maneuver.rollback[r], Devices) \cap Succeeded
<1>2. T \subseteq Devices /\ T \subseteq Succeeded
  BY DEF Succeeded
<1>3. maneuver.rollback[r].fixed => maneuver.rollback[r].devs \cap Succeeded = T
  BY DEF Resolve
<1> HIDE DEF T
<1>4. /\ \A q \in Undos : undo'[q] = IF q = r THEN "open" ELSE undo[q]
      /\ \A q \in Undos : rplan'[q] = IF q = r THEN T ELSE rplan[q]
  BY <1>0 DEF ManeuverIInv, ManeuverTypeOK, T
<1>5. ManeuverTypeOK'
  <2>1. undo' \in [Undos -> {"idle", "open", "closed"}] /\ rplan' \in [Undos -> SUBSET Devices]
    BY <1>0, <1>2 DEF ManeuverIInv, ManeuverTypeOK, T
  <2> QED BY <1>0, <1>1, <2>1 DEF ManeuverIInv, ManeuverTypeOK
<1>6. UndoInv'
  <2>1. \A d \in Devices : rcall[r][d] = "idle"
    BY <1>0 DEF ManeuverIInv, UndoInv
  <2> QED BY <1>0, <1>1, <1>2, <1>3, <1>4, <2>1 DEF ManeuverIInv, UndoInv, StepsOver
<1>7. ReverseInv'
  <2> SUFFICES ASSUME maneuver.mode = "sequential", NEW p \in Undos, NEW q \in Undos,
                      p < q, undo'[p] # "idle"
               PROVE  undo'[q] = "closed"
    BY <1>0, <1>1 DEF ReverseInv
  <2>1. undo[q] = "closed"
    BY <1>0, <1>4 DEF ManeuverIInv, ReverseInv
  <2> QED BY <1>0, <1>4, <2>1
<1>8. EndInv'
  BY <1>0, <1>1 DEF ManeuverIInv, EndInv
<1> QED BY <1>1, <1>5, <1>6, <1>7, <1>8 DEF ManeuverIInv

LEMMA UndoCommandKeeps ==
  ASSUME ManeuverIInv, NEW r \in Undos, NEW d \in Devices, UndoSend(r, d) \/ UndoAnswer(r, d)
  PROVE  ManeuverIInv'
<1>0. UNCHANGED <<maneuver, group, online, stage, plan, call, empty, cur, armed, unarmed,
                  undo, rplan>>
  BY DEF UndoSend, UndoAnswer
<1>1. /\ CallInv' /\ ParallelInv' /\ StepChainInv' /\ TimersMatch'
      /\ StepIx' = StepIx /\ Undos' = Undos /\ Succeeded' = Succeeded
      /\ (StepsSucceed' <=> StepsSucceed)
  BY <1>0, ForwardUntouched
<1>2. PICK v \in CallState \ {"idle"} :
        /\ rcall' = [rcall EXCEPT ![r][d] = v]
        /\ v = "sent" => \A e \in Devices : rcall[r][e] # "sent"
  BY DEF UndoSend, UndoAnswer, CallState, Settled
<1>3. /\ rcall' \in [Undos -> [Devices -> CallState]]
      /\ \A q \in Undos, e \in Devices :
           rcall'[q][e] = IF q = r /\ e = d THEN v ELSE rcall[q][e]
  BY <1>2, UndoCallAt DEF ManeuverIInv
<1>4. ManeuverTypeOK'
  BY <1>0, <1>1, <1>3 DEF ManeuverIInv, ManeuverTypeOK
<1>5. undo[r] = "open" /\ d \in rplan[r]
  <2>1. CASE UndoSend(r, d)
    BY <2>1 DEF UndoSend
  <2>2. CASE UndoAnswer(r, d)
    <3>1. rcall[r][d] = "sent" /\ d \in rplan[r] /\ undo[r] # "idle"
      BY <2>2 DEF UndoAnswer, ManeuverIInv, UndoInv
    <3> QED BY <3>1 DEF ManeuverIInv, ManeuverTypeOK, UndoInv, Settled
  <2> QED BY <2>1, <2>2
<1>6. UndoInv'
  <2>1. /\ \A q \in Undos : undo[q] = "idle" => \A e \in Devices : rcall'[q][e] = "idle"
        /\ \A q \in Undos, e \in Devices : rcall'[q][e] # "idle" => e \in rplan[q]
    BY <1>3, <1>5 DEF ManeuverIInv, UndoInv
  <2>2. \A q \in Undos : undo[q] = "closed" => \A e \in rplan[q] : rcall'[q][e] \in Settled
    BY <1>3, <1>5 DEF ManeuverIInv, UndoInv, ManeuverTypeOK
  <2>3. \A q \in Undos, a, b \in Devices :
          rcall'[q][a] = "sent" /\ rcall'[q][b] = "sent" => a = b
    BY <1>2, <1>3 DEF ManeuverIInv, UndoInv
  <2> QED BY <1>0, <1>1, <2>1, <2>2, <2>3 DEF ManeuverIInv, UndoInv, StepsOver
<1>7. ReverseInv' /\ EndInv'
  BY <1>0, <1>1 DEF ManeuverIInv, ReverseInv, EndInv
<1> QED BY <1>1, <1>4, <1>6, <1>7 DEF ManeuverIInv

LEMMA CloseKeeps ==
  ASSUME ManeuverIInv, NEW r \in Undos, CloseUndo(r)
  PROVE  ManeuverIInv'
<1>0. /\ UNCHANGED <<maneuver, group, online, stage, plan, call, empty, cur, armed, unarmed,
                     rplan, rcall>>
      /\ undo[r] = "open" /\ undo' = [undo EXCEPT ![r] = "closed"]
      /\ \A d \in rplan[r] : rcall[r][d] \in Settled
  BY DEF CloseUndo
<1>1. /\ CallInv' /\ ParallelInv' /\ StepChainInv' /\ TimersMatch'
      /\ StepIx' = StepIx /\ Undos' = Undos /\ Succeeded' = Succeeded
      /\ (StepsSucceed' <=> StepsSucceed)
  BY <1>0, ForwardUntouched
<1>2. /\ undo' \in [Undos -> {"idle", "open", "closed"}]
      /\ \A q \in Undos : undo'[q] = IF q = r THEN "closed" ELSE undo[q]
  BY <1>0 DEF ManeuverIInv, ManeuverTypeOK
<1>3. ManeuverTypeOK'
  BY <1>0, <1>1, <1>2 DEF ManeuverIInv, ManeuverTypeOK
<1>4. UndoInv'
  BY <1>0, <1>1, <1>2 DEF ManeuverIInv, UndoInv, StepsOver
<1>5. ReverseInv' /\ EndInv'
  BY <1>0, <1>1, <1>2 DEF ManeuverIInv, ReverseInv, EndInv
<1> QED BY <1>1, <1>3, <1>4, <1>5 DEF ManeuverIInv

LEMMA EndRollbackKeeps == ManeuverIInv /\ EndUndo => ManeuverIInv'
<1> SUFFICES ASSUME ManeuverIInv, EndUndo PROVE ManeuverIInv'
  OBVIOUS
<1>0. /\ UNCHANGED <<maneuver, group, online, plan, call, empty, cur, armed, unarmed, undo,
                     rplan, rcall>>
      /\ stage = "rollback" /\ stage' = "done" /\ \A r \in Undos : undo[r] = "closed"
  BY DEF EndUndo
<1>1. /\ CallInv' /\ ParallelInv' /\ StepChainInv' /\ TimersMatch'
      /\ StepIx' = StepIx /\ Undos' = Undos /\ Succeeded' = Succeeded
      /\ (StepsSucceed' <=> StepsSucceed)
  BY <1>0, ForwardUntouched DEF ManeuverIInv, CallInv, StepChainInv, StepsOver
<1>2. ManeuverTypeOK'
  BY <1>0, <1>1 DEF ManeuverIInv, ManeuverTypeOK
<1>3. UndoInv' /\ ReverseInv' /\ EndInv'
  BY <1>0, <1>1 DEF ManeuverIInv, UndoInv, ReverseInv, EndInv, StepsOver
<1> QED BY <1>1, <1>2, <1>3 DEF ManeuverIInv

-----------------------------------------------------------------------------
LEMMA Preserved == ManeuverIInv /\ [ManeuverNext]_maneuverVars => ManeuverIInv'
<1> SUFFICES ASSUME ManeuverIInv, [ManeuverNext]_maneuverVars PROVE ManeuverIInv'
  OBVIOUS
<1>1. CASE Forward
  BY <1>1, ResolveKeeps, AdvanceKeeps, EndStepsKeeps, SendKeeps, AnswerKeeps DEF Forward
<1>2. CASE Backward
  BY <1>2, OpenKeeps, CloseKeeps, UndoCommandKeeps, EndRollbackKeeps DEF Backward
<1>3. CASE Availability
  BY <1>3, AvailabilityKeeps
<1>4. CASE UNCHANGED maneuverVars
  <2>1. /\ CallInv' /\ ParallelInv' /\ StepChainInv' /\ TimersMatch'
        /\ StepIx' = StepIx /\ Undos' = Undos /\ Succeeded' = Succeeded
        /\ (StepsSucceed' <=> StepsSucceed)
    BY <1>4, ForwardUntouched DEF maneuverVars
  <2>2. ManeuverTypeOK'
    BY <1>4, <2>1 DEF ManeuverIInv, ManeuverTypeOK, maneuverVars
  <2>3. UndoInv' /\ ReverseInv' /\ EndInv'
    BY <1>4, <2>1 DEF ManeuverIInv, UndoInv, ReverseInv, EndInv, StepsOver, maneuverVars
  <2> QED BY <2>1, <2>2, <2>3 DEF ManeuverIInv
<1> QED BY <1>1, <1>2, <1>3, <1>4 DEF ManeuverNext

(* The invariant that the other theorems follow from.                      *)
THEOREM ManeuverInvariance == ManeuverSpec => []ManeuverIInv
  BY InitHolds, Preserved, PTL DEF ManeuverSpec

(* A run keeps its types: its plans and commands are of devices of the     *)
(* system and of steps of its record.                                      *)
THEOREM ManeuverTypeCorrect == ManeuverSpec => []ManeuverTypeOK
<1>1. ManeuverIInv => ManeuverTypeOK
  BY DEF ManeuverIInv
<1> QED BY <1>1, ManeuverInvariance, PTL

(* Whatever the record and whichever devices fail or drop out: success     *)
(* means that every step reached every target, a stop leaves the rest      *)
(* alone, and every timed command that took effect has its stop command    *)
(* scheduled or the failure on record (runStepList).                       *)
THEOREM StepsAccountedHolds == ManeuverSpec => []StepsAccounted
<1>1. ManeuverIInv => StepsAccounted
  <2> SUFFICES ASSUME ManeuverIInv PROVE StepsAccounted
    OBVIOUS
  <2>1. StopSendsNoMore
    <3> SUFFICES ASSUME maneuver.mode = "sequential", maneuver.onFailure = "stop",
                        NEW s \in StepIx, NEW t \in StepIx, s < t,
                        s \in empty \/ \E d \in Devices : call[s][d] = "failed"
                 PROVE  \A d \in Devices : call[t][d] = "idle"
      BY DEF StopSendsNoMore
    <3>1. Failing(s)
      BY DEF Failing
    <3> QED BY <3>1 DEF ManeuverIInv, StepChainInv, Idle
  <2>2. SuccessMeansAll
    <3> SUFFICES ASSUME stage = "done", StepsSucceed, NEW s \in StepIx
                 PROVE  StepOk(s)
      BY DEF SuccessMeansAll
    <3>0. maneuver.mode \in {"sequential", "parallel"} /\ Len(maneuver.steps) \in Nat
      BY ManeuverShape DEF ManeuverIInv, ManeuverTypeOK
    <3>1. \A q \in StepIx : ~Failing(q)
      BY DEF Failing, StepsSucceed
    <3>2. Through(s)
      <4>1. CASE maneuver.mode = "parallel"
        <5>1. InFlight = {} /\ \A d \in plan[s] : call[s][d] # "idle" /\ d \in Devices
          BY <4>1 DEF ManeuverIInv, ParallelInv, CallInv, StepsOver, ManeuverTypeOK
        <5>2. \A d \in plan[s] : call[s][d] \in Settled
          BY <5>1 DEF ManeuverIInv, ManeuverTypeOK, InFlight, CallState, Settled
        <5> QED BY <4>1, <5>2 DEF Through, ManeuverIInv, ParallelInv
      <4>2. CASE maneuver.mode = "sequential"
        <5>1. cur \notin StepIx
          BY <4>2 DEF ManeuverIInv, StepChainInv, StepsOver
        <5>2. s < cur
          BY <3>0, <5>1 DEF ManeuverIInv, ManeuverTypeOK, StepIx
        <5>3. ~CutOff(s)
          BY <3>1 DEF CutOff
        <5> QED BY <4>2, <5>2, <5>3 DEF ManeuverIInv, StepChainInv
      <4> QED BY <3>0, <4>1, <4>2
    <3>3. \A d \in plan[s] : call[s][d] = "ok"
      BY <3>2 DEF Through, Settled, StepsSucceed, ManeuverIInv, ManeuverTypeOK
    <3>4. plan[s] # {}
      BY <3>1, <3>2 DEF Through, Failing
    <3> QED BY <3>3, <3>4 DEF StepOk
  <2> QED BY <2>1, <2>2 DEF StepsAccounted, ManeuverIInv
<1> QED BY <1>1, ManeuverInvariance, PTL

(* The rollback compensates the devices the run had changed and the        *)
(* selectors reached, all of them, no other, backwards and one at a time   *)
(* in sequential mode (runRollbackSteps).                                  *)
THEOREM UndoExactHolds == ManeuverSpec => []UndoExact
<1>1. ManeuverIInv => UndoExact
  <2> SUFFICES ASSUME ManeuverIInv PROVE UndoExact
    OBVIOUS
  <2>1. UndoOnlyTouched
    BY DEF ManeuverIInv, UndoOnlyTouched, UndoInv, CallInv
  <2>2. UndoComplete
    BY DEF ManeuverIInv, UndoComplete, UndoInv, EndInv, ManeuverTypeOK
  <2>3. UndoReversed
    <3> SUFFICES ASSUME maneuver.mode = "sequential", NEW r \in Undos, NEW q \in Undos,
                        NEW d \in Devices, NEW e \in Devices
                 PROVE  /\ (r < q /\ rcall[r][d] # "idle") => rcall[q][e] # "sent"
                        /\ (rcall[r][d] = "sent" /\ rcall[q][e] = "sent") => r = q /\ d = e
      BY DEF UndoReversed
    <3>1. \A p \in Undos, f \in Devices : rcall[p][f] = "sent" => undo[p] = "open"
      BY DEF ManeuverIInv, UndoInv, ManeuverTypeOK, Settled
    <3>2. \A p, o \in Undos : p < o /\ undo[p] # "idle" => undo[o] = "closed"
      BY DEF ManeuverIInv, ReverseInv
    <3>3. rcall[r][d] # "idle" => undo[r] # "idle"
      BY DEF ManeuverIInv, UndoInv
    <3>4. r < q \/ q < r \/ r = q
      BY ManeuverShape DEF ManeuverIInv, ManeuverTypeOK, Undos
    <3> QED BY <3>1, <3>2, <3>3, <3>4 DEF ManeuverIInv, UndoInv
  <2> QED BY <2>1, <2>2, <2>3 DEF UndoExact
<1> QED BY <1>1, ManeuverInvariance, PTL

-----------------------------------------------------------------------------
(* A command is open only while the run is.                                *)
LEMMA DoneIsQuiet == ManeuverIInv /\ stage = "done" => ~Busy
<1> SUFFICES ASSUME ManeuverIInv, stage = "done" PROVE ~Busy
  OBVIOUS
<1>1. InFlight = {}
  BY DEF ManeuverIInv, CallInv, StepsOver
<1>2. ASSUME NEW r \in Undos, NEW d \in Devices, rcall[r][d] = "sent" PROVE FALSE
  <2>1. undo[r] = "closed" /\ d \in rplan[r]
    BY <1>2 DEF ManeuverIInv, UndoInv, ManeuverTypeOK
  <2> QED BY <1>2, <2>1 DEF ManeuverIInv, UndoInv, Settled
<1> QED BY <1>1, <1>2 DEF Busy

LEMMA ContractInit == ManeuverInit => Contract!Init
<1> SUFFICES ASSUME ManeuverInit PROVE Contract!Init
  OBVIOUS
<1>1. Status = "running"
  BY DEF ManeuverInit, Status
<1>2. Busy = FALSE
  BY DEF ManeuverInit, Busy, InFlight
<1> QED BY <1>1, <1>2 DEF Contract!Init

(* Every step of the manoeuvre is work or the end of the step in the sense *)
(* of LocalStep, or none of its business.                                  *)
LEMMA ContractStep ==
  ManeuverIInv /\ ManeuverIInv' /\ [ManeuverNext]_maneuverVars => [Contract!Next]_(Contract!vars)
<1> SUFFICES ASSUME ManeuverIInv, ManeuverIInv', [ManeuverNext]_maneuverVars
             PROVE  [Contract!Next]_(Contract!vars)
  OBVIOUS
<1>0. Busy \in BOOLEAN /\ Busy' \in BOOLEAN
  BY DEF Busy
<1>1. CASE stage # "done" /\ stage' # "done"
  <2>1. Status = "running" /\ Status' = "running"
    BY <1>1 DEF Status
  <2> QED BY <1>0, <2>1 DEF Contract!Next, Contract!Work
<1>2. CASE stage # "done" /\ stage' = "done"
  <2>1. UNCHANGED <<maneuver, call, rcall>>
    BY <1>2
       DEF ManeuverNext, Forward, Backward, maneuverVars, Availability,
           ResolveSteps, Advance, EndForward,
                SendNext, Answer, OpenUndo, CloseUndo, UndoSend, UndoAnswer, EndUndo
  <2>2. Busy' = Busy
    BY <2>1 DEF Busy, InFlight, StepIx, Undos
  <2>3. ~Busy'
    <3>1. (ManeuverIInv /\ stage = "done" => ~Busy)'
      BY DoneIsQuiet, PTL
    <3> QED BY <1>2, <3>1
  <2>4. Status = "running" /\ Status' \in {"ok", "failed"}
    BY <1>2 DEF Status
  <2> QED BY <2>2, <2>3, <2>4 DEF Contract!Next, Contract!End
<1>3. CASE stage = "done"
  <2>1. InFlight = {} /\ \A r \in Undos : undo[r] # "open"
    BY <1>3 DEF ManeuverIInv, CallInv, UndoInv, StepsOver
  <2>2. UNCHANGED <<maneuver, stage, call, empty, rcall>>
    <3>1. ASSUME NEW s \in StepIx, NEW d \in Devices PROVE ~Answer(s, d)
      BY <2>1 DEF Answer, InFlight
    <3>2. ASSUME NEW r \in Undos, NEW d \in Devices PROVE ~UndoSend(r, d) /\ ~UndoAnswer(r, d)
      <4>1. ~Busy
        BY <1>3, DoneIsQuiet
      <4> QED BY <2>1, <4>1 DEF UndoSend, UndoAnswer, Busy
    <3> QED BY <1>3, <3>1, <3>2
               DEF ManeuverNext, Forward, Backward, maneuverVars, Availability,
                   ResolveSteps,
                Advance, EndForward, SendNext, OpenUndo, CloseUndo, EndUndo
  <2>3. Status' = Status /\ Busy' = Busy
    BY <2>2 DEF Status, StepsSucceed, StepIx, Busy, InFlight, Undos
  <2> QED BY <2>3 DEF Contract!vars
<1> QED BY <1>1, <1>2, <1>3

(* A manoeuvre is what an operation run takes a local step to be: it works *)
(* while it is running, ends once with no command unanswered, and stays    *)
(* as it ended (runManeuver, awaited by runOperation).                     *)
THEOREM SafeLocalStep == ManeuverSpec => Contract!Safe
<1>1. Contract!Safe <=> Contract!Init /\ [][Contract!Next]_(Contract!vars)
  BY DEF Contract!Safe
<1> QED BY <1>1, ContractInit, ContractStep, ManeuverInvariance, PTL DEF ManeuverSpec
=============================================================================
