---------------------------- MODULE MCManeuverRun ---------------------------
(* Instances of ManeuverRun for TLC.                                       *)
EXTENDS ManeuverRun

CONSTANTS a, b

Step(f, D, t) == [fixed |-> f, devs |-> D, timer |-> t]
Sel(f, D)     == [fixed |-> f, devs |-> D]

StepLists == { << Step(FALSE, {a, b}, TRUE), Step(TRUE, {a}, FALSE) >>,
               << Step(TRUE, {a}, TRUE), Step(FALSE, {a, b}, FALSE) >> }

UndoLists == { << Sel(FALSE, {a, b}) >>, << Sel(TRUE, {a}), Sel(FALSE, {a, b}) >> }

RecordsOf(M, F) ==
  { [mode |-> m, onFailure |-> f, steps |-> s, rollback |-> u] :
      m \in M, f \in F, s \in StepLists, u \in UndoLists }

AllRecords   == RecordsOf({"sequential", "parallel"}, {"stop", "continue", "rollback"})
=============================================================================
