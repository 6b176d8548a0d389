----------------------------- MODULE LocalStep ------------------------------
(***************************************************************************)
(* What an operation run (OperationRun) relies on when it awaits a local   *)
(* step: the step runs, it ends once, well or badly, and when it has ended *)
(* none of its commands is still waiting for an answer.                    *)
(***************************************************************************)
VARIABLES
  status,   \* "running", "ok" or "failed"
  busy      \* TRUE while a command of the step is unanswered

vars == <<status, busy>>

TypeOK == status \in {"running", "ok", "failed"} /\ busy \in BOOLEAN

Init == status = "running" /\ busy = FALSE

Work == status = "running" /\ busy' \in BOOLEAN /\ UNCHANGED status

End ==
  /\ status = "running" /\ ~busy
  /\ status' \in {"ok", "failed"}
  /\ UNCHANGED busy

Next == Work \/ End

Safe == Init /\ [][Next]_vars

(* ... and it does end.                                                    *)
Terminates == <>(status # "running")

Spec == Safe /\ Terminates
=============================================================================
