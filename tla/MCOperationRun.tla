--------------------------- MODULE MCOperationRun ---------------------------
(* Instances of OperationRun for TLC: small sets of operation records.     *)
EXTENDS OperationRun

StepLists == { <<"remote", "local">>, <<"local", "raw", "remote">>,
               <<"remote", "remote", "local">> }

(* The rollback list mirrors the steps, entry by entry (as in the          *)
(* executor's own tests), and may be shorter than the step list.           *)
Mirrored(s, k) == [i \in 1 .. k |-> [kind |-> s[i], undoes |-> i]]

RecordsOf(m) ==
  UNION { { [mode |-> m, onFailure |-> f, steps |-> s, rollback |-> Mirrored(s, k)] :
              f \in {"stop", "continue", "rollback"}, k \in {1, Len(s)} } :
          s \in StepLists }

ParallelRecords == RecordsOf("parallel")
AllRecords      == RecordsOf("sequential") \cup ParallelRecords

(* The executor of a hub, of a hub that waits for ever, of a field system. *)
Setup(c, l) == [channel |-> c, limit |-> l]
AllSetups   == {Setup(TRUE, TRUE), Setup(TRUE, FALSE), Setup(FALSE, FALSE)}
HubSetup    == {Setup(TRUE, TRUE)}
=============================================================================
