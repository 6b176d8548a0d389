---------------------------- MODULE DeviceCommand ----------------------------
(***************************************************************************)
(* COMMAND_DEVICE jobs on one Modbus device: executeAndWait of the caller  *)
(* (packages/core/src/messaging/bullmq-queue.ts), executeCommand of        *)
(* services/device-service, write() and writeAtomic() of ModbusDevice      *)
(* (packages/core/src/modbus/device.ts).  The worker runs up to ten jobs   *)
(* at a time, two of the same device included; every Modbus request is one *)
(* step, because the client sends its requests one by one.                 *)
(*                                                                         *)
(* A device is a set of registers.  The command register Box of a battery  *)
(* controller is special: a value other than 0 is a request, which the     *)
(* device accepts or refuses, and answers in its acknowledge register.     *)
(* The command of job j writes the value j.                                *)
(***************************************************************************)
EXTENDS Naturals, Sequences

CONSTANTS
  Jobs,        \* numbers of the jobs, in the order the caller adds them
  Loads,       \* assignments of commands to the jobs
  Regs,        \* registers that commands write
  Box,         \* "Command Request", the mailbox among them
  MaxFaults    \* bound: failed requests, crashes, calls of stop()

(* validate: none, the acknowledge register, or a status of the device.    *)
Command == [coils : Seq(Regs), holdings : Seq(Regs), atomic : BOOLEAN,
            pulse : BOOLEAN, finalize : BOOLEAN,
            validate : {"none", "ack", "status"}]

ASSUME ConstantsAssumption ==
  /\ Jobs \subseteq Nat \ {0} /\ Box \in Regs
  /\ Loads \subseteq [Jobs -> Command]
  /\ MaxFaults \in Nat

None   == 0
Values == Jobs \cup {0}

VARIABLES
  load,     \* the command of each job
  life,     \* DeviceService: "running", in stop() "stopping", "stopped" and
            \* "closing", or "dead" when there is no process
  linked,   \* the Modbus client is connected
  call,     \* what executeAndWait has told the caller
  work,     \* where executeCommand of the job is
  todo,     \* the registers it has still to write, restore or reset
  saved,    \* the backup of writeAtomic
  spoiled,  \* registers a failed request, or a crash, has left in doubt
  valid,    \* result.success
  audit,    \* audit record of its latest run
  result,   \* result of the job
  stalled,  \* jobs that were under way when a process died
  reg,      \* the device's registers
  ack,      \* its acknowledge register
  carried,  \* commands it has accepted in their latest run
  sole,     \* the job that has had the device to itself since it began
  faults

jobVars    == <<call, work, todo, saved, spoiled, valid, audit, result, stalled>>
deviceVars == <<reg, ack, carried>>
vars       == <<load, life, linked, jobVars, deviceVars, sole, faults>>

Plan(j) == IF load[j].atomic THEN load[j].coils \o load[j].holdings
                             ELSE load[j].holdings \o load[j].coils
Targets(j) == {Plan(j)[k] : k \in 1 .. Len(Plan(j))}

Under == {"write", "restore", "rejected", "pulse", "reading", "audit", "finalize"}
Over  == {"done", "failed"}

TypeOK ==
  /\ load \in Loads
  /\ life \in {"running", "stopping", "stopped", "closing", "dead"} /\ linked \in BOOLEAN
  /\ call \in [Jobs -> {"idle", "waiting", "success", "failure"}]
  /\ work \in [Jobs -> {"none", "queued"} \cup Under \cup Over]
  /\ todo \in [Jobs -> Seq(Regs)]
  /\ \A j \in Jobs : todo[j] \in Seq(Targets(j)) /\ Len(todo[j]) <= Len(Plan(j))
  /\ saved \in [Jobs -> [Regs -> Values]]
  /\ spoiled \in [Jobs -> SUBSET Regs]
  /\ valid \in [Jobs -> BOOLEAN]
  /\ audit \in [Jobs -> {"none", "executed", "rejected"}]
  /\ result \in [Jobs -> {"none", "success", "failure", "undefined"}]
  /\ stalled \subseteq Jobs
  /\ reg \in [Regs -> Values]
  /\ ack \in {"none", "done", "refused"}
  /\ carried \subseteq Jobs
  /\ sole \in Jobs \cup {None}
  /\ faults \in 0 .. MaxFaults

Init ==
  /\ load \in Loads
  /\ life = "running" /\ linked = TRUE
  /\ call = [j \in Jobs |-> "idle"] /\ work = [j \in Jobs |-> "none"]
  /\ todo = [j \in Jobs |-> << >>]
  /\ saved = [j \in Jobs |-> [r \in Regs |-> 0]]
  /\ spoiled = [j \in Jobs |-> {}] /\ valid = [j \in Jobs |-> FALSE]
  /\ audit = [j \in Jobs |-> "none"] /\ result = [j \in Jobs |-> "none"]
  /\ stalled = {}
  /\ reg = [r \in Regs |-> 0] /\ ack = "none" /\ carried = {}
  /\ sole = None /\ faults = 0

-----------------------------------------------------------------------------
Fault == faults < MaxFaults /\ faults' = faults + 1

Active == {j \in Jobs : work[j] \in Under}

(* Mutant: without a connection a request waits for one.                   *)
RequestHangs == linked /\ Fault /\ linked' \in BOOLEAN

(* A request fails because the line does, with or without the loss of the  *)
(* connection, and for certain when there is no connection: only read()    *)
(* makes a new one.                                                        *)
RequestOk    == linked /\ UNCHANGED <<linked, faults>>
RequestFails == IF linked THEN Fault /\ linked' \in BOOLEAN
                          ELSE UNCHANGED <<linked, faults>>

(* Mutant: the offset of the register is added instead of subtracted.      *)
WrittenWithOffset(r, v) ==
  reg' = [reg EXCEPT ![r] = v + 1] /\ UNCHANGED <<ack, carried>>

(* What a write does to the device.  A request for which the answer was    *)
(* lost may have taken effect all the same.                                *)
Written(r, v) ==
  /\ reg' = [reg EXCEPT ![r] = v]
  /\ IF r # Box THEN UNCHANGED <<ack, carried>>
     ELSE IF v = 0 THEN ack' = "none" /\ UNCHANGED carried
     ELSE \/ ack' = "done" /\ carried' = carried \cup {v}
          \/ ack' = "refused" /\ UNCHANGED carried

WrittenPerhaps(r, v) == UNCHANGED deviceVars \/ (linked /\ Written(r, v))

-----------------------------------------------------------------------------
(* The caller: executeAndWait adds the job and waits for its end or for    *)
(* the timeout; a job it has given up on stays in the queue.               *)
Submit(j) ==
  /\ call[j] = "idle"
  /\ \A i \in Jobs : i < j => call[i] # "idle"
  /\ call' = [call EXCEPT ![j] = "waiting"]
  /\ work' = [work EXCEPT ![j] = "queued"]
  /\ UNCHANGED <<load, life, linked, todo, saved, spoiled, valid, audit, result, stalled,
                 deviceVars, sole, faults>>

(* A result that is not an object counts as success.                       *)
Answer(j) ==
  /\ call[j] = "waiting" /\ work[j] \in Over
  /\ call' = [call EXCEPT ![j] =
       IF work[j] = "failed" \/ result[j] = "failure" THEN "failure" ELSE "success"]
  /\ UNCHANGED <<load, life, linked, work, todo, saved, spoiled, valid, audit, result, stalled,
                 deviceVars, sole, faults>>

CallerTimesOut(j) ==
  /\ call[j] = "waiting"
  /\ call' = [call EXCEPT ![j] = "failure"]
  /\ UNCHANGED <<load, life, linked, work, todo, saved, spoiled, valid, audit, result, stalled,
                 deviceVars, sole, faults>>

-----------------------------------------------------------------------------
(* executeCommand.                                                         *)
Goto(j, where) == work' = [work EXCEPT ![j] = where]

(* The worker's guard: not running, no work, no result.  A worker that is  *)
(* closing takes no job at all.                                            *)
Dropped(j) ==
  /\ work[j] = "queued" /\ life \in {"stopping", "stopped"}
  /\ Goto(j, "done")
  /\ result' = [result EXCEPT ![j] = "undefined"]
  /\ UNCHANGED <<load, life, linked, call, todo, saved, spoiled, valid, audit, stalled,
                 deviceVars, sole, faults>>

(* The job is taken from the queue; writeAtomic reads its backup first,    *)
(* all the registers in one go.  Names that the device does not know are   *)
(* skipped with a warning, and when none is left nothing is written.       *)
Begin(j) ==
  /\ work[j] = "queued" /\ life = "running"
  /\ \/ Plan(j) # << >> /\ load[j].atomic /\ RequestOk /\ Goto(j, "write")
     \/ Plan(j) # << >> /\ load[j].atomic /\ RequestFails /\ Goto(j, "rejected")
     \/ Plan(j) # << >> /\ ~load[j].atomic /\ Goto(j, "write") /\ UNCHANGED <<linked, faults>>
     \/ Plan(j) = << >> /\ Goto(j, "reading") /\ UNCHANGED <<linked, faults>>
  /\ todo' = [todo EXCEPT ![j] = Plan(j)]
  /\ saved' = [saved EXCEPT ![j] = reg]
  /\ valid' = [valid EXCEPT ![j] = FALSE]
  /\ audit' = [audit EXCEPT ![j] = "none"]
  /\ carried' = carried \ {j}
  /\ sole' = IF Active = {} THEN j ELSE None
  /\ UNCHANGED <<load, life, call, spoiled, result, stalled, reg, ack>>

AfterWrites(j) == IF load[j].pulse THEN "pulse" ELSE "reading"

(* One register less; after the last, the job goes on to the next phase.   *)
Advance(j, nextPhase, nextPlan) ==
  IF Len(todo[j]) > 1
  THEN todo' = [todo EXCEPT ![j] = Tail(@)] /\ UNCHANGED work
  ELSE todo' = [todo EXCEPT ![j] = nextPlan] /\ Goto(j, nextPhase)

Spoil(j, r) == spoiled' = [spoiled EXCEPT ![j] = @ \cup {r}]
Clear(j, r) == spoiled' = [spoiled EXCEPT ![j] = @ \ {r}]

(* The reset is a call of write(): holding registers before coils.         *)
ResetPlan(j) == IF load[j].pulse THEN load[j].holdings \o load[j].coils ELSE << >>

Write(j) ==
  /\ work[j] = "write" /\ RequestOk
  /\ Written(Head(todo[j]), j)
  /\ Clear(j, Head(todo[j]))
  /\ Advance(j, AfterWrites(j), ResetPlan(j))
  /\ UNCHANGED <<load, life, call, saved, valid, audit, result, stalled, sole>>

(* Mutant: the last entry that was written is not restored.                *)
ExecutedButOne(j) ==
  LET n == Len(Plan(j)) - Len(todo[j]) IN SubSeq(Plan(j), 1, IF n = 0 THEN 0 ELSE n - 1)

(* The entries writeAtomic has written, in the order it wrote them.        *)
Executed(j) == SubSeq(Plan(j), 1, Len(Plan(j)) - Len(todo[j]))

(* Only the entries that were answered are restored; write() restores      *)
(* nothing.                                                                *)
WriteFails(j) ==
  /\ work[j] = "write" /\ RequestFails
  /\ WrittenPerhaps(Head(todo[j]), j)
  /\ Spoil(j, Head(todo[j]))
  /\ IF load[j].atomic /\ Executed(j) # << >>
     THEN Goto(j, "restore") /\ todo' = [todo EXCEPT ![j] = Executed(j)]
     ELSE Goto(j, "rejected") /\ todo' = [todo EXCEPT ![j] = << >>]
  /\ UNCHANGED <<load, life, call, saved, valid, audit, result, stalled, sole>>

(* The raw backup goes back, first entry first; a failure is swallowed.    *)
Restore(j) ==
  LET r == Head(todo[j]) IN
  /\ work[j] = "restore"
  /\ \/ RequestOk /\ Written(r, saved[j][r]) /\ Clear(j, r)
     \/ RequestFails /\ WrittenPerhaps(r, saved[j][r]) /\ Spoil(j, r)
  /\ Advance(j, "rejected", << >>)
  /\ UNCHANGED <<load, life, call, saved, valid, audit, result, stalled, sole>>

(* The momentary output goes back to 0; the first failure ends the reset   *)
(* with a warning, and leaves the rest as it is.                           *)
PulseReset(j) ==
  LET r == Head(todo[j]) IN
  /\ work[j] = "pulse" /\ RequestOk
  /\ Written(r, 0) /\ Clear(j, r)
  /\ Advance(j, "reading", << >>)
  /\ UNCHANGED <<load, life, call, saved, valid, audit, result, stalled, sole>>

PulseResetFails(j) ==
  /\ work[j] = "pulse" /\ RequestFails
  /\ WrittenPerhaps(Head(todo[j]), 0)
  /\ spoiled' = [spoiled EXCEPT ![j] = @ \cup {todo[j][k] : k \in 1 .. Len(todo[j])}]
  /\ Goto(j, "reading") /\ todo' = [todo EXCEPT ![j] = << >>]
  /\ UNCHANGED <<load, life, call, saved, valid, audit, result, stalled, sole>>

(* The read after the writes reconnects, that of the poll too, and stop()  *)
(* does not keep the jobs under way from it.                               *)
Reconnect ==
  /\ ~linked /\ linked' = TRUE
  /\ life = "running" \/ (life # "dead" /\ \E j \in Jobs : work[j] = "reading")
  /\ UNCHANGED <<load, life, jobVars, deviceVars, sole, faults>>

(* Mutant: any answer of the device will do.                               *)
ReadBackBlind(j) == TRUE

(* validateReadBack: a read in the window that shows what is expected, or  *)
(* the end of the window.  A failed read is repeated, so it changes        *)
(* nothing here.                                                           *)
ReadBack(j) == load[j].validate = "ack" => ack = "done"

Validate(j) ==
  /\ work[j] = "reading"
  /\ \/ linked /\ ReadBack(j) /\ valid' = [valid EXCEPT ![j] = TRUE]
     \/ valid' = [valid EXCEPT ![j] = load[j].validate = "none"]
  /\ Goto(j, "audit")
  /\ UNCHANGED <<load, life, linked, call, todo, saved, spoiled, audit, result, stalled,
                 deviceVars, sole, faults>>

(* Mutant: the verdict of the writes, not of the read-back.                *)
VerdictOfWrites(j) == "success"

Verdict(j) == IF valid[j] THEN "success" ELSE "failure"

(* logCommand: an audit record that cannot be kept fails the job.          *)
Audit(j) ==
  /\ work[j] \in {"rejected", "audit"}
  /\ \/ /\ UNCHANGED faults
        /\ audit' = [audit EXCEPT ![j] = IF valid[j] THEN "executed" ELSE "rejected"]
        /\ IF work[j] = "audit" /\ load[j].finalize
           THEN Goto(j, "finalize") /\ UNCHANGED result
           ELSE Goto(j, "done") /\ result' = [result EXCEPT ![j] = Verdict(j)]
     \/ /\ Fault /\ Goto(j, "failed") /\ UNCHANGED <<audit, result>>
  /\ UNCHANGED <<load, life, linked, call, todo, saved, spoiled, valid, stalled, deviceVars, sole>>

(* The mailbox is emptied after the verdict; a failure is a warning.       *)
Finalize(j) ==
  /\ work[j] = "finalize"
  /\ \/ RequestOk /\ Written(Box, 0) /\ Clear(j, Box)
     \/ RequestFails /\ WrittenPerhaps(Box, 0) /\ Spoil(j, Box)
  /\ Goto(j, "done") /\ result' = [result EXCEPT ![j] = Verdict(j)]
  /\ UNCHANGED <<load, life, call, todo, saved, valid, audit, stalled, sole>>

Work(j) ==
  /\ life # "dead"
  /\ \/ Dropped(j) \/ Begin(j) \/ Write(j) \/ WriteFails(j) \/ Restore(j)
     \/ PulseReset(j) \/ PulseResetFails(j) \/ Validate(j) \/ Audit(j) \/ Finalize(j)

-----------------------------------------------------------------------------
(* stop() clears the flag and closes the devices; the jobs under way go on.*)
Stop ==
  /\ life = "running" /\ Fault /\ life' = "stopping"
  /\ UNCHANGED <<load, linked, jobVars, deviceVars, sole>>

Disconnect ==
  /\ life = "stopping" /\ life' = "stopped" /\ linked' = FALSE
  /\ UNCHANGED <<load, jobVars, deviceVars, sole, faults>>

(* The scheduler closes the worker: a job in the queue stays there, those  *)
(* under way are waited for.                                               *)
Close ==
  /\ life = "stopped" /\ life' = "closing"
  /\ UNCHANGED <<load, linked, jobVars, deviceVars, sole, faults>>

(* The process exits when the worker is closed, or dies in the middle of   *)
(* its work.                                                               *)
Die ==
  /\ life # "dead"
  /\ IF life = "closing" /\ Active = {} THEN UNCHANGED faults ELSE Fault
  /\ life' = "dead" /\ linked' = FALSE
  /\ UNCHANGED <<load, jobVars, deviceVars, sole>>

(* Another process starts.  The queue runs a job that was under way once   *)
(* more; the second time it fails it.                                      *)
Restart ==
  /\ life = "dead" /\ life' = "running" /\ linked' = TRUE
  /\ work' = [j \in Jobs |-> IF j \notin Active THEN work[j]
                             ELSE IF j \in stalled THEN "failed" ELSE "queued"]
  /\ spoiled' = [j \in Jobs |-> IF j \in Active THEN Targets(j) ELSE spoiled[j]]
  /\ stalled' = stalled \cup Active
  /\ sole' = None
  /\ UNCHANGED <<load, call, todo, saved, valid, audit, result, deviceVars, faults>>

Next ==
  \/ \E j \in Jobs : Submit(j) \/ Answer(j) \/ CallerTimesOut(j) \/ Work(j)
  \/ Stop \/ Disconnect \/ Close \/ Die \/ Restart \/ Reconnect

Spec == Init /\ [][Next]_vars

(* Every request is answered or times out, and so does every wait: as long *)
(* as there is a process, it goes on with each of its jobs, and takes the  *)
(* next one until it closes its worker.  Nothing is asked of stop(), of    *)
(* the line or of a new process.                                           *)
FairSpec == Spec /\ \A j \in Jobs : WF_vars(Work(j))

-----------------------------------------------------------------------------
(* A battery controller that refuses a command is never recorded as having *)
(* executed it, as long as no other command shares the device.             *)
Handshake(j) == load[j].validate = "ack" /\ Box \in Targets(j)

HonestWhenAlone ==
  \A j \in Jobs : (sole = j /\ Handshake(j) /\ audit[j] = "executed") => j \in carried

(* The same of every command, as the comment on the audit record has it    *)
(* ("a command that the device refuses must not look successful"): false,  *)
(* because two commands of a device share its acknowledge register.        *)
RefusedIsNotExecuted ==
  \A j \in Jobs : (Handshake(j) /\ audit[j] = "executed") => j \in carried

(* An atomic write that is rejected has put back what it overwrote, but    *)
(* for the registers whose own request failed.                             *)
RejectedIsUndone ==
  \A j \in Jobs : (sole = j /\ load[j].atomic /\ work[j] = "rejected") =>
    \A r \in Targets(j) \ spoiled[j] : reg[r] = saved[j][r]

(* A momentary output and a mailbox are never left with the value of a     *)
(* finished command, whatever its verdict, unless a request failed (one    *)
(* that is not atomic then leaves all of them as they are), or a run that  *)
(* a crash ended had left it there, where the backup found it.             *)
Released(j) == {r \in Targets(j) : load[j].pulse \/ (load[j].finalize /\ r = Box)}

OutputReleased ==
  \A j \in Jobs : (sole = j /\ work[j] = "done" /\ (load[j].atomic \/ spoiled[j] = {})) =>
    \A r \in Released(j) \ spoiled[j] : reg[r] # j \/ saved[j][r] = j

(* A command that is over has left nothing of itself on the device but     *)
(* what it was meant to leave.                                             *)
DeviceLeftClean == RejectedIsUndone /\ OutputReleased

(* A caller is told of success only for a command with an audit record of  *)
(* its execution, or for one that a stopping worker has thrown away.       *)
SuccessIsAudited ==
  \A j \in Jobs :
    call[j] = "success" => audit[j] = "executed" \/ result[j] = "undefined"

(* A job ends, whatever becomes of the line and of its requests, in the    *)
(* first run and in the one after a crash.  Only a process that dies keeps *)
(* it from its end, and only a closed worker from its beginning, until     *)
(* another process starts.                                                 *)
Unserved(j) == life = "dead" \/ (life = "closing" /\ work[j] = "queued")

JobsEnd ==
  \A j \in Jobs :
    (work[j] \in Under \cup {"queued"}) ~> (work[j] \in Over \/ Unserved(j))

=============================================================================
