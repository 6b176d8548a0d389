---------------------------- MODULE DeviceReads ----------------------------
(***************************************************************************)
(* The polling half of DeviceService (services/device-service): readDevice *)
(* and what follows a read - write filter, online flag and status row,     *)
(* alarm edges - with start and stop, and the WRITE_TELEMETRY worker of    *)
(* DataService (services/data-service).                                    *)
(*                                                                         *)
(* One device with one measurement, which has a write policy and an alarm  *)
(* rule.  The READ_DEVICE worker runs ten jobs at a time, so that reads of *)
(* the device overlap: each of Slots is a handler that is idle or at one   *)
(* of its awaits.  A point of an older value than the present one cannot   *)
(* become the newest in the time series; such points are not represented.  *)
(***************************************************************************)
EXTENDS Integers

CONSTANTS
  Slots,      \* handlers of READ_DEVICE jobs
  Values,     \* values of the measurement, numbers
  Deadband,   \* writePolicy.deadband
  MaxFaults   \* bound: failed statements and enqueues, lost jobs, restarts

ASSUME ConstantsAssumption ==
  0 \in Values /\ Values \subseteq Int /\ Deadband \in Nat \ {0} /\ MaxFaults \in Nat

VARIABLES
  actual,    \* the measurement at the device
  proc,      \* "up"; "stopping": stop() awaits its statement; "closing": and
             \* then the handlers that are still under way
  read,      \* per slot: where the handler is and the value it has read
  flag,      \* offlineSince has the device
  last,      \* TelemetryWriteFilter: the value marked last; {} if there is
             \* none or it is older than maxStaleMs
  detector,  \* lastActive of AlarmTransitionDetector
  queued,    \* the queue holds a point of the present value
  stored,    \* the time series holds a point of the present value
  row,       \* devices.status
  alarmRow,  \* device_alarms.active
  \* for the properties only:
  rowSafe,   \* no status statement has failed, met another, or followed stop()
  alarmSafe, \* no alarm statement has failed or met another
  faults

store   == <<queued, stored>>
memory  == <<flag, last, detector>>
tables  == <<row, alarmRow>>
history == <<rowSafe, alarmSafe>>
vars    == <<actual, proc, read, memory, store, tables, history, faults>>

Idle == [at |-> "idle", val |-> 0, now |-> FALSE]

(* now: the handler has still to enqueue a value that is the present one.  *)
Reads == [at : {"idle", "reading", "adding", "added", "published",
                "offline", "online", "set", "clear"},
          val : Values, now : BOOLEAN]

TypeOK ==
  /\ actual \in Values
  /\ proc \in {"up", "stopping", "closing"}
  /\ read \in [Slots -> Reads]
  /\ flag \in BOOLEAN /\ last \in {{}} \cup {{v} : v \in Values} /\ detector \in BOOLEAN
  /\ queued \in BOOLEAN /\ stored \in BOOLEAN
  /\ row \in {"online", "offline"} /\ alarmRow \in BOOLEAN
  /\ rowSafe \in BOOLEAN /\ alarmSafe \in BOOLEAN
  /\ faults \in 0 .. MaxFaults

Init ==
  /\ actual \in Values
  /\ proc = "up" /\ read = [r \in Slots |-> Idle]
  /\ flag = FALSE /\ last = {} /\ detector = FALSE
  /\ queued = FALSE /\ stored = FALSE
  /\ row = "online" /\ alarmRow = FALSE
  /\ rowSafe = TRUE /\ alarmSafe = TRUE /\ faults = 0

-----------------------------------------------------------------------------
Fault == faults < MaxFaults /\ faults' = faults + 1

Active(v) == v # 0

Distance(v, w) == IF v > w THEN v - w ELSE w - v

(* A value that has none before it, or differs enough from it, is written.  *)
Selects(v) == \A w \in last : Distance(v, w) >= Deadband

At(S) == {r \in Slots : read[r].at \in S}

Goto(r, step) == [read EXCEPT ![r].at = step]
Done(r)       == [read EXCEPT ![r] = Idle]

(* A status statement that is sent while another one is on its way, or     *)
(* after stop() began, may end up behind or ahead of it.                   *)
StatusSafe == proc = "up" /\ At({"offline", "online"}) = {}

-----------------------------------------------------------------------------
Begin(r) ==
  /\ proc = "up" /\ read[r].at = "idle"
  /\ read' = Goto(r, "reading")
  /\ UNCHANGED <<actual, proc, memory, store, tables, history, faults>>

(* device.read() returns; select() runs before the next await.             *)
Answers(r) ==
  /\ read[r].at = "reading"
  /\ read' = [read EXCEPT ![r] =
       IF Selects(actual) THEN [at |-> "adding", val |-> actual, now |-> TRUE]
                          ELSE [at |-> "published", val |-> actual, now |-> FALSE]]
  /\ UNCHANGED <<actual, proc, memory, store, tables, history, faults>>

(* The job enters the queue, from where the data service can take it       *)
(* before markWritten has run.                                             *)
Enqueue(r) ==
  /\ read[r].at = "adding"
  /\ read' = [read EXCEPT ![r] = [at |-> "added", val |-> @.val, now |-> FALSE]]
  /\ queued' = (queued \/ read[r].now)
  /\ UNCHANGED <<actual, proc, memory, stored, tables, history, faults>>

EnqueueFails(r) ==
  /\ read[r].at = "adding" /\ Fault
  /\ read' = [read EXCEPT ![r] = [at |-> "published", val |-> @.val, now |-> FALSE]]
  /\ UNCHANGED <<actual, proc, memory, store, tables, history>>

(* The sample of the alarm rule.                                           *)
ActiveIn(r) == Active(read[r].val)

(* evaluateAlarms up to its first await: an edge is handed out once.       *)
EvaluateAlarms(r) ==
  LET active == ActiveIn(r)
  IN  /\ detector' = active
      /\ read' = IF active = detector THEN Done(r)
                 ELSE [read EXCEPT ![r] = [at |-> IF active THEN "set" ELSE "clear",
                                           val |-> 0, now |-> FALSE]]
      /\ alarmSafe' = (alarmSafe /\ (active # detector => At({"set", "clear"}) = {}))

(* Mutant: the return of a device is logged but not written to its row.    *)
MarkOnlineUnwritten(r) ==
  /\ flag' = FALSE
  /\ EvaluateAlarms(r)
  /\ UNCHANGED rowSafe

(* markOnline forgets the failure and then writes, behind its log record.  *)
MarkOnline(r) ==
  \/ /\ flag /\ flag' = FALSE
     /\ read' = Goto(r, "online")
     /\ rowSafe' = (rowSafe /\ StatusSafe)
     /\ UNCHANGED <<detector, alarmSafe>>
  \/ /\ ~flag
     /\ EvaluateAlarms(r)
     /\ UNCHANGED <<flag, rowSafe>>

(* Mutant: markWritten adds a state and leaves the one before it.          *)
MarkedToo(r) == IF read[r].at = "added" THEN last \cup {read[r].val} ELSE last

Marked(r) == IF read[r].at = "added" THEN {read[r].val} ELSE last

(* publish() ends, with markWritten if the job was enqueued.               *)
Published(r) ==
  /\ read[r].at \in {"added", "published"}
  /\ last' = Marked(r)
  /\ MarkOnline(r)
  /\ UNCHANGED <<actual, proc, store, tables, faults>>

(* handleReadFailure: only the first failure is written.                   *)
ReadFails(r) ==
  /\ read[r].at = "reading"
  /\ flag' = TRUE
  /\ read' = IF flag THEN Done(r) ELSE Goto(r, "offline")
  /\ rowSafe' = (rowSafe /\ (flag \/ StatusSafe))
  /\ UNCHANGED <<actual, proc, last, detector, store, tables, alarmSafe, faults>>

(* The statement of an offline row ends; a failure is swallowed.           *)
OfflineWritten(r) ==
  /\ read[r].at = "offline" /\ read' = Done(r)
  /\ \/ row' = "offline" /\ UNCHANGED <<rowSafe, faults>>
     \/ Fault /\ rowSafe' = FALSE /\ UNCHANGED row
  /\ UNCHANGED <<actual, proc, memory, store, alarmRow, alarmSafe>>

(* The same of an online row; the handler goes on to the alarms.           *)
OnlineWritten(r) ==
  /\ read[r].at = "online"
  /\ \/ row' = "online" /\ UNCHANGED <<rowSafe, faults>>
     \/ Fault /\ rowSafe' = FALSE /\ UNCHANGED row
  /\ EvaluateAlarms(r)
  /\ UNCHANGED <<actual, proc, flag, last, store, alarmRow>>

(* applyTransition: a failure is not repeated, the edge is used up.        *)
AlarmWritten(r) ==
  /\ read[r].at \in {"set", "clear"} /\ read' = Done(r)
  /\ \/ alarmRow' = (read[r].at = "set") /\ UNCHANGED <<alarmSafe, faults>>
     \/ Fault /\ alarmSafe' = FALSE /\ UNCHANGED alarmRow
  /\ UNCHANGED <<actual, proc, memory, store, row, rowSafe>>

-----------------------------------------------------------------------------
(* stop(): the handlers under way go on, no other begins.                  *)
Stop ==
  /\ proc = "up" /\ proc' = "stopping"
  /\ rowSafe' = (rowSafe /\ StatusSafe)
  /\ UNCHANGED <<actual, read, memory, store, tables, alarmSafe, faults>>

StopWritten ==
  /\ proc = "stopping" /\ proc' = "closing"
  /\ \/ row' = "offline" /\ UNCHANGED <<rowSafe, faults>>
     \/ Fault /\ rowSafe' = FALSE /\ UNCHANGED row
  /\ UNCHANGED <<actual, read, memory, store, alarmRow, alarmSafe>>

(* start() of a new process, after stop() or after a crash anywhere: the   *)
(* row is set to online whether or not the device could be connected, the  *)
(* alarms are closed.  That the statement for the row fails is tolerated.  *)
Restart ==
  /\ Fault /\ proc' = "up"
  /\ read' = [r \in Slots |-> Idle]
  /\ flag' = FALSE /\ last' = {} /\ detector' = FALSE
  /\ \/ row' = "online" /\ rowSafe' = TRUE
     \/ UNCHANGED row /\ rowSafe' = FALSE
  /\ alarmRow' = FALSE /\ alarmSafe' = TRUE
  /\ UNCHANGED <<actual, store>>

-----------------------------------------------------------------------------
(* The worker of the data service writes a job ...                         *)
WriteTelemetry ==
  /\ queued /\ queued' = FALSE /\ stored' = TRUE
  /\ UNCHANGED <<actual, proc, read, memory, tables, history, faults>>

(* ... or fails, once and for all, or returns because it is stopping: the  *)
(* job counts as completed.  Another job may hold the same value.          *)
TelemetryLost ==
  /\ queued /\ Fault
  /\ queued' \in BOOLEAN
  /\ UNCHANGED <<actual, proc, read, memory, stored, tables, history>>

(* Mutant: a value is never too old.                                       *)
AgeForgotten == last # {} /\ UNCHANGED vars

(* maxStaleMs has passed since markWritten.                                *)
Age ==
  /\ last # {} /\ last' = {}
  /\ UNCHANGED <<actual, proc, read, flag, detector, store, tables, history, faults>>

ValueChanges ==
  /\ \E v \in Values \ {actual} : actual' = v
  /\ read' = [r \in Slots |-> [read[r] EXCEPT !.now = FALSE]]
  /\ queued' = FALSE /\ stored' = FALSE
  /\ UNCHANGED <<proc, memory, tables, history, faults>>

-----------------------------------------------------------------------------
Handler(r) ==
  \/ Begin(r) \/ Answers(r) \/ ReadFails(r)
  \/ Enqueue(r) \/ EnqueueFails(r) \/ Published(r)
  \/ OfflineWritten(r) \/ OnlineWritten(r) \/ AlarmWritten(r)

Next ==
  \/ \E r \in Slots : Handler(r)
  \/ Stop \/ StopWritten \/ Restart
  \/ WriteTelemetry \/ TelemetryLost \/ Age
  \/ ValueChanges

Spec == Init /\ [][Next]_vars

(* The poll repeats, every await of a handler ends (statements and         *)
(* requests have time limits), the data service works off its queue, and   *)
(* time passes.                                                            *)
FairSpec ==
  /\ Spec
  /\ \A r \in Slots : WF_vars(Handler(r))
  /\ WF_vars(WriteTelemetry) /\ WF_vars(Age)

-----------------------------------------------------------------------------
(* Once nothing is on its way the row in the table says what the service   *)
(* knows, or that it has stopped.  The flag flips at once and the row      *)
(* follows through two awaits; what breaks the agreement, for good, is     *)
(* only a failed statement (it is not repeated) or two that overtake.      *)
RowFollowsFlag ==
  rowSafe /\ proc # "stopping" /\ At({"offline", "online"}) = {}
    => row = IF flag \/ proc = "closing" THEN "offline" ELSE "online"

(* The same of the alarm table and the detector, through failed reads,     *)
(* overlapping reads, stops and crashes.                                   *)
AlarmTableFollows ==
  alarmSafe /\ At({"set", "clear"}) = {} => alarmRow = detector

(* What the service knows of the device is what the tables tell of it.     *)
TablesFollow == RowFollowsFlag /\ AlarmTableFollows

(* From some time on the device answers, and its value does not change.     *)
Steady ==
  /\ <>[](proc = "up")
  /\ <>[][actual' = actual /\ \A r \in Slots : ~ReadFails(r)]_vars

(* A value that the device keeps reaches the time series, though the       *)
(* filter suppresses small changes, marks what was enqueued and not what   *)
(* was written, and jobs get lost: each is written again when it is old.   *)
StoreRecovers == Steady => <>[]stored

(* An alarm condition that persists, or that has gone for good, ends up in *)
(* the table, whichever of the overlapping reads is evaluated last.        *)
AlarmSettles == Steady => <>[](alarmSafe => alarmRow = Active(actual))

(* A steady device ends up in the time series and in the alarm table.      *)
ReadingsSettle == StoreRecovers /\ AlarmSettles
=============================================================================
