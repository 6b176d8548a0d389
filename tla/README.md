# TLA+ models of the energy-storage monorepo

This directory holds TLA+ modules for the parts of the repository whose behaviour depends on order, failure and
concurrency: the operation executor, the device command path, device polling and the tables behind it, the rules, the
tamper-evident logger, the WebSocket tunnel between field systems and the hub with its sessions, and the collection of
a field's events. TLC checks them on small instances; TLAPS proves every safety property that a passing run checks, for every value of
the constants. Paths below are relative to the repository.

    tlc -workers 2 -config OpRuns.cfg MCOperationRun      # one run
    tlapm OperationExecutor_proofs.tla                    # the proofs of a module

`PROJECT.json` lists components, runs, the code lines behind every definition (`map`), one deliberate mutation of the code
per property (`mutants`: TLC must then find the property violated), findings, hazards and theorems.

## 1. The system

Containers with batteries and inverters run a set of services around a job queue (BullMQ on Redis), PostgreSQL and
TimescaleDB. A *field* system commands several containers, and a *boss* system views several fields, through a hub and a
WebSocket tunnel.

    browser -> web-service -> OperationExecutor -> queue COMMAND_DEVICE -> device-service -> Modbus device
                    |              \-> remote step -> tunnel -> web-service of another system
                    \-> TunnelProxy (hub) == one WebSocket per peer == TunnelClient -> local HTTP service
    device-service -> READ_DEVICE jobs -> WRITE_TELEMETRY jobs -> data-service -> TimescaleDB
    management-service: rules over telemetry -> commands, operations, audit events
    every service: TamperLogger -> file, syslog, SQL, webhook sinks

| component (code) | state | operations | hard about it | correct when |
|---|---|---|---|---|
| operation executor, operations (`packages/platform/commands/src/operation-executor.ts`) | `operation_runs` row, step outcomes, compensation chain | `execute`, `runOperation`, `runOperationRollback`, `runRemoteStep` | parallel steps, lookups that throw, remote timeouts with late answers, crash | no step before the row; verdict tells the truth; what succeeded is compensated, backwards, after all steps |
| operation executor, manoeuvres (same file) | resolved targets, command outcomes, devices that succeeded | `runManeuver`, `runStepList`, `runRollbackSteps`, `resolveStep`, `scheduleTimer` | availability changes between resolution, command and compensation | success means all; only changed devices are compensated; timers match successes |
| device commands (`services/device-service`, `packages/core/src/modbus`, `.../messaging/bullmq-queue.ts`) | jobs, registers of the device, acknowledge register, connection, audit records | `executeAndWait`, `executeCommand`, `write`, `writeAtomic`, `validateReadBack`, `logCommand`, `stop` | ten jobs at a time, one mailbox per device, failed and half-done writes, callers that time out, re-run after a crash | refused is not recorded as executed; rejected is undone; outputs are released; every job ends |
| tamper-evident logger (`packages/tamper-logger`) | hash chain, batch, write chain, sink files | `log`, `flush`, `writeImmediate`, `deliver`, `close`, `verifyChain` | entry signed before an await and written after it; sinks fail one by one; crash in a batch | acknowledged is durable; no second write, nothing lost in silence; untouched file verifies |
| tunnel streams (`packages/ws-tunnel/src/{proxy,client}`) | hub's streams, client's streams and credit, frames in flight | `startHttpStream`, `onStreamOpen`, `fetchStream`, `sendPayload`, `awaitCredit`, `onHttpFrame`, `closeStream`, `sweep` | interleaved streams, flow control, loss of the channel, reuse of ids after a hub restart | a normal end means a whole body; nobody waits for credit that is not coming; streams end |
| tunnel connector (`packages/ws-tunnel/src/connector`) | state, socket, generation, timers, URL index | `start`, `connect`, `tryUrl`, `handleMessage`, `sendHeartbeat`, `closeAndBackoff`, `stop` | late events of old sockets, timeouts that race answers, half-open lines | one connection; stop is final; converges |
| hub peer channel (`packages/ws-tunnel-hub`) | socket per peer, connection status | `accept`, `handleRegister`, `RegisterPeer`, `detach`, `sweep` | asynchronous authentication, replacement by a late registration | the peer that thinks it is connected is the one the hub reaches |
| tunnel sessions (`packages/ws-tunnel/src/{proxy/session-gateway.ts,session}`, `packages/ws-tunnel-hub`) | sessions at the hub, sessions at the peer, calls that wait, audit records | `openSession`, `closeSession`, `sweep`, `onOpenSession`, `onPeerRegistered` | checks before awaits and entry after them; a peer that comes back as a new process | both ends know the same sessions; limit per peer; a record for every session, closed with it |
| device reads (`services/device-service`: `device-service.ts`, `alarm-*`, `telemetry-write-filter.ts`) | online flag and status row, alarm detector and table, written values | `readDevice`, `publish`, `markOnline`, `handleReadFailure`, `evaluateAlarms`, `start`, `stop` | reads of one device overlap; statements sent unordered; edges handed out once | tables say what the service knows; a steady value is stored |
| telemetry (`services/data-service`) | queue, time series | WRITE_TELEMETRY worker | shutdown while writing, one attempt | a steady value is stored |
| rules (`services/management-service`) | snapshot, state of each rule, actions under way | `record`, `runCycle`, `evaluate`, `execute`, `stop` | debounce per condition, edge, cooldown and arming together; a cycle waits for all actions | acts once per period, on fresh lasting values; the edge is taken |
| events of a field (`services/web-service`: `log-event-feed.ts`, `list-field-events-use-case.ts`, `field-event-collector.ts`) | `log_events` of the field, `field_events` of the boss, cursor | `listAfter`, `pullField`, `collect`, `start`, `stop` | rows that appear behind younger ones, rounds that overtake each other, full pages | no event is left behind; events arrive |
| requests (`services/web-service`) | job ids, runs in the background | command, operation, remote channel | 15 s limit, equal job ids, two runs at once | the answer agrees with what is done |
| views of other systems (`hub-container-view.ts`) | presence, telemetry cache | refresh | overlapping refreshes | newest wins |
| others (login, routes, UI, simulators, plugins, codec, SQL) | | | sequential, or pure I/O | see `components` in PROJECT.json |

`PROJECT.json` lists all components with what is left out of each, and under `hazards` the forty most important places where
the code can go wrong in a way a test would hardly reach, at their lines. A hazard with properties is covered by them. The others
carry a note: either the hazard bites, and section 6 says how, or the code leaves the case open, no document says otherwise, and the property that comes
closest names it as an exemption. Section 7 has the remaining ones, with the module that is planned for each.

## 2. Modules

| module | models | composed with |
|---|---|---|
| `OperationRun` | one run of an operation: gate, row, steps, compensations, verdict, crash | uses a local step as an outcome |
| `ManeuverRun` | one manoeuvre on the devices of one system | implements `LocalStep` |
| `LocalStep` | abstract specification of a local step, which `OperationRun` relies on | instantiated by `ManeuverRun` |
| `DeviceCommand` | command jobs of one device, from the caller's wait to the device's registers | |
| `DeviceReads` | reads of one device that overlap, the tables behind them, and the worker of the data service | device service and data service meet in the queue |
| `RuleCycle` | snapshot, evaluation and actions of all rules of an installation | |
| `TamperLogger` | one logger, its sinks, and processes that follow one another on the same files | |
| `TunnelStream` | HTTP streams of both ends over one channel | takes the channel's losses as given (`Drop`, `ChannelBack`, `HubRestart`) |
| `PeerChannel` | connector and hub: who is connected to whom | the channel of `TunnelStream` and `SessionGateway` |
| `SessionGateway` | sessions of one peer at both ends | hub and peer over the channel, reduced to up, dead, down |
| `FieldEvents` | feed and collector of one field's events | logger batches, HTTP rounds and the cursor |
| `OperationExecutor_proofs` | TLAPS proofs | extends `OperationRun` and `ManeuverRun` |
| `Tunnel_proofs` | TLAPS proofs | extends `PeerChannel` and `TunnelStream` |
| `DeviceCommand_proofs`, `DeviceReads_proofs`, `RuleCycle_proofs`, `TamperLogger_proofs`, `SessionGateway_proofs`, `FieldEvents_proofs` | TLAPS proofs | each extends the module it is named after |
| `MC*` | values of the constants for TLC | |

Every action is one uninterrupted piece of JavaScript: from an await, a callback or an event to the next. Records,
requests, commands and rules are inputs. A comment `Mutant:` marks a definition that exists only for the mutation of the one
after it. Where one module of proofs extends two models, the definitions of the second carry names of their own (`ManeuverInit`, `StreamNext`).
The counters `faults`, `losses`, `restarts`, `MaxEvents`, `MaxEpochs`, `MaxTime`, `MaxOpens`, the sets `Slots` and `Polls` and the slots
of `PeerChannel` are bounds of the models.

### OperationRun
`phase` is how far `execute()` has come. `Reject`, `LookupThrowsBeforeRun`, `Validate`, `BeginRun`, `BeginFails` are the
gate and `runs.begin`. `StartNext` and `StartAll` are the two modes of `runOperation` (:325-336); `Settle` is the handler
that pushes an outcome (`order` is `stepOutcomes`). A step is local, raw or remote. A remote step has two views: `far`, what
the other system has done, and `st`, what this one believes, so a remote success that is answered too late is in the
model. `StepLookupThrows` is a lookup that throws inside the step's promise: sequential mode then throws out of
`execute` (row stays `running`), parallel mode loses the outcome (`Promise.allSettled`). `RollbackNext` and `CompensationSettles`
walk the list with the code's pairing `rollback[i]` with `stepOutcomes[i]` (:579-586). The field `undoes` of a rollback entry is the
author's intent, and only the properties read it. `Finish` is `finishBestEffort`, which may fail; `Crash` may happen at any
time.

### ManeuverRun and LocalStep
`ResolveSteps` fixes the targets of all steps (`filterAvailable`, `resolveAvailable`, group) and `Availability` changes them at any time.
`SendNext`, `Answer` and `Advance` are `runStepList`; `OpenUndo`, `UndoSend`, `UndoAnswer`, `CloseUndo` are `runRollbackSteps`, which resolves
again. A timed command that succeeds goes through `ScheduleTimer`, which may fail (audited only). `ImplementsLocalStep` is the
refinement: status and "a command is unanswered" are mapped to `LocalStep`'s variables, and its `Spec` (a step ends once, with
no command open, and it does end) holds of every manoeuvre. This is the assumption under which `OperationRun` treats a
local step as one promise with two outcomes.

### DeviceCommand
A job goes through `Submit` (queue.add), `Begin` (the worker takes it; `writeAtomic` reads its backup; names the device does not know
are skipped, and when none is left nothing is written and the job goes on to its read-back), one `Write` per register,
`WriteFails` with `Restore` (the rollback of the writes that succeeded), `PulseReset`, `Validate` (`validateReadBack`), `Audit` (`logCommand`)
and `Finalize` (emptying the mailbox), with `Answer` or `CallerTimesOut` at the caller. Steps of different jobs interleave, because
each Modbus request is awaited. `linked` is the Modbus connection: without it writes fail at once and only a read reconnects
(`ensureConnected`). The device is a set of registers plus an acknowledge register whose behaviour is taken from
`packages/simulators/src/bsc/bsc-simulator.ts`: writing a nonzero value to the mailbox is accepted or refused and the answer
replaces the last one. A failed request may have taken effect. `Stop`, `Disconnect` and `Close` are the three parts of `DeviceService.stop`: the flag goes down, and a job the worker takes from then on is thrown away with the
result `undefined` (`Dropped`); the devices are disconnected while jobs are under way; the scheduler closes the worker, which takes no
job any more and waits for those it has. `Die` is the end of the process, behind that or by a crash at any moment, and only `Restart`, a new process, serves what is still
queued and runs the stalled jobs once more (BullMQ). None of the five is bound to happen. `carried`, `sole` and `spoiled` are history
variables (requests the device accepted; the job that had the device to itself since it began; registers whose own
request failed). `Handshake(j)` names the commands that the device answers through its mailbox, `Released(j)` the registers a finished command must not
leave at its value.

### DeviceReads
A slot of `read` is a READ_DEVICE handler at one of its awaits: the request (`reading`), the enqueue of telemetry (`adding`, `added`), the rest of
`publish` (`published`), the status statement (`offline`, `online`), the alarm statement (`set`, `clear`). What runs between two awaits is one
action: `Answers` reads and selects, `Published` marks as written, flips the flag and evaluates the alarms. `flag` is `offlineSince`,
`last` the write filter's mark (empty when it is none or too old, `Age`), `detector` the alarm detector's `lastActive`. `queued` and `stored` say
whether the queue and the time series hold the present value of the device. `Stop` lets handlers go on; `StopWritten` is the
end of its UPSERT. `Restart` is `start()` of a new process, whose own statement for the row may fail. `rowSafe` and `alarmSafe` are history variables: they become false when a statement fails,
or is sent while another one of the table is on its way; these are exactly the cases in which the code does not
repair the row before the next change.

### RuleCycle
A point is a condition's measurement, reduced to "the comparison holds" and the age of the record. `RunCycle` is `snapshot`, `evaluate` for all rules
and the start of their actions; `ActionEnds` ends one action of a rule, and the next cycle waits until none is `left`. `state` is
`RuleState`, with time stamps kept as ages up to the largest value the code compares them with, which makes the model finite without a
clock. `failed`, `calm` and `sawFalse` are history variables that record what the evaluations saw, independently of `RuleState`.

### TamperLogger
`LogApp` signs and batches; `LogAudit` signs, flushes and waits; `WriteImmediate` is what happens after that await. `chain` is the promise
chain `writeChain`, whose first task is delivered: `Deliver` begins the writes of all sinks, each ends by itself, `Settle` is the end of `deliver()`. What a write leaves
behind is what the sink leaves behind. A *file* (`FileSink`: append, then sync) whose write fails, or whose process dies in it, has any beginning of the batch,
the last line perhaps torn (`cut`); a *table* (one INSERT) has all the rows or none, and a failed one may have them; a *webhook* repeats a request
without a good answer (`HookTry`) and may get the batch with each. A torn line is kept as the piece at its place, and the next line is appended to it. After `close()` files and webhooks reject, a table does not.
A signature is abstracted to the identity of the event it covers: `[epoch, seq]` is the only successor of `[epoch, seq - 1]`, as in `signEvent`.
`ChainValid` is `verifyChain`, `VerifyLog` is `tools/verify-log.mjs`. `Close`, `CloseSinks` and `Restart` (after a close or a crash anywhere) begin the next process, whose chain starts at seq 1 in the same files.
That synced bytes survive is assumed; a loss of power, which may take unsynced bytes of an earlier write, is not modelled.

### TunnelStream
`hub[r]` is `TunnelProxy`'s state of a browser request and the browser's view; `streams` and `task` are `TunnelClient`'s map and the
`fetchStream` of the request. Frames travel in two FIFO queues while the channel is up; `Drop` loses them, and what is sent while it is
down is discarded silently, as `sendControl` and `sendBinary` do. `Park` is a sender in `awaitCredit`; `HubReceive` renews credit at half a window.
A body is the sequence of its piece sizes. A data frame names the request and the number of its piece, a credit frame the request and the number
of the grant: no action reads these, but they make mixing, loss and reordering visible to properties and proofs. `HubRestart` resets `nextStreamId`
while the client keeps its streams. `cut` is a history variable: the requests that were under way when the channel was lost, or that
got an id still in use (`InUse`: in the client's map, of a task that may still send, or on its way). The specification is `StreamSpec`,
with `StreamInit` and `StreamNext`.

### PeerChannel
Each dial uses a socket slot with two ends (`conn`, `peer`), a line that may go silent, and frames both ways. `live` is the socket of
the current generation. `Registers` is the continuation of `handleRegister` after authentication, whether or not the socket is still
open; `Detach` is the identity check of `detach`. `Heartbeat` is `sendHeartbeat`: when pongs have stayed out it gives the socket up. A
slot is reused once both ends are closed and nothing refers to it.

### SessionGateway
`call[s]` is where `openSession` with id `s` stands: waiting for the acknowledgement, in the audit statement, behind it, opened, failed; a crash of the hub may come between any two.
`record[s]` is the audit record: `AuditOpens` and `Register` are the two sides of the await of `audit.open`, which may fail with the record written or not; `CloseAndSend` only begins `audit.close`,
which ends by itself (`AuditCloses`) or fails and is at most logged (`AuditCloseFails`). "cut" is a record left as it is by a failed statement or a dead process. `hub` is `HubSessionStore`
in the order of its Map, because `sessionForPeer` and the session in the way are the first entry. `CloseAndSend` is `closeSession`, whose frame goes
nowhere when the socket is dead or gone. `PeerReceives` and `PeerSigns` are the two halves of `onOpenSession` around the signature.
`Reconnect` is a registration with `onPeerRegistered`, of the same peer process or a new one. A session is closed by its place in the store
(`At`, `Without`; place 0 is "none"). Time limits of sessions are abstracted: `Sweep` may end any one of them at any time, and a sweep that ends several
is several such steps.

### FieldEvents
An event gets its time stamp in `Log` and its row in `Flush`, with any part of what waits, so that rows appear out of order and late.
`Pull` begins a round (`setInterval` does not wait for the one before), `FeedAnswers` runs the query and sends the INSERTs, `Insert` and
`InsertFails` end one of them, `Settle` is the end of `allSettled`, where the cursor moves. `Pages` is every result `ORDER BY ts LIMIT` may return.
The history variables `late`, `failed` and `aged` name the events that the collector does not owe: their row came later than
the overlap, their INSERT failed, or they were older than the backlog at the first answer.

## 3. Runs

| run | module | distinct question | instance |
|---|---|---|---|
| `OpRuns` | MCOperationRun | safety and termination of a run | both modes, each `onFailure`, three lists of 2-3 local, raw and remote steps, rollback lists of one or all steps, executors with and without remote channel and limit |
| `ManRuns` | MCManeuverRun | safety, refinement and termination of a manoeuvre | two devices, two steps, fixed and typed selectors, timers, rollback of one or two selectors, both modes, each `onFailure` |
| `DevRuns` | MCDeviceCommand | honesty, undo, release, end of commands | two jobs of the same form (battery handshake, breaker pulse, atomic set points, plain write), or a pulse of two outputs next to a command of unknown names; two faults |
| `ReadRuns` | DeviceReads | tables and time series against the device | two handlers, values 0 (no alarm), 1, 2 with a deadband of 2, one fault |
| `RuleRuns` | MCRuleCycle | when a rule acts, and that it does | a rule over two points (all or any, debounces 2 and 1, cooldown 3, armed or not; and one without debounce) next to a rule that shares a point and runs a container command and a record; one restart |
| `LogRuns` | TamperLogger | durability, loss, second writes, order, answers | a file and a webhook with two requests per write, two events of the first process and one of the second, batch of two, with and without audit events |
| `TunRuns` | MCTunnelStream | bodies and credit | two requests of every kind (GET, POST with small, empty and oversized body), body of pieces 1, 2, 2 against a window of 4, two places, one drop or hub restart |
| `TunEnds` | MCTunnelStream | streams end | two GETs on one place, one drop |
| `HubRuns` | PeerChannel | agreement and convergence | four socket slots, two URLs, two faults |
| `SessionRuns` | SessionGateway | agreement of both ends, limit, audit | four opens, limit of one session, three faults |
| `EventRuns` | FieldEvents | nothing skipped, everything arrives | three events, two of them wanted, pages of two, two rounds at once, overlap and backlog of two ticks, four ticks, one fault |
| `OpParallelPairing` | MCOperationRun | the finding of section 6 | parallel records of `OpRuns`, hub with limit |

What they show, by property:

- **OpRuns.** `SequentialCompletedMeansDone`: "completed", in the answer or the table, is never said of a sequential run with a step that failed, was
  lost or was not carried out. `CompensatesWhatSucceeded`: with a rollback list that mirrors the steps exactly the steps that succeeded are
  compensated. `OrderKept`: row before steps, steps before compensations, compensations backwards, no step behind a failure that stops the
  run. `RunEnds`: a run with its row written ends, whatever the remote system does.
- **ManRuns.** As devices come and go: `StepsAccounted` (success means all, stop skips the rest, stop timers match successes), `UndoExact` (which devices
  are compensated, all that are still reached, backwards; per device, see observation 14), `ImplementsLocalStep`.
- **DevRuns.** `HonestWhenAlone`: a refused command is not recorded as executed unless another shares the device. `DeviceLeftClean`: a rejected atomic
  write has restored what it overwrote, and pulses and mailboxes are not left energised, but for registers whose own request failed (a pulse
  that is not atomic leaves all of its outputs when one request fails; a run after a crash may find its own value in the backup and put it back).
  `SuccessIsAudited`: a caller hears success only of an audited execution, or of a job that a stopping
  worker threw away (that exception is real: observation 13). `JobsEnd`: whatever fails, stops or crashes, a job ends in its first or second run, unless the process dies, or a closed
  worker leaves it in the queue; both last until somebody starts another process, which nothing in the code guarantees.
- **ReadRuns.** `TablesFollow`: with nothing on its way, status row and alarm table say what the service knows, unless a statement failed or met
  another. `ReadingsSettle`: a device that keeps answering with one value has it in the time series, though the filter suppresses small
  changes and jobs get lost, and its alarm condition in the table.
- **RuleRuns.** `ActsWithCause`: a rule acts only on fresh values that held at every evaluation of its debounce time, once per period, outside
  its cooldown, and armed as it asks. `EdgeIsTaken`: conditions that hold from some time on are acted upon, or would have been but for cooldown or
  arming; it presumes that the cycles go on, since a container command without an answer stops them all (observation 11).
- **LogRuns.** `NothingLost`: an audit call that resolved has its event whole in every sink, no event of the live process vanishes, and none is written to a
  file or a table twice. It does not say where a refused event is not: it may be in any sink, and a webhook may have any event several times. `AppFilesSound`: the application events
  of a process are in order in every file and table, and the lines of a file of application events are links of the chain, torn ones included, as long as nothing was dropped or
  refused. Whether the verifier can read the lines is another matter (section 6); an acknowledged event whose line begins behind a torn one has all its bytes, but is not on a line of its own. `AuditAnswered`: every audit call is answered.
- **TunRuns, TunEnds.** `EndedIsComplete` (unless the channel dropped under the stream, or a restarted hub reused its id), `CreditSound` (nothing is
  sent beyond what was granted, nobody waits for credit that is not coming), `StreamsEnd`.
- **HubRuns.** `AgreedConnection`: the peer that thinks it is connected is the one the hub reaches, over one connection. `StopIsFinal`: after `stop()` and until `start()`,
  whatever callbacks still arrive, nothing is dialled, no registration is sent and no timer for the next dial is set (a late acknowledgement may still set the state to connected, with a heartbeat timer that finds no socket).
  `Converges`: both ends agree in the end.
- **SessionRuns.** `EndsAgree`: what the hub would inject the peer accepts, and what is left behind at the peer comes from an open that failed or an end
  that was lost. `LimitUnlessOverlap`: the limit holds unless two opens overlapped. `AuditAgrees`: a session in the store has an open
  record, and a record that is open belongs to one in the store or about to be entered, unless a statement of the audit failed or the hub process died.
- **EventRuns.** `NothingSkipped`: the cursor never leaves behind an event that is owed. `EventsArrive`: what is owed arrives, unless one overlap
  fills every page, or no answer came for as long as the backlog window.

**Why the bounds are enough.** Two steps and two compensations show every order and pairing of neighbours, three a failure between two
successes. Two jobs, handlers or rounds show every interleaving of a pair. Two processes show a crash in the middle of a file
and its continuation; two requests of a webhook, a batch that comes twice. A table (`TimescaleSink`) is
in the model and in the theorems, but not in the instance: it does less than a file does. A body of 5 bytes in pieces of 1, 2 and 2 against a window of 4 makes the sender park between two
pieces and crosses the renewal threshold; two requests compete for one or two places. Four sockets are enough for the current one, a
replaced one and two whose ends have not yet heard of it. Four opens against a limit of one are two that overlap, one that replaces
and one that comes late. Debounces of 2 and 1 and a cooldown of 3 let each end before and after the others. Three
events with pages of two make a page full and leave one for the next; four ticks exceed overlap and backlog. Faults come in
pairs where the second one can hit the recovery from the first. TLC's results say nothing of larger instances; the theorems of section 5 do.

**Deadlock.** It is checked in the runs of TunnelStream, which has an explicit `Stopped` step, and of PeerChannel, which always has a step.
The other runs say `CHECK_DEADLOCK FALSE`: a run or a manoeuvre ends; a logger or a command service has no more work once the
bounded load is done, or its process is dead and, with the bound used up, no other follows; sessions rest once the opens are used up; the clock of `FieldEvents` ends; `DeviceReads` and `RuleCycle` have a service that
was stopped and, with the faults used up, is not started again.

## 4. Fairness

| runs | fairness of | because |
|---|---|---|
| OpRuns | the executor's own continuation; the end of each step (local end, remote limit) | a live process runs its code, `executeAndWait` always answers, timers fire. None of the remote system or the tunnel; a crash may pre-empt everything. An executor with a channel but no limit is exempted in `RunEnds`: it has no timer |
| ManRuns | forward and backward steps together | as above; never of `Availability` |
| DevRuns | each job's worker steps (`Work`), which are disabled when the process is dead, and for a queued job when the worker is closed | every Modbus request is answered or times out, and the read-back window ends. Not of callers, of reconnections, of any part of `stop()`, of the end of the process or of a new one |
| ReadRuns | each handler, `WriteTelemetry`, `Age` | the poll repeats, requests and statements end, the worker takes its jobs, time passes. Not of stops and restarts; `Steady` says in the property that the device goes on answering |
| RuleRuns | `RunCycle`, `Tick`, the end of each action that has a time limit | the timer fires when the actions are over. Not of records, and not of a container command, whose request has no limit |
| LogRuns | continuations; sink writes and their settlement | promises settle, a sink write succeeds or fails, a webhook's requests time out and their number is limited |
| TunEnds | both receivers, steps of each task and stream, sweeps | event loops run, the ack timer and the sweeps fire, `fetch` settles. Not of browsers, drops, restarts, reconnections |
| HubRuns | timers, answers to dials, frames on lines that are up, the credential store | faults and `start`/`stop` commands may never come |
| EventRuns | weak: some `Pull`, the steps of each round; strong: some `FeedAnswers` | the interval fires, requests and statements end. The strong part is an assumption on the surroundings: a field that is asked again and again answers again and again |

TunRuns, SessionRuns and OpParallelPairing check safety only.

## 5. What is proved

| module | theorem | states |
|---|---|---|
| `OperationExecutor_proofs` | `TypeCorrect` | `Spec => []TypeOK` |
| | `Inductive` | `Spec => []IInv` |
| | `FailClosedHolds` | `Spec => []FailClosed` |
| | `CompletedHolds` | `Spec => []SequentialCompletedMeansDone` |
| | `CompensatesHolds`, `CompensationCompleteHolds`, `CompensatesWhatSucceededHolds` | each half of `CompensatesWhatSucceeded`, and the whole |
| | `ReverseOrderHolds`, `StopHolds`, `OrderKeptHolds` | the parts of `OrderKept`, and the whole |
| | `ManeuverTypeCorrect`, `ManeuverInvariance` | `ManeuverSpec => []ManeuverTypeOK`, `ManeuverSpec => []ManeuverIInv` |
| | `StepsAccountedHolds`, `UndoExactHolds` | `ManeuverSpec => []StepsAccounted`, `ManeuverSpec => []UndoExact` |
| | `SafeLocalStep` | `ManeuverSpec => Contract!Safe`: a manoeuvre is a step as `LocalStep` describes it, without its liveness |
| `DeviceCommand_proofs` | `TypeCorrect`, `Invariance` | `Spec => []TypeOK`, `Spec => []IInv` |
| | `HonestWhenAloneHolds`, `DeviceLeftCleanHolds`, `SuccessIsAuditedHolds` | `Spec => []` of `HonestWhenAlone`, `DeviceLeftClean`, `SuccessIsAudited` |
| `TamperLogger_proofs` | `TypeCorrect`, `Invariance` | `Spec => []TypeOK`, `Spec => []IInv` |
| | `NothingLostHolds`, `AppFilesSoundHolds` | `Spec => []NothingLost`, `Spec => []AppFilesSound` |
| `SessionGateway_proofs` | `TypeCorrect`, `Invariance` | `Spec => []TypeOK`, `Spec => []IInv` |
| | `EndsAgreeHolds`, `LimitUnlessOverlapHolds`, `AuditAgreesHolds` | `Spec => []` of `EndsAgree`, `LimitUnlessOverlap`, `AuditAgrees` |
| `DeviceReads_proofs` | `TypeCorrect`, `Invariance` | `Spec => []TypeOK`, `Spec => []IInv` |
| | `TablesFollowHolds` | `Spec => []TablesFollow` |
| `RuleCycle_proofs` | `TypeCorrect`, `Invariance` | `Spec => []TypeOK`, `Spec => []IInv` |
| | `ActsWithCauseHolds` | `Spec => ActsWithCause` |
| `FieldEvents_proofs` | `TypeCorrect`, `Invariance` | `Spec => []TypeOK`, `Spec => []IInv` |
| | `NothingSkippedHolds` | `Spec => []NothingSkipped` |
| `Tunnel_proofs` | `TypeCorrect`, `Invariance` | of PeerChannel: `Spec => []TypeOK`, `Spec => []IInv` |
| | `AgreedConnectionHolds`, `StopIsFinalHolds` | `Spec => []AgreedConnection`, `Spec => StopIsFinal` |
| | `StreamTypeCorrect`, `StreamInvariance` | of TunnelStream: `StreamSpec => []StreamTypeOK`, `StreamSpec => []StreamIInv` |
| | `EndedIsCompleteHolds`, `SentWithinGrantsHolds` | `StreamSpec => []EndedIsComplete`, `StreamSpec => []SentWithinGrants` |
| | `CreditSoundHolds` | `StreamSpec => []CreditSound`, assuming `PiecesFit` |

`CreditSoundHolds` has a hypothesis on the configuration, explained below. All the others rest on the `ASSUME` of the model alone, which gives the constants their types: any number of steps, records, devices, jobs, registers,
handlers, values, rules, conditions, sinks, processes, sessions, events, rounds, sockets, URLs, requests, bodies and faults. Every `IInv` was checked with TLC, on the instance of its run or a smaller
one, before it was proved. The proofs have one shape: `Init` implies `IInv`, one lemma per action (`...Keeps`) says that it keeps it, the property follows.

**OperationRun.** None of the safety properties is inductive alone. "Completed means done", for instance, is about the steps, while the code
computes the verdict from the list of outcomes. `IInv` closes the gap:

- `PhaseInv` ties the phase to the row, to running steps and to the untouched compensation chain, so that nothing starts behind
  an end;
- `OrderInv` says that in sequential mode the outcomes are those of steps 1, 2, ... with at most one step under way behind them, none behind
  a failure that stops the run, and all of them in at a regular end;
- `VerdictInv` says that "completed" and "rolled_back" are what the outcomes call for, and that a rollback that is over has walked the whole list;
- `ChainInv` says that entries above the chain's position are through, entries below untouched, and that an entry was tried exactly if the
  outcome it is paired with was a success.

With `OrderInv` the pairing by position is the author's pairing in sequential mode (`order[k] = k`); this is the step that fails in
parallel mode, which is the finding of section 6. The lemmas: `TypeStep`, then `NextCases`, `SettleFacts`, `LaunchFacts`, `LookupFacts`, `RunningFacts` (what each kind of action
changes), then one preservation lemma per conjunct.

**ManeuverRun.** The verdict of a manoeuvre is computed from what is left of its calls, and its compensations from the devices that
succeeded, so `ManeuverIInv` describes the calls: `CallInv` (commands go to resolved targets, none is open behind the forward part), `ParallelInv`
(every target of every step is called), `ChainInv` (a sequential list: what lies behind the position is through or cut off by
the first failure, what lies before it untouched), `TimersMatch`, `UndoInv` and `ReverseInv` (each rollback step compensates only devices
that succeeded, all that a fixed selector names, one command at a time, from the end of the list), `EndInv` (the rollback ran
exactly when the record asks for it). `ReverseInv` and `ChainInv` need a sequential record, and `UndoExact` says so. `SafeLocalStep` maps the initial state to
`LocalStep`'s and every action to a step or a stutter of it: commands sent and answered are `Work`, the end of the manoeuvre is `End`, and by
`DoneIsQuiet` no command is open then or later.

**DeviceCommand.** `PlanInv` ties what is left to do to the plan of the command, which gives "written so far"; `ResultInv` ties result, verdict and
audit record together and yields `SuccessIsAudited`. The rest holds only of a job that has the device to itself, so `SoleInv` adds `Alone` (no other
job is under way while `sole` names this one). Then `HandshakeInv` says that the acknowledgement read is the job's own, `BackupInv` that a register outside of
what was written, or back inside of what was restored, holds its backup, `ReleaseInv` that a reset output is 0. The lemma `Frame` shows that only the job that acts has to be looked at.
The proof corrected the property: as first stated, `OutputReleased` ignored that a failed write of a command that is not atomic leaves the other
outputs as they are, and that a second run after a crash takes the first run's value for its backup (section 6, observation 16).

**TamperLogger.** All of it rests on one order: events of the files come `Before` those of the write chain, the tasks of the chain before each other, and those
before batch and waiting calls (`OrderInv`, `FileInv`), where `Before` means "not the same event, and in the order of `log()` if both
are application events of one process". "No second write" and "in order" are then one fact of files and tables (a webhook is left out of `FileInv`, it may get a batch
again). What a failed or torn write leaves is a beginning of the task (`SinkGets`), so the order survives it; once the task is settled its events are nowhere on their way, in
whatever sinks they are. `SinkInv` says that a sink which did its write well has every byte of the task, which gives "acknowledged is durable" at `Settle`. `Moved` covers the actions that log
an event or bring some to the chain (`log`, `flush`, the timer, `close`), `SinkWriteKeeps`, `HookTryKeeps` and `SettleKeeps` are `deliver()`. That the lines of an application file are links needs
`NoSilentLoss` itself: the predecessor of an event that is being written is somewhere, and by the order it can only be the entry before (`LinkBefore`), torn or whole.

**SessionGateway.** What the two ends know of each other is carried by frames, so `FrameInv` says what may be in the channel: ends of sessions that are over, and at
most one open per call, not yet answered. `LiveInv` (from its signature on a session is at the peer, unless the peer was replaced) and `OrphanInv` (what is
at the peer is known, under way, failed, or told to end) give `EndsAgree`; `HubInv` (no entry twice; a call behind its audit statement has an open record, which is what
`Register` finds after the await) carries `AuditAgrees` through both ends of a record; `LimitInv` keeps a
place free for the one call that is under way. `FreshInv` says that ids are new.

**DeviceReads.** `TablesFollow` speaks of moments at which nothing is on its way. `RowInv` and `AlarmInv` say what makes them come out right: as long as
`rowSafe` holds, at most one status statement is on its way, only while the service is up, and it writes what the flag says; the alarm statement
likewise. Three lemmas per table (a step that leaves it alone, a statement sent, a statement ended) then serve every action. A restart whose statement for the row fails ends `rowSafe`.

**RuleCycle.** The property compares the rule's decision with what the evaluations saw. `HeldInv` (`conditionHeldSince` never claims more time than has passed since
an evaluation missed the condition), `EdgeInv` (a rule that is not fired was seen false since it last acted) and `ArmInv` (an armed rule without
debounce was seen false) tie the two together. `ArmInv` needs "without debounce": this is observation 5 of section 6.

**FieldEvents.** A round uses the cursor it read at its beginning, so `NothingSkipped` has to hold of every cursor that is on its way: `Asks` says
that a round that asks behind a cursor asks for everything owed, `Writes` that what a round no longer writes lies within the overlap of its last
event, or before the backlog of a first answer. `FlushKeeps` is where the overlap is needed (a row that appears in time is younger than anything
seen, less the overlap), `FeedAnswersKeeps` where the order of the query is.

**PeerChannel.** The property speaks of sockets, so the invariant says what both ends of a socket and the frames between them may be.
`ConnectorInv`: a connection that is held is the connector's one socket, the generation that counts is that socket's, and a dial is due only when
nothing is held. `HubInv`: a socket being dialled is new to both ends (`OpeningIsFresh`, which is what makes a slot safe to use again); the hub only learns of
an end that the connector learns of too (`CloseIsMutual`); an acknowledgement on its way, or received, belongs to a registration that the hub still
has, unless the line is silent or an end is on its way behind it (`AckIsReached`). `AgreedConnection` follows from these. `StopIsFinal` takes from them that a stopped connector has no timer
for a dial (`StoppedDialsNot`) and that only the open event of its one socket sends a registration, which `stop()` has closed (`CloseIsNoRegister`, `StoppedRegistersNot`).

**TunnelStream.** The property compares what the browser has with what the upstream sent, and between the two lie queues, credit and ids that are used again.
`IdsInv` and `OwnId` say that a stream in use shares its id with nobody who may still send, which holds after a restart of the hub only for
requests outside `cut`. `ToClientInv` says that an open or a credit is of the request whose id it carries; `ClientInv` that tasks and map
agree. For a request outside `cut`, `Intact` has these parts: `Unknown` (before the client has heard of it, nothing has happened), `BodyInOrder`
(the pieces at the browser, those on their way and those to come are 1, 2, 3, ... without a gap, and nothing is behind a FIN), `Account` (bytes sent
and credit left are the windows that arrived, and the other windows are on their way), `Renewed` (less than half a window has come since the last
grant), `EndedWhole`. `Numbered` and `FinLast` are the two facts about queues that all this needs, with a lemma for putting and one for taking a frame.
The bytes of a body are a recursive function. That such a function satisfies its own equation is proved from the least number with no such
table (`Least`, `TableExists`, `BytesStep`), so the induction that is out of the provers' reach is not needed.

That no task waits for ever (`NoCreditStall`) follows from `Account` and `Renewed`. If neither credit nor data is on its way, every granted window
has arrived and every byte sent has been consumed, so the credit left is a window less what has come since the last grant, which is more than
half a window. A task with that much credit parks only for a piece that is larger. `PiecesFit` excludes this: no piece exceeds what is left,
`2 * piece <= Window + 2`. Chunk size and window are configured apart and nothing in the code relates them; the defaults (64K, 256K) satisfy
`PiecesFit`, TLC evaluates it for the instance of the runs, and with larger pieces the stall is real, until the sweep ends the stream.
`WaitsForCredit` adds that a parked task lacks credit. `SentWithinGrants` needs no such hypothesis.

Only model-checked: liveness (`RunEnds`, `JobsEnd`, `ReadingsSettle`, `EdgeIsTaken`, `AuditAnswered`, `StreamsEnd`, `Converges`, `EventsArrive` and
the fairness part of `ImplementsLocalStep`), which is out of the prover's reach. No safety property of a passing run is left without a theorem.

## 6. Findings and observations

One has a run that ends in a counterexample: `OpParallelPairing` - in a parallel operation `rollback[i]` is paired with the i-th outcome to arrive,
so a failed step is compensated and a successful one is not (`operation-executor.ts:581`, against the comment at :572).

Seven more are stated as properties in the modules and are false of the model as of the code: each says what a comment or a document says, and TLC refutes it, most of
them in a second, when it takes the place of the properties in the named cfg. The property beside it holds, and is what the run checks.

| property | cfg | the code | against | holds instead |
|---|---|---|---|---|
| `FileVerifies` | LogRuns | an event logged while an audit event awaits its flush can be written ahead of it; the untouched file does not verify (`tamper-logger.ts:142`) | `packages/tamper-logger/src/verify-chain.ts:27` | `AppFilesSound` |
| `RestartIsNotTamper` | LogRuns | a crash in a write leaves a torn line, the next process appends to it, and `tools/verify-log.mjs:68-74` calls the file corrupt | `verify-chain.ts:30` (a restart is no tampering) | `AppFilesSound` |
| `DropLeavesNoHole` | TunRuns | a stream survives the loss of the channel with a hole in its body and ends normally (`tunnel-proxy.ts:411`) | `docs/architecture/FAZ5-OZET-VE-BAGLANTI-ANATOMISI.md:188` | `EndedIsComplete` |
| `RefusedIsNotExecuted` | DevRuns | with two commands of one controller at once, a refused one reads the other's acknowledgement and is recorded as executed (`device-service.ts:727`) | the comment at :725 | `HonestWhenAlone` |
| `LimitHolds` | SessionRuns | two calls of `openSession` that overlap both enter their session (`session-gateway.ts:143`) | the comment at :18 | `LimitUnlessOverlap` |
| `ArmedByFalse` | RuleRuns | a rule with `armAfterFalse` and a debounce is armed while the debounce has not elapsed, and acts on a condition that was never false (`rule-evaluator.ts:90-96`; r06 of `deployment/v2/dev/field/rules/rules.json:4-20` has both) | the comment at :93, `packages/shared-types/src/automation-rule.ts:201-202` | `ActsWithCause` |
| `FullPageLosesNothing` | EventRuns | a full page of events within one overlap stops the collection of a field for good (`field-event-collector.ts:158`) | `docs/architecture/WEB-SERVICE-TUNNEL-SADELESTIRME-MIMARISI.md:425` | `EventsArrive` |

Observations met while modelling; the models contain them, as exceptions in properties or restrictions of runs. The first, second, fourth, fifth and sixth are
the other face of a false property above: the exception of the one that holds.

1. Whether a file with audit events, or with a torn line, verifies: `AppFilesSound` speaks of application events, and of the lines as the sink got them
   (`FileVerifies`, `RestartIsNotTamper`). A refused event may be in some sinks, or in all: a write that fails has perhaps happened (`file-sink.ts:42-43`).
2. A stream whose channel dropped is exempted in `EndedIsComplete` (`cut`; `DropLeavesNoHole`).
3. A URL whose host refuses connections is dialled for ever, the backup URL never (`tunnel-connector.ts:243`, against :12; `DownUrls` is empty in
   `HubRuns`, and `{1}` shows it).
4. Two commands of one device at once are exempted in `HonestWhenAlone` and `DeviceLeftClean` (`sole`; `RefusedIsNotExecuted`).
5. `ActsWithCause` asks for arming only of rules without a debounce (`ArmedByFalse`).
6. A page filled by one overlap is exempted in `EventsArrive` (`Crowded`; `FullPageLosesNothing`). A failed INSERT is lost once the cursor has moved
   beyond the overlap, and so is a row that appears later than the overlap.
7. `COLLECTED_EVENT_CODES` lacks the four `operation_*` codes of `UPLINK_EVENT_WHITELIST`, whose comment says they are the same.
8. A peer keeps sessions whose open failed at the hub, and nothing calls `ClientSessionStore.sweep()` outside tests. `onPeerRegistered` closes one session of
   the peer. A refused open has by then ended the session in the way. Nobody waits for the statement that closes an audit record, and its failure is at most logged: the record stays open (:242-257). The sessions of a hub process that died are not closed at the next start
   (`session-gateway.ts:65` says they are; the deployed audit is in memory).
9. A failed status statement is not repeated until the next change; a handler that finishes behind `stop()`'s statement can set the row online
   again; `start()` writes "online" for a device that could not be connected (`device-service.ts:568`, :388, :81).
10. The comment at `data-service.ts:31` says five attempts and a dead letter; `platform-message-queue.ts` sets one attempt.
11. One container command without an answer stops the cycle of all rules (`container-command-channel.ts:77`); an edge within the cooldown is used up.
12. A response without a body returns after its FIN without freeing its place among the client's streams until the idle sweep
    (`tunnel-client.ts:291-295`); `TunEnds` passes because the sweep comes. After a hub restart, a stream id that is used again leaves the task of the old
    one waiting for ever.
13. A worker that is stopping returns `undefined` for a job, and the caller takes that for success (`device-service.ts:351`).
14. With `onFailure` other than `stop` the steps behind a failed preparation still run (`operation-executor.ts:328`, compare
    `docs/architecture/KOMUT-MANEVRA-OPERASYON-MIMARISI.md:297-298`). A manoeuvre compensates a failed step's device if another step succeeded on it (:537).
15. A read that follows a write reconnects the device which `stop()` has just disconnected (`device.ts:101`). Writes sorted by priority put 0
    last, where the comment calls it the highest (:810).
16. A momentary output can stay energised: a `write()` of several outputs that fails half-way throws before the reset (`device-service.ts:670`), and a job that is
    run again after a crash reads its own value as the backup and, when its write is rejected, puts it back (`device.ts:378`). Both are exceptions in `OutputReleased`.
17. Nothing relates `chunkSize` to `windowSize`: with a chunk of more than half a window a response can stall until the idle sweep, because the sender waits for more than
    is left of the window while the hub has not yet consumed half of it (`tunnel-client.ts:424` against `tunnel-proxy.ts:427`; `PiecesFit`).

## 7. Not modelled, and the plan

Left out of the modelled components: WebSocket bridges, `stop()` and session close of the tunnel; `config-update` and fan-out of frames; `stop()` and
revocation at the hub; tokens, roles and byte counters of sessions; redaction and notifications of the logger; unknown devices, published telemetry,
equal job ids and serial devices of the command path; the heartbeat writer and the technician's `resolve()` of an alarm; the reader and the
authorisation of field events; loading of rules and what their actions send; `divideTotal`. Queue, database, `ws` and TCP are external, modelled by how
the code uses them. Not modelled at all: what is sequential over one store (login, admin routes, bootstrap codes), pure I/O (SQL writers, HTTP
clients, plugins), presentation and simulators; these are most of the repository's lines, and there is no protocol in them to check.

Next modules, most important first:

1. `OperationRequest` - job ids, 15 s limit, background runs, the remote channel; two executors composed through `OperationRun`.
2. `TunnelStream`: WebSocket bridges; composition with `PeerChannel`'s guarantee on the channel.
3. `HubContainerView`, `TicketStore`: overlapping refreshes, a shared file.

Further hazards, beyond those in PROJECT.json:

- operations: a remote success answered after the limit is recorded as failed and not compensated (`operation-executor.ts:791`); stop
  commands of timed steps are not cancelled by a rollback (:488); two requests for one operation run side by side
  (`operation-run-store.ts:91`); the 15 s limit races the command (`execute-command-use-case.ts:51`).
- tunnel: places that a response without a body keeps (`tunnel-client.ts:293`); opens that wait for their acknowledgement do not count against
  the limit (`tunnel-proxy.ts:344`); a reply hijacked before a refusal is never answered (:239); credit outgrows the window over a long body
  (:429); a browser that leaves before the acknowledgement leaves a stream for nobody (:259); a refused connection begins with the first URL again
  (`tunnel-connector.ts:243`).
- hub: a close between authentication and the assignment of the peer id (`peer-channel-hub.ts:90`); the error of an old socket
  marks the peer (:109).
- devices: emptying the mailbox can erase another command's request (`device-service.ts:731`); a caller's wait ends while the job is queued
  (`bullmq-queue.ts:147`); priorities (`device.ts:810`).
- elsewhere: a fetch completed unwritten at shutdown (`integration-service.ts:124`); overlapping refreshes (`hub-container-view.ts:107`); a ticket file
  written back whole (`ticket-store.ts:66`).
- of the modelled components, covered by the properties of their runs but not listed one by one: the start of a step behind a failure and the
  choice of devices to compensate (`operation-executor.ts:328`, :446, :534); credit and parked senders (`tunnel-client.ts:331`, :455); late events of old sockets
  (`tunnel-connector.ts:300`, :380, `peer-channel-hub.ts:222`); rollback without a connection, pulses that time out, lost audit records
  (`device.ts:427`, `device-service.ts:672`, :727); overlapping publications and handlers behind `stop()` (`device-service.ts:633`, :384, :388); the session
  in the way (`session-gateway.ts:150`); a debounce per condition (`rule-evaluator.ts:77`).

Next proofs: none is owed for the present models. A composition of `TunnelStream` with `PeerChannel` would make `Drop` and `ChannelBack` steps of the uplink,
and its refinement is the next theorem worth stating.
