---------------------------- MODULE TamperLogger ----------------------------
(***************************************************************************)
(* The tamper-evident logger of packages/tamper-logger: every event is     *)
(* signed into a hash chain the moment log() is called; application events *)
(* wait in a batch, audit and security events flush the batch and are then *)
(* written at once, fail-closed; all writes go through one promise chain   *)
(* (writeChain) to every sink.  A process restart begins a new chain in    *)
(* the same files.                                                         *)
(*                                                                         *)
(* A sink keeps what its write put there, which after a failed write, or   *)
(* one the process died in, may be a part of the batch: FileSink appends   *)
(* and then syncs, so lines, and a piece of a line, stay behind; a table   *)
(* has all the rows or none; a webhook is tried again, and may get a batch *)
(* several times.                                                          *)
(*                                                                         *)
(* A signature is modelled by the event itself: [epoch, seq] is the only   *)
(* event whose prevHash is the signature of [epoch, seq - 1], and seq = 1  *)
(* carries the genesis hash.                                               *)
(***************************************************************************)
EXTENDS Naturals, SequencesExt

CONSTANTS
  Sinks,         \* sinks the logger fans out to: files, webhooks and tables
  Files, Hooks,  \* which of them are FileSink, HttpWebhookSink (others: TimescaleSink)
  MaxTries,      \* requests of one webhook write (retries + 1)
  Loads,         \* sets of categories in use: "app", "audit" (also security)
  BatchSize,     \* pending events that force a flush
  MaxEvents,     \* bound: events logged by the first process, one less by each
                 \* that follows
  MaxEpochs      \* bound: processes that follow one another

ASSUME ConstantsAssumption ==
  /\ Sinks # {} /\ Files \subseteq Sinks /\ Hooks \subseteq Sinks \ Files
  /\ MaxTries \in Nat \ {0}
  /\ Loads \subseteq SUBSET {"app", "audit"}
  /\ BatchSize \in Nat \ {0}
  /\ MaxEvents \in Nat /\ MaxEpochs \in Nat

Event == [epoch : Nat, seq : Nat, cat : {"app", "audit"}]

VARIABLES
  load,      \* the categories of the events that are logged
  epoch,     \* which process this is
  seq,       \* seq the next event gets
  pending,   \* the batch
  waiting,   \* audit log() calls in `await this.flush()`, oldest first
  chain,     \* tasks of writeChain, the first one being delivered
  progress,  \* per sink: the write of the first task
  tries,     \* per sink: requests of that write that got no good answer
  file,      \* the pieces each sink got: lines, rows, events posted
  cut,       \* per sink: pieces that are a fragment, without its newline
  lost,      \* application events counted as dropped
  acked,     \* audit events whose log() resolved
  refused,   \* audit events whose log() rejected
  life,      \* "open", "closing" (close() awaits its flush), "closed"
  lastBatch  \* last event of the batch close() flushed, None if there was none

vars == <<load, epoch, seq, pending, waiting, chain, progress, tries, file, cut,
          lost, acked, refused, life, lastBatch>>

None == [epoch |-> 0, seq |-> 0, cat |-> "app"]

Task   == [evs : Seq(Event), audit : BOOLEAN]
Waiter == [ev : Event, after : Event]

TypeOK ==
  /\ load \in Loads
  /\ epoch \in 1 .. MaxEpochs + 1
  /\ seq \in 1 .. MaxEvents + 1
  /\ pending \in Seq(Event)
  /\ waiting \in Seq(Waiter)
  /\ chain \in Seq(Task)
  /\ progress \in [Sinks -> {"idle", "writing", "ok", "failed"}]
  /\ tries \in [Sinks -> 0 .. MaxTries]
  /\ file \in [Sinks -> Seq(Event)] /\ cut \in [Sinks -> SUBSET Nat]
  /\ lost \subseteq Event /\ acked \subseteq Event /\ refused \subseteq Event
  /\ life \in {"open", "closing", "closed"}
  /\ lastBatch \in Event

Init ==
  /\ load \in Loads
  /\ epoch = 1 /\ seq = 1
  /\ pending = <<>> /\ waiting = <<>> /\ chain = <<>>
  /\ progress = [s \in Sinks |-> "idle"] /\ tries = [s \in Sinks |-> 0]
  /\ file = [s \in Sinks |-> <<>>] /\ cut = [s \in Sinks |-> {}]
  /\ lost = {} /\ acked = {} /\ refused = {}
  /\ life = "open" /\ lastBatch = None

-----------------------------------------------------------------------------
(* Mutant: the batch overtakes what is queued.                             *)
FlushedFirst(batch) ==
  IF batch = <<>> THEN chain ELSE <<[evs |-> batch, audit |-> FALSE]>> \o chain

(* flush(): the batch, if any, becomes a task of the write chain.          *)
Flushed(batch) ==
  IF batch = <<>> THEN chain ELSE Append(chain, [evs |-> batch, audit |-> FALSE])

LastOf(batch) == IF batch = <<>> THEN None ELSE batch[Len(batch)]

Signed(c) == [epoch |-> epoch, seq |-> seq, cat |-> c]

CanLog == life = "open" /\ seq + epoch <= MaxEvents + 1

LogApp ==
  /\ CanLog /\ "app" \in load
  /\ LET batch == Append(pending, Signed("app")) IN
       IF Len(batch) >= BatchSize
       THEN pending' = <<>> /\ chain' = Flushed(batch)
       ELSE pending' = batch /\ UNCHANGED chain
  /\ seq' = seq + 1
  /\ UNCHANGED <<load, epoch, waiting, progress, tries, file, cut, lost, acked, refused, life,
                 lastBatch>>

(* An audit event is signed at once but queued for writing only when the   *)
(* flush it awaits is through.                                             *)
LogAudit ==
  /\ CanLog /\ "audit" \in load
  /\ waiting' = Append(waiting,
       [ev |-> Signed("audit"),
        after |-> LastOf(pending)])
  /\ chain' = Flushed(pending)
  /\ pending' = <<>>
  /\ seq' = seq + 1
  /\ UNCHANGED <<load, epoch, progress, tries, file, cut, lost, acked, refused, life,
                 lastBatch>>

(* The batch timer.                                                        *)
TimerFlush ==
  /\ life = "open" /\ pending # <<>>
  /\ chain' = Flushed(pending)
  /\ pending' = <<>>
  /\ UNCHANGED <<load, epoch, seq, waiting, progress, tries, file, cut, lost, acked, refused, life,
                 lastBatch>>

Queued == UNION {ToSet(chain[k].evs) : k \in 1 .. Len(chain)}

(* The k-th waiter has its flush behind it.  Two waiters with nothing to   *)
(* wait for resume in the order they came.                                 *)
MayResume(k) ==
  /\ waiting[k].after \notin Queued
  /\ \A j \in 1 .. k - 1 : waiting[j].after # waiting[k].after

WriteImmediate(k) ==
  /\ MayResume(k)
  /\ chain' = Append(chain, [evs |-> <<waiting[k].ev>>, audit |-> TRUE])
  /\ waiting' = RemoveAt(waiting, k)
  /\ UNCHANGED <<load, epoch, seq, pending, progress, tries, file, cut, lost, acked, refused, life,
                 lastBatch>>

-----------------------------------------------------------------------------
(* deliver(): the writes of all sinks begin.  A closed file or webhook     *)
(* rejects its own at once; close() of a table does nothing.               *)
Deliver ==
  /\ chain # <<>> /\ \A s \in Sinks : progress[s] = "idle"
  /\ progress' = [s \in Sinks |-> IF life = "closed" /\ s \in Files \cup Hooks
                                  THEN "failed" ELSE "writing"]
  /\ UNCHANGED <<load, epoch, seq, pending, waiting, chain, tries, file, cut, lost,
                 acked, refused, life, lastBatch>>

(* Sink s gets the first n events of the batch, the last of them torn or   *)
(* not.                                                                    *)
Gets(s, n, torn) ==
  /\ file' = [file EXCEPT ![s] = @ \o SubSeq(chain[1].evs, 1, n)]
  /\ cut' = IF torn THEN [cut EXCEPT ![s] = @ \cup {Len(file[s]) + n}] ELSE cut

(* A write to a file or a table ends.  One that fails may have left the    *)
(* beginning of the batch in a file, in a table all of it or nothing.  A   *)
(* process that dies in a write leaves the same: Restart after this step.  *)
SinkWrite(s) ==
  LET all == Len(chain[1].evs) IN
  /\ chain # <<>> /\ progress[s] = "writing" /\ s \notin Hooks
  /\ \/ progress' = [progress EXCEPT ![s] = "ok"] /\ Gets(s, all, FALSE)
     \/ /\ progress' = [progress EXCEPT ![s] = "failed"]
        /\ \E n \in 0 .. all, torn \in BOOLEAN :
             /\ torn => s \in Files /\ n > 0
             /\ s \notin Files => n \in {0, all}
             /\ Gets(s, n, torn)
  /\ UNCHANGED <<load, epoch, seq, pending, waiting, chain, tries, lost, acked, refused,
                 life, lastBatch>>

(* One request of a webhook's write: the receiver gets the batch or not,   *)
(* and if its good answer does not come in time it is asked again.         *)
HookTry(s) ==
  LET all == Len(chain[1].evs) IN
  /\ chain # <<>> /\ progress[s] = "writing" /\ s \in Hooks
  /\ \/ /\ progress' = [progress EXCEPT ![s] = "ok"] /\ Gets(s, all, FALSE)
        /\ UNCHANGED tries
     \/ /\ tries[s] < MaxTries
        /\ tries' = [tries EXCEPT ![s] = @ + 1]
        /\ progress' = IF tries[s] + 1 = MaxTries
                       THEN [progress EXCEPT ![s] = "failed"] ELSE progress
        /\ \E n \in {0, all} : Gets(s, n, FALSE)
  /\ UNCHANGED <<load, epoch, seq, pending, waiting, chain, lost, acked, refused,
                 life, lastBatch>>

Delivered == \A s \in Sinks : progress[s] \in {"ok", "failed"}

(* Mutant: one sink is enough.                                             *)
FailedEverywhere == \A s \in Sinks : progress[s] = "failed"

Failed == \E s \in Sinks : progress[s] = "failed"

(* Mutant: a failed write never gets an answer.                            *)
SettleSuccess ==
  /\ chain # <<>> /\ Delivered /\ ~Failed
  /\ acked' = IF chain[1].audit THEN acked \cup ToSet(chain[1].evs) ELSE acked
  /\ chain' = Tail(chain)
  /\ progress' = [s \in Sinks |-> "idle"] /\ tries' = [s \in Sinks |-> 0]
  /\ UNCHANGED <<load, epoch, seq, pending, waiting, file, cut, lost, refused, life, lastBatch>>

(* The end of deliver(): one failing sink refuses an audit event and       *)
(* counts a batch as dropped.                                              *)
Settle ==
  /\ chain # <<>> /\ Delivered
  /\ LET evs == ToSet(chain[1].evs) IN
       IF chain[1].audit
       THEN /\ IF Failed THEN refused' = refused \cup evs /\ UNCHANGED acked
                         ELSE acked' = acked \cup evs /\ UNCHANGED refused
            /\ UNCHANGED lost
       ELSE /\ lost' = IF Failed THEN lost \cup evs ELSE lost
            /\ UNCHANGED <<acked, refused>>
  /\ chain' = Tail(chain)
  /\ progress' = [s \in Sinks |-> "idle"] /\ tries' = [s \in Sinks |-> 0]
  /\ UNCHANGED <<load, epoch, seq, pending, waiting, file, cut, life, lastBatch>>

-----------------------------------------------------------------------------
(* close(): no more events, flush, and when that flush is through the      *)
(* sinks are closed, whatever else the write chain holds.                  *)
Close ==
  /\ life = "open"
  /\ life' = "closing"
  /\ chain' = Flushed(pending)
  /\ pending' = <<>>
  /\ lastBatch' = LastOf(pending)
  /\ UNCHANGED <<load, epoch, seq, waiting, progress, tries, file, cut, lost, acked, refused>>

CloseSinks ==
  /\ life = "closing"
  /\ lastBatch \notin Queued
  /\ life' = "closed"
  /\ UNCHANGED <<load, epoch, seq, pending, waiting, chain, progress, tries, file, cut, lost, acked,
                 refused, lastBatch>>

(* Mutant: numbering starts at zero.                                       *)
RestartAtZero ==
  /\ epoch < MaxEpochs
  /\ epoch' = epoch + 1
  /\ seq' = 0
  /\ pending' = <<>> /\ waiting' = <<>> /\ chain' = <<>>
  /\ progress' = [s \in Sinks |-> "idle"] /\ tries' = [s \in Sinks |-> 0]
  /\ life' = "open" /\ lastBatch' = None
  /\ UNCHANGED <<load, file, cut, lost, acked, refused>>

(* The process ends, closed or not, and another one continues the files,   *)
(* behind a torn line on that same line.                                   *)
Restart ==
  /\ epoch < MaxEpochs
  /\ epoch' = epoch + 1
  /\ seq' = 1
  /\ pending' = <<>> /\ waiting' = <<>> /\ chain' = <<>>
  /\ progress' = [s \in Sinks |-> "idle"] /\ tries' = [s \in Sinks |-> 0]
  /\ life' = "open" /\ lastBatch' = None
  /\ UNCHANGED <<load, file, cut, lost, acked, refused>>

Next ==
  \/ LogApp \/ LogAudit \/ TimerFlush
  \/ \E k \in 1 .. Len(waiting) : WriteImmediate(k)
  \/ Deliver
  \/ \E s \in Sinks : SinkWrite(s) \/ HookTry(s)
  \/ Settle
  \/ Close \/ CloseSinks
  \/ Restart

Spec == Init /\ [][Next]_vars

(* Continuations run, and sinks answer one way or the other.               *)
FairSpec ==
  /\ Spec
  /\ WF_vars(\E k \in 1 .. Len(waiting) : WriteImmediate(k))
  /\ WF_vars(Deliver \/ (\E s \in Sinks : SinkWrite(s) \/ HookTry(s)) \/ Settle)

-----------------------------------------------------------------------------
(* verifyChain(events).valid for untouched events: each one starts a       *)
(* segment or follows the event it is chained to.                          *)
ChainValid(q) ==
  \A i \in 1 .. Len(q) :
    \/ q[i].seq = 1
    \/ i > 1 /\ q[i - 1].epoch = q[i].epoch /\ q[i - 1].seq = q[i].seq - 1

(* tools/verify-log.mjs: every line parses, and the chain is valid.        *)
VerifyLog(s) == cut[s] = {} /\ ChainValid(file[s])

(* Properties.                                                             *)

(* The events of which a sink has every byte.                              *)
Whole(s) == {file[s][i] : i \in (1 .. Len(file[s])) \ cut[s]}

(* Fail-closed: an audit call that resolved has its event in every sink,   *)
(* whatever failed, was retried or was torn before or after it.            *)
AckedIsDurable == \A s \in Sinks : acked \subseteq Whole(s)

(* No flush or close writes an event to a file or a table twice; a webhook *)
(* may get it once per request.                                            *)
NoDuplicates ==
  \A s \in Sinks \ Hooks : \A i, j \in 1 .. Len(file[s]) :
    file[s][i] = file[s][j] => i = j

(* No event of the live process vanishes: it is still on its way, in every *)
(* sink, counted as dropped or refused to its caller.                      *)
InTransit == ToSet(pending) \cup Queued \cup {waiting[k].ev : k \in 1 .. Len(waiting)}

NoSilentLoss ==
  \A n \in 1 .. seq - 1 : \E c \in load :
    LET e == [epoch |-> epoch, seq |-> n, cat |-> c] IN
      \/ e \in InTransit \cup lost \cup refused
      \/ \A s \in Sinks : e \in Whole(s)

(* Batches keep the application events of a process in order in each file  *)
(* and table.                                                              *)
AppOrder ==
  \A s \in Sinks \ Hooks : \A i, j \in 1 .. Len(file[s]) :
    /\ i < j
    /\ file[s][i].cat = "app" /\ file[s][j].cat = "app"
    /\ file[s][i].epoch = file[s][j].epoch
    => file[s][i].seq < file[s][j].seq

(* Write order is chain order, as verifyChain presumes: as long as no      *)
(* event was dropped or refused, and no line of it is torn, verify-log.mjs *)
(* accepts a file; if lines are torn, the chain is that of the lines.      *)
FileVerifies ==
  lost = {} /\ refused = {} => \A s \in Files : ChainValid(file[s])

(* That is kept as long as only application events are logged, whatever    *)
(* lines a crash or a close cuts off.                                      *)
AppFileVerifies == load = {"app"} => FileVerifies

(* Every event that was logged is where its caller believes it to be: in   *)
(* every sink, in files and tables once, if the audit call resolved; on    *)
(* its way, dropped on record or refused otherwise.                        *)
NothingLost == AckedIsDurable /\ NoSilentLoss /\ NoDuplicates

(* The file of application events is sound across batches, crashes and     *)
(* restarts: each process's events in order, every link of the chain.      *)
AppFilesSound == AppOrder /\ AppFileVerifies

(* An audit call is answered: the event does not stay on its way for ever. *)
AuditAnswered ==
  \A n \in 1 .. MaxEvents, m \in 1 .. MaxEpochs :
    LET e == [epoch |-> m, seq |-> n, cat |-> "audit"] IN
      (e \in InTransit) ~> (e \in acked \cup refused \/ epoch # m)

(* The comment of verifyChain: a restart of the service begins a segment,  *)
(* it is no tampering.  While nothing is being written, a file of a logger *)
(* that dropped and refused nothing is accepted.                           *)
RestartIsNotTamper ==
  /\ load = {"app"} /\ lost = {} /\ refused = {}
  /\ \A s \in Sinks : progress[s] = "idle"
  => \A s \in Files : VerifyLog(s)
=============================================================================
