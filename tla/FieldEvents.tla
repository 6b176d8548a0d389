---------------------------- MODULE FieldEvents ----------------------------
(***************************************************************************)
(* Events of a field on their way to the boss (services/web-service):      *)
(* LogEventFeed and ListFieldEventsUseCase, which serve the rows of        *)
(* log_events behind a time stamp, and FieldEventCollector, which asks for *)
(* them in rounds and keeps a cursor in memory.                            *)
(*                                                                         *)
(* One field: the cursors and requests of several do not meet.  Time is in *)
(* ticks, 0 stands for none.  An event gets its time stamp when it is      *)
(* logged and its row later, with the logger's batch; its id is unique.    *)
(***************************************************************************)
EXTENDS Integers, FiniteSets

CONSTANTS
  MaxEvents,  \* bound: events that are logged
  Wanted,     \* those with one of COLLECTED_EVENT_CODES; the others have
              \* only one of UPLINK_EVENT_WHITELIST
  Polls,      \* bound: rounds under way at once
  Limit,      \* batchSize
  Overlap,    \* OVERLAP_MS
  Backlog,    \* BACKLOG_WINDOW_MS
  MaxTime,    \* bound: the clock stops there
  MaxFaults   \* bound: failed INSERTs, new processes

ASSUME ConstantsAssumption ==
  /\ MaxEvents \in Nat /\ Wanted \subseteq 1 .. MaxEvents /\ Limit \in Nat \ {0} /\ Overlap \in Nat \ {0}
  /\ Backlog \in Nat /\ MaxTime \in Nat \ {0} /\ MaxFaults \in Nat

Events == 1 .. MaxEvents
Times  == 0 .. MaxTime

VARIABLES
  now,
  ts,         \* time stamp of an event
  rows,       \* log_events of the field
  collected,  \* field_events of the boss
  cursor,     \* cursors.get(fieldId)
  poll,       \* the rounds
  \* for the properties only:
  late,       \* events whose row came Overlap or more after their time stamp
  failed,     \* events whose INSERT has failed in this process
  aged,       \* events that were older than the backlog at the first answer
  faults

field   == <<ts, rows, late>>
history == <<failed, aged>>
vars    == <<now, field, collected, cursor, poll, history, faults>>

(* from: the cursor as it was read; after: the time stamp that is asked    *)
(* for; last: the one of the last event of the answer; todo: the INSERTs   *)
(* that have not ended.                                                    *)
Idle == [at |-> "idle", from |-> 0, after |-> 0, last |-> 0, todo |-> {}]

Rounds == [at : {"idle", "pulling", "writing"}, from : Times,
           after : Int, last : Times, todo : SUBSET Events]

TypeOK ==
  /\ now \in Times \ {0} /\ ts \in [Events -> Times]
  /\ rows \subseteq Events /\ collected \subseteq Events
  /\ cursor \in 0 .. now /\ poll \in [Polls -> Rounds]
  /\ late \subseteq Events /\ failed \subseteq Events /\ aged \subseteq Events
  /\ faults \in 0 .. MaxFaults

Init ==
  /\ now = 1 /\ ts = [e \in Events |-> 0]
  /\ rows = {} /\ collected = {}
  /\ cursor = 0 /\ poll = [p \in Polls |-> Idle]
  /\ late = {} /\ failed = {} /\ aged = {} /\ faults = 0

-----------------------------------------------------------------------------
Fault == faults < MaxFaults /\ faults' = faults + 1

Tick ==
  /\ now < MaxTime /\ now' = now + 1
  /\ UNCHANGED <<field, collected, cursor, poll, history, faults>>

(* A service of the field logs an event of the whitelist.                  *)
Log(e) ==
  /\ ts[e] = 0 /\ \A f \in 1 .. e - 1 : ts[f] # 0
  /\ ts' = [ts EXCEPT ![e] = now]
  /\ UNCHANGED <<now, rows, late, collected, cursor, poll, history, faults>>

(* TimescaleSink writes the batch of a logger.                             *)
Flush ==
  /\ \E batch \in SUBSET {e \in Events \ rows : ts[e] # 0} :
       /\ batch # {}
       /\ rows' = rows \cup batch
       /\ late' = late \cup {e \in batch : now - ts[e] >= Overlap}
  /\ UNCHANGED <<now, ts, collected, cursor, poll, history, faults>>

-----------------------------------------------------------------------------
(* Mutant: nothing is asked for twice.                                     *)
AfterCursor == IF cursor = 0 THEN now - Backlog ELSE cursor

After == IF cursor = 0 THEN now - Backlog ELSE cursor - Overlap

(* The interval fires, whatever rounds are under way, and the hub lists    *)
(* the field as connected: pullField begins.                               *)
Pull(p) ==
  /\ poll[p].at = "idle"
  /\ poll' = [poll EXCEPT ![p] =
       [at |-> "pulling", from |-> cursor, after |-> After, last |-> 0, todo |-> {}]]
  /\ UNCHANGED <<now, field, collected, cursor, history, faults>>

(* The field does not answer, or refuses: the round is over and the cursor *)
(* stays.  (A round that the hub does not answer changes nothing.)         *)
RoundFails(p) ==
  /\ poll[p].at = "pulling"
  /\ poll' = [poll EXCEPT ![p] = Idle]
  /\ UNCHANGED <<now, field, collected, cursor, history, faults>>

(* What ORDER BY ts LIMIT may return of the rows behind the time stamp.    *)
Pages(after) ==
  LET reach == {e \in rows : ts[e] > after}
  IN  {page \in SUBSET reach :
         /\ Cardinality(page) <= Limit
         /\ page # reach => Cardinality(page) = Limit
         /\ \A e \in page, f \in reach \ page : ts[e] <= ts[f]}

(* The query runs at the field; the answer gets through, and the INSERTs   *)
(* of the events that the collector knows are sent.                        *)
FeedAnswers(p) ==
  /\ poll[p].at = "pulling"
  /\ \E page \in Pages(poll[p].after) :
       \/ /\ page = {}
          /\ poll' = [poll EXCEPT ![p] = Idle]
       \/ \E e \in page :
            /\ \A f \in page : ts[f] <= ts[e]
            /\ poll' = [poll EXCEPT ![p] =
                 [at |-> "writing", from |-> @.from, after |-> @.after,
                  last |-> ts[e], todo |-> page \cap Wanted]]
  /\ UNCHANGED <<now, field, collected, cursor, history, faults>>

(* INSERT ... ON CONFLICT DO NOTHING.                                      *)
Insert(p, e) ==
  /\ e \in poll[p].todo
  /\ collected' = collected \cup {e}
  /\ poll' = [poll EXCEPT ![p].todo = @ \ {e}]
  /\ UNCHANGED <<now, field, cursor, history, faults>>

(* collect() swallows the error.                                           *)
InsertFails(p, e) ==
  /\ e \in poll[p].todo /\ Fault
  /\ failed' = failed \cup {e}
  /\ poll' = [poll EXCEPT ![p].todo = @ \ {e}]
  /\ UNCHANGED <<now, field, collected, cursor, aged>>

Before(time) == {e \in Events : ts[e] # 0 /\ ts[e] <= time}

(* Mutant: the first answer does not set the cursor.                       *)
LaterThanCursor(p) == poll[p].from # 0 /\ poll[p].last > poll[p].from

(* lastMs against the cursor as it was when the round began.               *)
Moves(p) == poll[p].from = 0 \/ poll[p].last > poll[p].from

(* Mutant: the next round begins behind the last event.                    *)
SettleBehind(p) ==
  /\ poll[p].at = "writing" /\ poll[p].todo = {}
  /\ cursor' = IF Moves(p) THEN poll[p].last + 1 ELSE cursor
  /\ aged' = IF poll[p].from = 0 THEN aged \cup Before(poll[p].after) ELSE aged
  /\ poll' = [poll EXCEPT ![p] = Idle]
  /\ UNCHANGED <<now, field, collected, failed, faults>>

(* allSettled: the cursor moves behind all INSERTs, also where another     *)
(* round has moved it meanwhile.                                           *)
Settle(p) ==
  /\ poll[p].at = "writing" /\ poll[p].todo = {}
  /\ cursor' = IF Moves(p) THEN poll[p].last ELSE cursor
  /\ aged' = IF poll[p].from = 0 THEN aged \cup Before(poll[p].after) ELSE aged
  /\ poll' = [poll EXCEPT ![p] = Idle]
  /\ UNCHANGED <<now, field, collected, failed, faults>>

-----------------------------------------------------------------------------
(* A new process, after a crash or after stop(), behind which no round     *)
(* begins and those under way go on.  It has no cursor.                    *)
Restart ==
  /\ Fault
  /\ cursor' = 0 /\ poll' = [p \in Polls |-> Idle]
  /\ failed' = {} /\ aged' = {}
  /\ UNCHANGED <<now, field, collected>>

-----------------------------------------------------------------------------
Round(p) ==
  \/ RoundFails(p) \/ FeedAnswers(p) \/ Settle(p)
  \/ \E e \in Events : Insert(p, e) \/ InsertFails(p, e)

Next ==
  \/ Tick \/ Flush \/ Restart
  \/ \E e \in Events : Log(e)
  \/ \E p \in Polls : Pull(p) \/ Round(p)

Spec == Init /\ [][Next]_vars

(* The interval fires, requests and statements end one way or the other,   *)
(* and a field that is asked again and again answers again and again.      *)
FairSpec ==
  /\ Spec
  /\ WF_vars(\E p \in Polls : Pull(p)) /\ \A p \in Polls : WF_vars(Round(p))
  /\ SF_vars(\E p \in Polls : FeedAnswers(p))

-----------------------------------------------------------------------------
(* Events that the collector owes the boss: their row came in time, and    *)
(* neither a failed INSERT nor the backlog window excuses it.              *)
Owed == (rows \cap Wanted) \ (collected \cup late \cup failed \cup aged)

(* The cursor never leaves behind an event that is owed: the next round    *)
(* still asks for it.  The overlap makes up for rows that appear behind    *)
(* younger ones, and for rounds that overtake each other and set the       *)
(* cursor back, or that share a time stamp with the end of a page.         *)
NothingSkipped == cursor # 0 => \A e \in Owed : ts[e] > cursor - Overlap

(* A page is full before it reaches beyond the cursor.                     *)
Crowded ==
  cursor # 0 /\ Cardinality({e \in rows : ts[e] > cursor - Overlap /\ ts[e] <= cursor}) >= Limit

(* What is owed arrives, after any number of failed rounds and through new *)
(* processes, unless so many events fall into one overlap that every page  *)
(* ends before the next event, or no answer has set a cursor for as long   *)
(* as the backlog window.                                                  *)
EventsArrive ==
  <>[](Crowded \/ \A e \in Owed : cursor = 0 /\ ts[e] <= now - Backlog)

(* The same without the first exception, as the description of the         *)
(* collector has it ("full page: the next round goes on from the cursor,   *)
(* no loss"): false, because the next round begins an overlap before it.   *)
FullPageLosesNothing ==
  <>[](\A e \in Owed : cursor = 0 /\ ts[e] <= now - Backlog)
=============================================================================
