------------------------- MODULE FieldEvents_proofs -------------------------
(***************************************************************************)
(* Proofs about FieldEvents, for every page limit, overlap, backlog and    *)
(* number of events, rounds and faults.                                    *)
(***************************************************************************)
EXTENDS FieldEvents, TLAPS

(* Nothing is dated in the future, and rows have a time stamp.             *)
TimeInv ==
  /\ \A e \in Events : ts[e] <= now
  /\ \A e \in rows : ts[e] # 0
  /\ \A p \in Polls : poll[p].last <= now /\ poll[p].from <= now

(* A round that asks behind a cursor asks for everything that is owed.     *)
Asks(p) == poll[p].at = "pulling" /\ poll[p].from # 0 =>
  /\ poll[p].after = poll[p].from - Overlap
  /\ \A e \in Owed : ts[e] > poll[p].after

(* A round that writes still writes what is owed, or it lies within the    *)
(* overlap of its last event, or before the backlog of a first answer.     *)
Writes(p) == poll[p].at = "writing" => \A e \in Owed :
  \/ e \in poll[p].todo
  \/ ts[e] > poll[p].last - Overlap
  \/ poll[p].from = 0 /\ ts[e] <= poll[p].after

RoundInv == \A p \in Polls : Asks(p) /\ Writes(p)

IInv == TypeOK /\ TimeInv /\ RoundInv /\ NothingSkipped

-----------------------------------------------------------------------------
(* Putting another round in the place of one keeps the type of poll and    *)
(* what TimeInv says of it.                                                *)
LEMMA RoundReplaced ==
  ASSUME TypeOK, TimeInv, NEW p \in Polls, NEW r \in Rounds, r.last <= now, r.from <= now,
         poll' = [poll EXCEPT ![p] = r]
  PROVE  /\ poll' \in [Polls -> Rounds]
         /\ \A q \in Polls : poll'[q].last <= now /\ poll'[q].from <= now
<1>1. poll \in [Polls -> Rounds]
  BY DEF TypeOK
<1>2. \A q \in Polls : poll'[q] = IF q = p THEN r ELSE poll[q]
  BY <1>1
<1> QED BY <1>1, <1>2 DEF TimeInv

LEMMA IdleIsRound == TypeOK => Idle \in Rounds /\ Idle.last <= now /\ Idle.from <= now
  BY ConstantsAssumption DEF TypeOK, Idle, Rounds, Times, Events

(* Every step keeps the types, and the order of the times.                 *)
LEMMA TypeStep ==
  ASSUME TypeOK, TimeInv, [Next]_vars
  PROVE  TypeOK' /\ TimeInv'
<1> USE ConstantsAssumption DEF Events, Times
<1> SUFFICES ASSUME Next PROVE TypeOK' /\ TimeInv'
  BY DEF TypeOK, TimeInv, vars, field, history
<1>1. CASE Tick
  BY <1>1 DEF Tick, TypeOK, TimeInv, field, history, Rounds
<1>2. CASE Flush
  BY <1>2 DEF Flush, TypeOK, TimeInv, history
<1>3. CASE Restart
  BY <1>3 DEF Restart, Fault, TypeOK, TimeInv, field, Idle, Rounds
<1>4. ASSUME NEW e \in Events, Log(e) PROVE TypeOK' /\ TimeInv'
  BY <1>4 DEF Log, TypeOK, TimeInv, history
<1>5. ASSUME NEW p \in Polls, Pull(p) PROVE TypeOK' /\ TimeInv'
  <2> DEFINE r == [at |-> "pulling", from |-> cursor, after |-> After, last |-> 0, todo |-> {}]
  <2>1. After \in Int
    BY DEF After, TypeOK
  <2>2. r \in Rounds /\ r.last <= now /\ r.from <= now
    BY <2>1 DEF TypeOK, Rounds
  <2>3. poll' = [poll EXCEPT ![p] = r]
    BY <1>5 DEF Pull
  <2> HIDE DEF r
  <2>4. poll' \in [Polls -> Rounds] /\ \A q \in Polls : poll'[q].last <= now /\ poll'[q].from <= now
    BY <2>2, <2>3, RoundReplaced
  <2> QED BY <1>5, <2>4 DEF Pull, field, history, TypeOK, TimeInv
<1>6. ASSUME NEW p \in Polls, RoundFails(p) PROVE TypeOK' /\ TimeInv'
  <2>1. poll' = [poll EXCEPT ![p] = Idle]
    BY <1>6 DEF RoundFails
  <2>2. poll' \in [Polls -> Rounds] /\ \A q \in Polls : poll'[q].last <= now /\ poll'[q].from <= now
    BY <2>1, RoundReplaced, IdleIsRound
  <2> QED BY <1>6, <2>2 DEF RoundFails, field, history, TypeOK, TimeInv
<1>7. ASSUME NEW p \in Polls, FeedAnswers(p) PROVE TypeOK' /\ TimeInv'
  <2>1. PICK r \in Rounds : r.last <= now /\ r.from <= now /\ poll' = [poll EXCEPT ![p] = r]
    <3>1. PICK page \in Pages(poll[p].after) :
             \/ poll' = [poll EXCEPT ![p] = Idle]
             \/ \E e \in page : poll' = [poll EXCEPT ![p] =
                    [at |-> "writing", from |-> poll[p].from, after |-> poll[p].after,
                     last |-> ts[e], todo |-> page \cap Wanted]]
      BY <1>7 DEF FeedAnswers
    <3>2. page \subseteq Events
      BY DEF Pages, TypeOK
    <3>3. ASSUME NEW e \in page
          PROVE  LET r == [at |-> "writing", from |-> poll[p].from, after |-> poll[p].after,
                           last |-> ts[e], todo |-> page \cap Wanted]
                 IN  r \in Rounds /\ r.last <= now /\ r.from <= now
      BY <3>2 DEF TypeOK, TimeInv, Rounds
    <3> QED BY <3>1, <3>3, IdleIsRound
  <2>2. poll' \in [Polls -> Rounds] /\ \A q \in Polls : poll'[q].last <= now /\ poll'[q].from <= now
    BY <2>1, RoundReplaced
  <2> QED BY <1>7, <2>2 DEF FeedAnswers, field, history, TypeOK, TimeInv
<1>8. ASSUME NEW p \in Polls, NEW e \in Events, Insert(p, e) PROVE TypeOK' /\ TimeInv'
  BY <1>8 DEF Insert, TypeOK, TimeInv, field, history, Rounds
<1>9. ASSUME NEW p \in Polls, NEW e \in Events, InsertFails(p, e) PROVE TypeOK' /\ TimeInv'
  <2>1. poll' \in [Polls -> Rounds] /\ \A q \in Polls : poll'[q].last <= now /\ poll'[q].from <= now
    BY <1>9 DEF InsertFails, TypeOK, TimeInv, Rounds
  <2>2. faults' \in 0 .. MaxFaults
    BY <1>9 DEF InsertFails, Fault, TypeOK
  <2> QED BY <1>9, <2>1, <2>2 DEF InsertFails, field, TypeOK, TimeInv
<1>10. ASSUME NEW p \in Polls, Settle(p) PROVE TypeOK' /\ TimeInv'
  <2>1. poll' = [poll EXCEPT ![p] = Idle]
    BY <1>10 DEF Settle
  <2>2. poll' \in [Polls -> Rounds] /\ \A q \in Polls : poll'[q].last <= now /\ poll'[q].from <= now
    BY <2>1, RoundReplaced, IdleIsRound
  <2>3. cursor' \in 0 .. now
    BY <1>10 DEF Settle, TypeOK, TimeInv, Rounds
  <2>4. aged' \subseteq Events
    BY <1>10 DEF Settle, Before, TypeOK
  <2> QED BY <1>10, <2>2, <2>3, <2>4 DEF Settle, field, TypeOK, TimeInv
<1> QED BY <1>1, <1>2, <1>3, <1>4, <1>5, <1>6, <1>7, <1>8, <1>9, <1>10 DEF Next, Round

-----------------------------------------------------------------------------
(* What is owed has a row, and so a time stamp.                            *)
LEMMA OwedHasStamp ==
  ASSUME TypeOK, TimeInv, NEW e \in Owed
  PROVE  e \in rows /\ e \in Events /\ ts[e] \in Nat /\ ts[e] # 0
  BY ConstantsAssumption DEF TypeOK, TimeInv, Owed, Times, Events

(* A step that owes no more than before, and replaces one round, leaves    *)
(* what RoundInv says of the others.                                       *)
LEMMA OtherRounds ==
  ASSUME TypeOK, RoundInv, NEW p \in Polls, NEW r, poll' = [poll EXCEPT ![p] = r],
         ts' = ts, Owed' \subseteq Owed
  PROVE  \A q \in Polls \ {p} : Asks(q)' /\ Writes(q)'
<1> SUFFICES ASSUME NEW q \in Polls, q # p PROVE Asks(q)' /\ Writes(q)'
  OBVIOUS
<1>1. poll'[q] = poll[q]
  BY DEF TypeOK
<1>2. Asks(q) /\ Writes(q)
  BY DEF RoundInv
<1>3. Asks(q)'
  BY <1>1, <1>2 DEF Asks
<1>4. Writes(q)'
  BY <1>1, <1>2 DEF Writes
<1> QED BY <1>3, <1>4

(* A step that owes no more than before, and leaves rounds, cursor and the *)
(* time stamps of what is owed alone, keeps both invariants.               *)
LEMMA Quiet ==
  ASSUME RoundInv, NothingSkipped, poll' = poll, cursor' = cursor,
         Owed' \subseteq Owed, \A e \in Owed' : ts'[e] = ts[e]
  PROVE  RoundInv' /\ NothingSkipped'
<1>1. NothingSkipped'
  BY DEF NothingSkipped
<1>2. ASSUME NEW p \in Polls PROVE Asks(p)' /\ Writes(p)'
  <2>1. Asks(p) /\ Writes(p)
    BY DEF RoundInv
  <2>2. Asks(p)'
    BY <2>1 DEF Asks
  <2>3. Writes(p)'
    BY <2>1 DEF Writes
  <2> QED BY <2>2, <2>3
<1> QED BY <1>1, <1>2 DEF RoundInv

(* A row that appears in time is younger than anything the collector has   *)
(* seen, less the overlap.                                                 *)
LEMMA FlushKeeps == IInv /\ Flush => RoundInv' /\ NothingSkipped'
<1> SUFFICES ASSUME IInv, Flush PROVE RoundInv' /\ NothingSkipped'
  OBVIOUS
<1> USE ConstantsAssumption
<1>1. UNCHANGED <<now, ts, collected, cursor, poll, failed, aged>>
  BY DEF Flush, history
<1>2. now \in Int /\ cursor \in Int /\ cursor <= now /\ Overlap \in Int
  BY DEF IInv, TypeOK, Times
<1>3. ASSUME NEW e \in Owed', e \notin Owed PROVE ts[e] \in Int /\ ts[e] > now - Overlap
  <2>1. PICK batch \in SUBSET {f \in Events \ rows : ts[f] # 0} :
          rows' = rows \cup batch /\ late' = late \cup {f \in batch : now - ts[f] >= Overlap}
    BY DEF Flush
  <2>2. e \in batch /\ e \notin late'
    BY <1>1, <1>3, <2>1 DEF Owed
  <2>3. e \in Events /\ ts[e] \in Int
    BY <2>1, <2>2 DEF IInv, TypeOK, Times
  <2>4. ~(now - ts[e] >= Overlap)
    BY <2>1, <2>2
  <2> QED BY <1>2, <2>3, <2>4
<1>4. NothingSkipped'
  BY <1>1, <1>2, <1>3 DEF NothingSkipped, IInv
<1>5. ASSUME NEW p \in Polls PROVE Asks(p)' /\ Writes(p)'
  <2>1. Asks(p) /\ Writes(p)
    BY DEF IInv, RoundInv
  <2>2. /\ poll[p].from \in Int /\ poll[p].from <= now
        /\ poll[p].last \in Int /\ poll[p].last <= now
    BY DEF IInv, TypeOK, TimeInv, Rounds, Times
  <2>3. Asks(p)'
    BY <1>1, <1>2, <1>3, <2>1, <2>2 DEF Asks
  <2>4. Writes(p)'
    BY <1>1, <1>2, <1>3, <2>1, <2>2 DEF Writes
  <2> QED BY <2>3, <2>4
<1> QED BY <1>4, <1>5 DEF RoundInv

(* What the answer leaves out is no older than its last event, or was not  *)
(* asked for.                                                              *)
LEMMA FeedAnswersKeeps ==
  ASSUME IInv, NEW p \in Polls, FeedAnswers(p)
  PROVE  RoundInv' /\ NothingSkipped'
<1> USE ConstantsAssumption
<1>1. UNCHANGED <<now, ts, rows, late, collected, cursor, failed, aged>> /\ Owed' = Owed
  BY DEF FeedAnswers, field, history, Owed
<1>2. NothingSkipped'
  BY <1>1 DEF NothingSkipped, IInv
<1>3. poll \in [Polls -> Rounds] /\ poll[p] \in Rounds /\ Overlap \in Int /\ Overlap > 0
  BY DEF IInv, TypeOK
<1>4. PICK page \in Pages(poll[p].after) :
         \/ poll' = [poll EXCEPT ![p] = Idle]
         \/ \E e \in page : poll' = [poll EXCEPT ![p] =
                [at |-> "writing", from |-> poll[p].from, after |-> poll[p].after,
                 last |-> ts[e], todo |-> page \cap Wanted]]
  BY DEF FeedAnswers
<1>5. CASE poll' = [poll EXCEPT ![p] = Idle]
  <2>1. Asks(p)' /\ Writes(p)'
    BY <1>3, <1>5 DEF Asks, Writes, Idle
  <2>2. \A q \in Polls \ {p} : Asks(q)' /\ Writes(q)'
    BY <1>1, <1>5, OtherRounds DEF IInv
  <2> QED BY <1>2, <2>1, <2>2 DEF RoundInv
<1>6. ASSUME NEW e \in page,
             poll' = [poll EXCEPT ![p] =
               [at |-> "writing", from |-> poll[p].from, after |-> poll[p].after,
                last |-> ts[e], todo |-> page \cap Wanted]]
      PROVE  RoundInv' /\ NothingSkipped'
  <2> DEFINE r == [at |-> "writing", from |-> poll[p].from, after |-> poll[p].after,
                   last |-> ts[e], todo |-> page \cap Wanted]
  <2>1. poll'[p] = r
    BY <1>3, <1>6
  <2>2. ASSUME NEW f \in Owed
        PROVE  \/ f \in r.todo
               \/ ts[f] > r.last - Overlap
               \/ r.from = 0 /\ ts[f] <= r.after
    <3>1. f \in rows /\ f \in Wanted /\ ts[f] \in Int
      BY OwedHasStamp DEF IInv, Owed
    <3>2. page \subseteq rows /\ e \in rows /\ ts[e] \in Int
      BY <1>6 DEF Pages, IInv, TypeOK, Times
    <3>3. CASE f \in page
      BY <3>1, <3>3
    <3>4. CASE f \notin page /\ ts[f] > poll[p].after
      <4>1. ts[e] <= ts[f]
        BY <3>1, <3>4, <1>6 DEF Pages
      <4> QED BY <4>1, <3>1, <3>2, <1>3
    <3>5. CASE f \notin page /\ ~(ts[f] > poll[p].after)
      <4>1. poll[p].at = "pulling" /\ poll[p].after \in Int
        BY <1>3 DEF FeedAnswers, Rounds
      <4>2. Asks(p)
        BY DEF IInv, RoundInv
      <4>3. poll[p].from = 0
        BY <3>5, <4>1, <4>2 DEF Asks
      <4> QED BY <4>1, <4>3, <3>1, <3>5
    <3> QED BY <3>3, <3>4, <3>5
  <2>3. Asks(p)' /\ Writes(p)'
    <3> HIDE DEF r
    <3>1. r.at = "writing"
      BY DEF r
    <3>2. Asks(p)'
      BY <2>1, <3>1 DEF Asks
    <3>3. Writes(p)'
      BY <1>1, <2>1, <2>2 DEF Writes
    <3> QED BY <3>2, <3>3
  <2>4. \A q \in Polls \ {p} : Asks(q)' /\ Writes(q)'
    BY <1>1, <1>6, OtherRounds DEF IInv
  <2> QED BY <1>2, <2>3, <2>4 DEF RoundInv
<1> QED BY <1>4, <1>5, <1>6

(* An INSERT that ends takes its event out of the round and out of what is *)
(* owed, whether it fails or not.                                          *)
LEMMA InsertKeeps ==
  ASSUME IInv, NEW p \in Polls, NEW e \in Events, Insert(p, e) \/ InsertFails(p, e)
  PROVE  RoundInv' /\ NothingSkipped'
<1>1. /\ UNCHANGED <<now, ts, rows, late, cursor, aged>>
      /\ Owed' \subseteq Owed \ {e}
  BY DEF Insert, InsertFails, field, history, Owed
<1>2. NothingSkipped'
  BY <1>1 DEF NothingSkipped, IInv
<1>3. ASSUME NEW q \in Polls PROVE Asks(q)' /\ Writes(q)'
  <2>1. /\ poll'[q].at = poll[q].at /\ poll'[q].from = poll[q].from
        /\ poll'[q].after = poll[q].after /\ poll'[q].last = poll[q].last
        /\ poll[q].todo \ {e} \subseteq poll'[q].todo
    BY DEF Insert, InsertFails, IInv, TypeOK, Rounds
  <2>2. Asks(q) /\ Writes(q)
    BY DEF IInv, RoundInv
  <2>3. Asks(q)'
    BY <1>1, <2>1, <2>2 DEF Asks
  <2>4. Writes(q)'
    BY <1>1, <2>1, <2>2 DEF Writes
  <2> QED BY <2>3, <2>4
<1> QED BY <1>2, <1>3 DEF RoundInv

(* The cursor moves to the last event of a round whose INSERTs have ended. *)
LEMMA SettleKeeps ==
  ASSUME IInv, NEW p \in Polls, Settle(p)
  PROVE  RoundInv' /\ NothingSkipped'
<1>1. /\ poll[p].at = "writing" /\ poll[p].todo = {}
      /\ poll' = [poll EXCEPT ![p] = Idle]
      /\ UNCHANGED <<now, ts, rows, late, collected, failed, faults>>
      /\ aged \subseteq aged'
      /\ poll[p].from = 0 => Before(poll[p].after) \subseteq aged'
      /\ cursor' = poll[p].last \/ cursor' = cursor
  BY DEF Settle, field
<1>2. Owed' \subseteq Owed
  BY <1>1 DEF Owed
<1>3. RoundInv'
  <2>1. Asks(p)' /\ Writes(p)'
    BY <1>1 DEF Asks, Writes, Idle, IInv, TypeOK
  <2>2. \A q \in Polls \ {p} : Asks(q)' /\ Writes(q)'
    BY <1>1, <1>2, OtherRounds DEF IInv
  <2> QED BY <2>1, <2>2 DEF RoundInv
<1>4. ASSUME cursor' = poll[p].last, NEW e \in Owed' PROVE ts[e] > poll[p].last - Overlap
  <2>1. e \in Owed /\ e \in Events /\ ts[e] # 0
    BY <1>2, <1>4, OwedHasStamp DEF IInv
  <2>2. Writes(p)
    BY DEF IInv, RoundInv
  <2>3. ~(poll[p].from = 0 /\ ts[e] <= poll[p].after)
    <3>1. e \notin aged'
      BY <1>4 DEF Owed
    <3> QED BY <1>1, <2>1, <3>1 DEF Before
  <2> QED BY <1>1, <2>1, <2>2, <2>3 DEF Writes
<1>5. NothingSkipped'
  BY <1>1, <1>2, <1>4 DEF NothingSkipped, IInv
<1> QED BY <1>3, <1>5

(* A new round asks from the cursor.                                       *)
LEMMA PullKeeps ==
  ASSUME IInv, NEW p \in Polls, Pull(p)
  PROVE  RoundInv' /\ NothingSkipped'
<1> DEFINE r == [at |-> "pulling", from |-> cursor, after |-> After, last |-> 0, todo |-> {}]
<1>1. /\ poll' = [poll EXCEPT ![p] = r]
      /\ UNCHANGED <<now, ts, rows, late, collected, cursor, failed, aged>> /\ Owed' = Owed
  BY DEF Pull, field, history, Owed
<1>2. NothingSkipped'
  BY <1>1 DEF NothingSkipped, IInv
<1>3. poll'[p] = r
  BY <1>1 DEF IInv, TypeOK
<1>4. Asks(p)' /\ Writes(p)'
  BY <1>1, <1>3 DEF Asks, Writes, After, IInv, NothingSkipped
<1>5. \A q \in Polls \ {p} : Asks(q)' /\ Writes(q)'
  <2> HIDE DEF r
  <2> QED BY <1>1, OtherRounds DEF IInv
<1> QED BY <1>2, <1>4, <1>5 DEF RoundInv

-----------------------------------------------------------------------------
(* Every step of the collector and the field keeps the invariant.          *)
THEOREM Preserved == IInv /\ [Next]_vars => IInv'
<1> SUFFICES ASSUME IInv, [Next]_vars PROVE IInv'
  OBVIOUS
<1>1. TypeOK' /\ TimeInv'
  BY TypeStep DEF IInv
<1>2. RoundInv' /\ NothingSkipped'
  <2>1. CASE UNCHANGED vars
    BY <2>1, Quiet DEF IInv, vars, field, history, Owed
  <2>2. CASE Tick
    BY <2>2, Quiet DEF IInv, Tick, field, history, Owed
  <2>3. CASE Flush
    BY <2>3, FlushKeeps
  <2>4. CASE Restart
    <3>1. cursor' = 0 /\ \A p \in Polls : poll'[p] = Idle
      BY <2>4 DEF Restart
    <3> QED BY <3>1 DEF RoundInv, Asks, Writes, NothingSkipped, Idle
  <2>5. ASSUME NEW e \in Events, Log(e) PROVE RoundInv' /\ NothingSkipped'
    <3>1. UNCHANGED <<rows, late, collected, cursor, poll, failed, aged>> /\ Owed' = Owed
      BY <2>5 DEF Log, history, Owed
    <3>2. \A f \in Owed' : ts'[f] = ts[f]
      BY <2>5, <3>1, OwedHasStamp DEF Log, IInv, TypeOK
    <3> QED BY <3>1, <3>2, Quiet DEF IInv
  <2>6. ASSUME NEW p \in Polls, RoundFails(p) PROVE RoundInv' /\ NothingSkipped'
    <3>1. /\ poll' = [poll EXCEPT ![p] = Idle] /\ UNCHANGED <<ts, cursor>> /\ Owed' = Owed
      BY <2>6 DEF RoundFails, field, history, Owed
    <3>2. Asks(p)' /\ Writes(p)'
      BY <3>1 DEF Asks, Writes, Idle, IInv, TypeOK
    <3>3. \A q \in Polls \ {p} : Asks(q)' /\ Writes(q)'
      BY <3>1, OtherRounds DEF IInv
    <3>4. NothingSkipped'
      BY <3>1 DEF IInv, NothingSkipped
    <3> QED BY <3>2, <3>3, <3>4 DEF RoundInv
  <2> QED BY <1>1, <2>1, <2>2, <2>3, <2>4, <2>5, <2>6, PullKeeps, FeedAnswersKeeps,
             InsertKeeps, SettleKeeps DEF Next, Round
<1> QED BY <1>1, <1>2 DEF IInv

(* IInv holds in every reachable state.                                    *)
THEOREM Invariance == Spec => []IInv
<1>1. Init => IInv
  BY ConstantsAssumption DEF Init, IInv, TypeOK, TimeInv, RoundInv, Asks, Writes,
     NothingSkipped, Idle, Rounds, Events, Times
<1> QED BY <1>1, Preserved, PTL DEF Spec

(* Cursor, rounds and rows keep their types, and the cursor never lies in  *)
(* the future: it follows the time stamps of rows (field-event-collector). *)
THEOREM TypeCorrect == Spec => []TypeOK
<1>1. IInv => TypeOK
  BY DEF IInv
<1> QED BY <1>1, Invariance, PTL

(* However many rounds overlap, fail or overtake each other, whatever page *)
(* limit, overlap and backlog are set: the cursor never passes an event    *)
(* whose row came in time and whose INSERT has not failed.                 *)
THEOREM NothingSkippedHolds == Spec => []NothingSkipped
<1>1. IInv => NothingSkipped
  BY DEF IInv
<1> QED BY <1>1, Invariance, PTL
=============================================================================
