------------------------- MODULE DeviceReads_proofs -------------------------
(***************************************************************************)
(* Proofs about DeviceReads, for any number of overlapping reads, values   *)
(* and faults.                                                             *)
(***************************************************************************)
EXTENDS DeviceReads, TLAPS

Status == {"offline", "online"}
Alarm  == {"set", "clear"}

(* Unless something has gone wrong there is at most one status statement   *)
(* on its way, only while the service is up, and it writes what the flag   *)
(* says; without one, the row says it already.                             *)
RowInv ==
  rowSafe =>
    /\ \A r, q \in Slots : read[r].at \in Status /\ read[q].at \in Status => r = q
    /\ \A r \in Slots : read[r].at \in Status =>
         proc = "up" /\ (read[r].at = "offline" <=> flag)
    /\ proc # "stopping" /\ (\A r \in Slots : read[r].at \notin Status)
         => row = IF flag \/ proc = "closing" THEN "offline" ELSE "online"

(* The same of the alarm table and the detector.                           *)
AlarmInv ==
  alarmSafe =>
    /\ \A r, q \in Slots : read[r].at \in Alarm /\ read[q].at \in Alarm => r = q
    /\ \A r \in Slots : read[r].at \in Alarm => (read[r].at = "set" <=> detector)
    /\ (\A r \in Slots : read[r].at \notin Alarm) => alarmRow = detector

IInv == TypeOK /\ RowInv /\ AlarmInv

-----------------------------------------------------------------------------
(* A step of one handler that has nothing to do with the row.              *)
LEMMA RowAlone ==
  ASSUME TypeOK, RowInv, NEW r \in Slots, NEW x,
         read' = [read EXCEPT ![r] = x],
         read[r].at \notin Status, x.at \notin Status,
         UNCHANGED <<proc, flag, row, rowSafe>>
  PROVE  RowInv'
<1>1. \A q \in Slots : read'[q] = IF q = r THEN x ELSE read[q]
  BY DEF TypeOK
<1>2. \A q \in Slots : /\ read'[q].at \in Status <=> read[q].at \in Status
                      /\ read[q].at \in Status => read'[q] = read[q]
  BY <1>1
<1> HIDE DEF Status
<1> QED BY <1>2 DEF RowInv

(* The flag has flipped and its statement is sent.                         *)
LEMMA RowSent ==
  ASSUME TypeOK, RowInv, NEW r \in Slots, NEW x,
         read' = [read EXCEPT ![r] = x],
         read[r].at \notin Status, x.at \in Status, x.at = "offline" <=> flag',
         rowSafe' = (rowSafe /\ StatusSafe), UNCHANGED proc
  PROVE  RowInv'
<1>1. \A q \in Slots : read'[q] = IF q = r THEN x ELSE read[q]
  BY DEF TypeOK
<1> SUFFICES ASSUME rowSafe' PROVE RowInv'
  BY DEF RowInv
<1>2. proc = "up" /\ \A q \in Slots : read[q].at \notin Status
  BY DEF StatusSafe, At, Status
<1> QED BY <1>1, <1>2 DEF RowInv

(* The statement ends.                                                     *)
LEMMA RowEnds ==
  ASSUME TypeOK, RowInv, NEW r \in Slots, NEW x,
         read' = [read EXCEPT ![r] = x],
         read[r].at \in Status, x.at \notin Status, UNCHANGED <<proc, flag>>,
         \/ row' = read[r].at /\ rowSafe' = rowSafe
         \/ ~rowSafe'
  PROVE  RowInv'
<1>1. \A q \in Slots : read'[q] = IF q = r THEN x ELSE read[q]
  BY DEF TypeOK
<1> SUFFICES ASSUME rowSafe' PROVE RowInv'
  BY DEF RowInv
<1>2. row' = read[r].at /\ rowSafe
  OBVIOUS
<1>3. /\ \A q \in Slots : read[q].at \in Status => q = r
      /\ proc = "up" /\ (read[r].at = "offline" <=> flag)
  BY <1>2 DEF RowInv
<1>4. \A q \in Slots : read'[q].at \notin Status
  BY <1>1, <1>3
<1>5. row' = IF flag \/ proc = "closing" THEN "offline" ELSE "online"
  BY <1>2, <1>3 DEF Status
<1> QED BY <1>4, <1>5 DEF RowInv

-----------------------------------------------------------------------------
(* A step of one handler that has nothing to do with the alarm row.        *)
LEMMA AlarmAlone ==
  ASSUME TypeOK, AlarmInv, NEW r \in Slots, NEW x,
         read' = [read EXCEPT ![r] = x],
         read[r].at \notin Alarm, x.at \notin Alarm,
         UNCHANGED <<detector, alarmRow, alarmSafe>>
  PROVE  AlarmInv'
<1>1. \A q \in Slots : read'[q] = IF q = r THEN x ELSE read[q]
  BY DEF TypeOK
<1>2. \A q \in Slots : /\ read'[q].at \in Alarm <=> read[q].at \in Alarm
                      /\ read[q].at \in Alarm => read'[q] = read[q]
  BY <1>1
<1> HIDE DEF Alarm
<1> QED BY <1>2 DEF AlarmInv

(* An evaluation ends the handler, or sends the statement of the edge.     *)
LEMMA EvaluateShape ==
  ASSUME TypeOK, NEW r \in Slots, EvaluateAlarms(r)
  PROVE  \E x \in Reads :
           /\ x.at \in {"idle", "set", "clear"} /\ read' = [read EXCEPT ![r] = x]
           /\ x.at \in Alarm => x.at = IF detector' THEN "set" ELSE "clear"
           /\ x.at \notin Alarm => detector' = detector /\ alarmSafe' = alarmSafe
           /\ x.at \in Alarm => alarmSafe' = (alarmSafe /\ At(Alarm) = {})
<1> DEFINE y == [at |-> IF ActiveIn(r) THEN "set" ELSE "clear", val |-> 0, now |-> FALSE]
<1>1. Idle \in Reads /\ y \in Reads /\ ActiveIn(r) \in BOOLEAN
  BY ConstantsAssumption DEF Idle, Reads, ActiveIn, Active
<1>2. CASE ActiveIn(r) = detector
  <2>1. read' = [read EXCEPT ![r] = Idle] /\ detector' = detector
    BY <1>2 DEF EvaluateAlarms, Done
  <2>2. alarmSafe' = alarmSafe
    BY <1>2 DEF EvaluateAlarms, TypeOK
  <2> QED BY <1>1, <2>1, <2>2 DEF Idle, Alarm
<1>3. CASE ActiveIn(r) # detector
  <2>1. read' = [read EXCEPT ![r] = y] /\ detector' = ActiveIn(r)
    BY <1>3 DEF EvaluateAlarms, Idle
  <2>2. alarmSafe' = (alarmSafe /\ At(Alarm) = {})
    BY <1>3 DEF EvaluateAlarms, TypeOK, Alarm
  <2>3. y.at = (IF detector' THEN "set" ELSE "clear") /\ y.at \in Alarm
    BY <2>1 DEF Alarm
  <2> HIDE DEF y
  <2>4. y.at \in {"idle", "set", "clear"}
    BY <2>3 DEF Alarm
  <2> QED BY <1>1, <2>1, <2>2, <2>3, <2>4
<1> QED BY <1>2, <1>3

LEMMA EvaluateKeeps ==
  ASSUME TypeOK, AlarmInv, NEW r \in Slots, EvaluateAlarms(r),
         read[r].at \notin Alarm, alarmRow' = alarmRow
  PROVE  AlarmInv'
<1>1. PICK x \in Reads :
           /\ x.at \in {"idle", "set", "clear"} /\ read' = [read EXCEPT ![r] = x]
           /\ x.at \in Alarm => x.at = IF detector' THEN "set" ELSE "clear"
           /\ x.at \notin Alarm => detector' = detector /\ alarmSafe' = alarmSafe
           /\ x.at \in Alarm => alarmSafe' = (alarmSafe /\ At(Alarm) = {})
  BY EvaluateShape
<1>2. CASE x.at \notin Alarm
  BY <1>1, <1>2, AlarmAlone
<1>3. CASE x.at \in Alarm
  <2> SUFFICES ASSUME alarmSafe' PROVE AlarmInv'
    BY DEF AlarmInv
  <2>1. \A q \in Slots : read'[q] = IF q = r THEN x ELSE read[q]
    BY <1>1 DEF TypeOK
  <2>2. \A q \in Slots : read[q].at \notin Alarm
    BY <1>1, <1>3 DEF At
  <2> QED BY <1>1, <1>3, <2>1, <2>2 DEF AlarmInv
<1> QED BY <1>2, <1>3

(* The statement ends.                                                     *)
LEMMA AlarmEnds ==
  ASSUME TypeOK, AlarmInv, NEW r \in Slots, AlarmWritten(r)
  PROVE  AlarmInv'
<1> SUFFICES ASSUME alarmSafe' PROVE AlarmInv'
  BY DEF AlarmInv
<1>1. \A q \in Slots : read'[q] = IF q = r THEN Idle ELSE read[q]
  BY DEF TypeOK, AlarmWritten, Done
<1>2. alarmRow' = (read[r].at = "set") /\ alarmSafe /\ detector' = detector
  BY DEF AlarmWritten, memory
<1>3. /\ \A q \in Slots : read[q].at \in Alarm => q = r
      /\ read[r].at = "set" <=> detector
  BY <1>2 DEF AlarmInv, AlarmWritten, Alarm
<1>4. \A q \in Slots : read'[q].at \notin Alarm
  BY <1>1, <1>3 DEF Idle, Alarm
<1>5. alarmRow' = detector'
  BY <1>2, <1>3 DEF TypeOK
<1> QED BY <1>4, <1>5 DEF AlarmInv

-----------------------------------------------------------------------------
LEMMA GotoShape ==
  ASSUME TypeOK, NEW r \in Slots, NEW step
  PROVE  Goto(r, step) =
           [read EXCEPT ![r] = [at |-> step, val |-> read[r].val, now |-> read[r].now]]
<1>1. read[r] \in Reads
  BY DEF TypeOK
<1>2. [read[r] EXCEPT !.at = step] = [at |-> step, val |-> read[r].val, now |-> read[r].now]
  BY <1>1 DEF Reads
<1> QED BY <1>2 DEF Goto

(* Whatever else is replaced in a slot, its type is kept.                  *)
LEMMA SlotReplaced ==
  ASSUME TypeOK, NEW r \in Slots, NEW x \in Reads
  PROVE  [read EXCEPT ![r] = x] \in [Slots -> Reads]
  BY DEF TypeOK

LEMMA FaultCounts == TypeOK /\ Fault => faults' \in 0 .. MaxFaults
  BY ConstantsAssumption DEF TypeOK, Fault

(* An idle slot holds nothing.                                             *)
LEMMA IdleIsRead == Idle \in Reads /\ Idle.at = "idle"
  BY ConstantsAssumption DEF Idle, Reads

(* Every step of a handler keeps the invariant.                            *)
LEMMA HandlerKeeps ==
  ASSUME IInv, NEW r \in Slots, Handler(r)
  PROVE  IInv'
<1> USE ConstantsAssumption DEF IInv
<1>0. read[r] \in Reads
  BY DEF TypeOK
<1>1. CASE Begin(r)
  <2> DEFINE x == [at |-> "reading", val |-> read[r].val, now |-> read[r].now]
  <2>1. x \in Reads /\ read' = [read EXCEPT ![r] = x]
    BY <1>0, <1>1, GotoShape DEF Begin, Reads
  <2>2. x.at \notin Status \cup Alarm /\ read[r].at \notin Status \cup Alarm
    BY <1>1 DEF Begin, Status, Alarm
  <2> HIDE DEF x
  <2>3. TypeOK'
    BY <1>1, <2>1, SlotReplaced DEF Begin, TypeOK, memory, store, tables, history
  <2>4. RowInv'
    BY <1>1, <2>1, <2>2, RowAlone DEF Begin, memory, tables, history
  <2>5. AlarmInv'
    BY <1>1, <2>1, <2>2, AlarmAlone DEF Begin, memory, tables, history
  <2> QED BY <2>3, <2>4, <2>5
<1>2. CASE Answers(r) \/ Enqueue(r) \/ EnqueueFails(r)
  <2>1. PICK x \in Reads : /\ x.at \in {"adding", "added", "published"}
                           /\ read' = [read EXCEPT ![r] = x]
    <3>1. CASE Answers(r)
      <4> DEFINE y(at, now) == [at |-> at, val |-> actual, now |-> now]
      <4>1. \/ read' = [read EXCEPT ![r] = y("adding", TRUE)]
            \/ read' = [read EXCEPT ![r] = y("published", FALSE)]
        BY <3>1 DEF Answers
      <4>2. y("adding", TRUE) \in Reads /\ y("published", FALSE) \in Reads
        BY DEF TypeOK, Reads
      <4>3. y("adding", TRUE).at = "adding" /\ y("published", FALSE).at = "published"
        OBVIOUS
      <4> HIDE DEF y
      <4> QED BY <4>1, <4>2, <4>3
    <3>2. CASE Enqueue(r)
      BY <1>0, <3>2 DEF Enqueue, Reads
    <3>3. CASE EnqueueFails(r)
      BY <1>0, <3>3 DEF EnqueueFails, Reads
    <3> QED BY <1>2, <3>1, <3>2, <3>3
  <2>2. x.at \notin Status \cup Alarm /\ read[r].at \notin Status \cup Alarm
    BY <1>2, <2>1 DEF Answers, Enqueue, EnqueueFails, Status, Alarm
  <2>3. UNCHANGED <<actual, proc, flag, last, detector, row, alarmRow, rowSafe, alarmSafe>>
    BY <1>2 DEF Answers, Enqueue, EnqueueFails, memory, tables, history
  <2>4. faults' \in 0 .. MaxFaults
    BY <1>2, FaultCounts DEF Answers, Enqueue, EnqueueFails, TypeOK
  <2>5. TypeOK'
    <3>1. queued' \in BOOLEAN /\ stored' \in BOOLEAN
      BY <1>2, Zenon DEF Answers, Enqueue, EnqueueFails, store, TypeOK
    <3> QED BY <2>1, <2>3, <2>4, <3>1, SlotReplaced DEF TypeOK
  <2>6. RowInv'
    BY <2>1, <2>2, <2>3, RowAlone
  <2>7. AlarmInv'
    BY <2>1, <2>2, <2>3, AlarmAlone
  <2> QED BY <2>5, <2>6, <2>7
<1>3. CASE ReadFails(r)
  <2>1. PICK x \in Reads : /\ x.at = IF flag THEN "idle" ELSE "offline"
                           /\ read' = [read EXCEPT ![r] = x]
    <3>1. CASE flag
      BY <1>3, <3>1, IdleIsRead DEF ReadFails, Done
    <3>2. CASE ~flag
      BY <1>0, <1>3, <3>2, GotoShape DEF ReadFails, Reads
    <3> QED BY <3>1, <3>2
  <2>2. read[r].at = "reading" /\ flag' = TRUE
        /\ UNCHANGED <<actual, proc, last, detector, queued, stored, row, alarmRow, alarmSafe, faults>>
    BY <1>3 DEF ReadFails, store, tables
  <2>3. rowSafe' = (rowSafe /\ (flag \/ StatusSafe))
    BY <1>3 DEF ReadFails
  <2>4. TypeOK'
    BY <2>1, <2>2, <2>3, SlotReplaced DEF TypeOK
  <2>5. RowInv'
    <3>1. CASE flag
      BY <2>1, <2>2, <2>3, <3>1, RowAlone DEF Status, TypeOK
    <3>2. CASE ~flag
      BY <2>1, <2>2, <2>3, <3>2, RowSent DEF Status, TypeOK
    <3> QED BY <3>1, <3>2
  <2>6. AlarmInv'
    BY <2>1, <2>2, AlarmAlone DEF Alarm
  <2> QED BY <2>4, <2>5, <2>6
<1>4. CASE Published(r)
  <2>1. read[r].at \in {"added", "published"}
        /\ UNCHANGED <<actual, proc, queued, stored, row, alarmRow, faults>>
    BY <1>4 DEF Published, store, tables
  <2>2. last' \in {{}} \cup {{v} : v \in Values}
    BY <1>0, <1>4 DEF Published, Marked, TypeOK, Reads
  <2>3. CASE flag /\ flag' = FALSE /\ read' = Goto(r, "online")
             /\ rowSafe' = (rowSafe /\ StatusSafe) /\ UNCHANGED <<detector, alarmSafe>>
    <3> DEFINE x == [at |-> "online", val |-> read[r].val, now |-> read[r].now]
    <3>1. x \in Reads /\ read' = [read EXCEPT ![r] = x] /\ x.at = "online"
      BY <1>0, <2>3, GotoShape DEF Reads
    <3> HIDE DEF x
    <3>2. TypeOK'
      BY <2>1, <2>2, <2>3, <3>1, SlotReplaced DEF TypeOK
    <3>3. RowInv'
      BY <2>1, <2>3, <3>1, RowSent DEF Status
    <3>4. AlarmInv'
      BY <2>1, <2>3, <3>1, AlarmAlone DEF Alarm
    <3> QED BY <3>2, <3>3, <3>4
  <2>4. CASE EvaluateAlarms(r) /\ UNCHANGED <<flag, rowSafe>>
    <3>1. PICK x \in Reads : /\ x.at \in {"idle", "set", "clear"}
                             /\ read' = [read EXCEPT ![r] = x]
      BY <2>4, EvaluateShape
    <3>2. detector' \in BOOLEAN /\ alarmSafe' \in BOOLEAN
      BY <2>4 DEF EvaluateAlarms, ActiveIn, Active, TypeOK
    <3>3. TypeOK'
      BY <2>1, <2>2, <2>4, <3>1, <3>2, SlotReplaced DEF TypeOK
    <3>4. RowInv'
      BY <2>1, <2>4, <3>1, RowAlone DEF Status
    <3>5. AlarmInv'
      BY <2>1, <2>4, EvaluateKeeps DEF Alarm
    <3> QED BY <3>3, <3>4, <3>5
  <2> QED BY <1>4, <2>3, <2>4 DEF Published, MarkOnline
<1>5. CASE OfflineWritten(r)
  <2>1. /\ read[r].at = "offline" /\ read' = [read EXCEPT ![r] = Idle]
        /\ UNCHANGED <<actual, proc, flag, last, detector, queued, stored, alarmRow, alarmSafe>>
        /\ \/ row' = "offline" /\ rowSafe' = rowSafe /\ faults' = faults
           \/ Fault /\ rowSafe' = FALSE /\ row' = row
    BY <1>5 DEF OfflineWritten, Done, memory, store
  <2>2. TypeOK'
    <3>1. faults' \in 0 .. MaxFaults
      BY <2>1, FaultCounts DEF TypeOK
    <3>2. alarmRow' \in BOOLEAN /\ alarmSafe' \in BOOLEAN /\ rowSafe' \in BOOLEAN
          /\ row' \in {"online", "offline"}
      BY <2>1, Zenon DEF TypeOK
    <3> QED BY <2>1, <3>1, <3>2, IdleIsRead, SlotReplaced DEF TypeOK
  <2>3. RowInv'
    BY <2>1, IdleIsRead, RowEnds DEF Status
  <2>4. AlarmInv'
    BY <2>1, IdleIsRead, AlarmAlone DEF Alarm
  <2> QED BY <2>2, <2>3, <2>4
<1>6. CASE OnlineWritten(r)
  <2>1. /\ read[r].at = "online" /\ EvaluateAlarms(r)
        /\ UNCHANGED <<actual, proc, flag, last, queued, stored, alarmRow>>
        /\ \/ row' = "online" /\ rowSafe' = rowSafe /\ faults' = faults
           \/ Fault /\ rowSafe' = FALSE /\ row' = row
    BY <1>6 DEF OnlineWritten, store
  <2>2. PICK x \in Reads : /\ x.at \in {"idle", "set", "clear"}
                           /\ read' = [read EXCEPT ![r] = x]
    BY <2>1, EvaluateShape
  <2>3. detector' \in BOOLEAN /\ alarmSafe' \in BOOLEAN
    BY <2>1 DEF EvaluateAlarms, ActiveIn, Active, TypeOK
  <2>4. TypeOK'
    <3>1. faults' \in 0 .. MaxFaults
      BY <2>1, FaultCounts DEF TypeOK
    <3>2. rowSafe' \in BOOLEAN /\ row' \in {"online", "offline"}
      BY <2>1, Zenon DEF TypeOK
    <3> QED BY <2>1, <2>2, <2>3, <3>1, <3>2, SlotReplaced DEF TypeOK
  <2>5. RowInv'
    BY <2>1, <2>2, RowEnds DEF Status
  <2>6. AlarmInv'
    BY <2>1, EvaluateKeeps DEF Alarm
  <2> QED BY <2>4, <2>5, <2>6
<1>7. CASE AlarmWritten(r)
  <2>1. /\ read[r].at \in Alarm /\ read' = [read EXCEPT ![r] = Idle]
        /\ UNCHANGED <<actual, proc, flag, last, detector, queued, stored, row, rowSafe>>
        /\ \/ alarmRow' = (read[r].at = "set") /\ alarmSafe' = alarmSafe /\ faults' = faults
           \/ Fault /\ alarmSafe' = FALSE /\ alarmRow' = alarmRow
    BY <1>7 DEF AlarmWritten, Done, Alarm, memory, store
  <2>2. TypeOK'
    <3>1. faults' \in 0 .. MaxFaults
      BY <2>1, FaultCounts DEF TypeOK
    <3>2. alarmRow' \in BOOLEAN /\ alarmSafe' \in BOOLEAN /\ rowSafe' \in BOOLEAN
          /\ row' \in {"online", "offline"}
      BY <2>1, Zenon DEF TypeOK
    <3> QED BY <2>1, <3>1, <3>2, IdleIsRead, SlotReplaced DEF TypeOK
  <2>3. RowInv'
    BY <2>1, IdleIsRead, RowAlone DEF Status, Alarm
  <2>4. AlarmInv'
    BY <1>7, AlarmEnds
  <2> QED BY <2>2, <2>3, <2>4
<1> QED BY <1>1, <1>2, <1>3, <1>4, <1>5, <1>6, <1>7 DEF Handler

-----------------------------------------------------------------------------
(* A step that leaves the places of the handlers, the tables and what the  *)
(* service knows alone keeps both agreements.                              *)
LEMMA Quiet ==
  ASSUME RowInv, AlarmInv, \A q \in Slots : read'[q].at = read[q].at,
         UNCHANGED <<proc, flag, detector, row, alarmRow, rowSafe, alarmSafe>>
  PROVE  RowInv' /\ AlarmInv'
<1> HIDE DEF Status, Alarm
<1>1. RowInv'
  BY DEF RowInv
<1>2. AlarmInv'
  BY DEF AlarmInv
<1> QED BY <1>1, <1>2

(* What happens around the handlers keeps the invariant.                   *)
LEMMA ServiceKeeps ==
  ASSUME IInv, Stop \/ StopWritten \/ Restart
  PROVE  IInv'
<1> USE ConstantsAssumption DEF IInv
<1>1. CASE Stop
  <2>1. /\ proc = "up" /\ proc' = "stopping" /\ rowSafe' = (rowSafe /\ StatusSafe)
        /\ UNCHANGED <<actual, read, flag, last, detector, queued, stored, row, alarmRow,
                       alarmSafe, faults>>
    BY <1>1 DEF Stop, memory, store, tables
  <2>2. TypeOK'
    BY <2>1, Zenon DEF TypeOK
  <2>3. RowInv'
    <3> SUFFICES ASSUME rowSafe' PROVE RowInv'
      BY DEF RowInv
    <3>1. \A q \in Slots : read'[q].at \notin Status
      BY <2>1 DEF StatusSafe, At, Status
    <3> QED BY <2>1, <3>1 DEF RowInv
  <2>4. AlarmInv'
    BY <2>1 DEF AlarmInv
  <2> QED BY <2>2, <2>3, <2>4
<1>2. CASE StopWritten
  <2>1. /\ proc = "stopping" /\ proc' = "closing"
        /\ UNCHANGED <<actual, read, flag, last, detector, queued, stored, alarmRow, alarmSafe>>
        /\ \/ row' = "offline" /\ rowSafe' = rowSafe /\ faults' = faults
           \/ Fault /\ rowSafe' = FALSE /\ row' = row
    BY <1>2 DEF StopWritten, memory, store
  <2>2. faults' \in 0 .. MaxFaults
    BY <2>1, FaultCounts DEF TypeOK
  <2>3. rowSafe' \in BOOLEAN /\ row' \in {"online", "offline"}
    BY <2>1, Zenon DEF TypeOK
  <2>4. TypeOK'
    BY <2>1, <2>2, <2>3 DEF TypeOK
  <2>5. RowInv'
    <3> SUFFICES ASSUME rowSafe' PROVE RowInv'
      BY DEF RowInv
    <3>1. row' = "offline" /\ rowSafe
      BY <2>1
    <3>2. \A q \in Slots : read[q].at \notin Status
      BY <2>1, <3>1 DEF RowInv
    <3> QED BY <2>1, <3>1, <3>2 DEF RowInv
  <2>6. AlarmInv'
    BY <2>1 DEF AlarmInv
  <2> QED BY <2>4, <2>5, <2>6
<1>3. CASE Restart
  <2>1. /\ proc' = "up" /\ read' = [q \in Slots |-> Idle]
        /\ flag' = FALSE /\ last' = {} /\ detector' = FALSE
        /\ alarmRow' = FALSE /\ alarmSafe' = TRUE /\ UNCHANGED <<actual, queued, stored>>
    BY <1>3 DEF Restart, store
  <2>7. rowSafe' \in BOOLEAN /\ row' \in {"online", "offline"} /\ (rowSafe' => row' = "online")
    BY <1>3 DEF Restart, TypeOK
  <2>2. faults' \in 0 .. MaxFaults
    BY <1>3, FaultCounts DEF Restart
  <2>3. TypeOK'
    BY <2>1, <2>2, <2>7, IdleIsRead DEF TypeOK
  <2>4. \A q \in Slots : read'[q].at = "idle"
    BY <2>1, IdleIsRead
  <2>5. RowInv'
    BY <2>1, <2>4, <2>7 DEF RowInv, Status
  <2>6. AlarmInv'
    BY <2>1, <2>4 DEF AlarmInv, Alarm
  <2> QED BY <2>3, <2>5, <2>6
<1> QED BY <1>1, <1>2, <1>3

(* So does what happens outside the service.                               *)
LEMMA OutsideKeeps ==
  ASSUME IInv, WriteTelemetry \/ TelemetryLost \/ Age \/ ValueChanges
  PROVE  IInv'
<1> USE ConstantsAssumption DEF IInv
<1>1. UNCHANGED <<proc, flag, detector, row, alarmRow, rowSafe, alarmSafe>>
  BY DEF WriteTelemetry, TelemetryLost, Age, ValueChanges, memory, tables, history
<1>2. read' \in [Slots -> Reads] /\ \A q \in Slots : read'[q].at = read[q].at
  <2>1. CASE ValueChanges
    <3>1. ASSUME NEW q \in Slots
          PROVE  read'[q] \in Reads /\ read'[q].at = read[q].at
      <4>1. read[q] \in Reads
        BY DEF TypeOK
      <4>2. read'[q] = [at |-> read[q].at, val |-> read[q].val, now |-> FALSE]
        BY <2>1, <4>1 DEF ValueChanges, Reads
      <4> QED BY <4>1, <4>2 DEF Reads
    <3> QED BY <2>1, <3>1 DEF ValueChanges
  <2>2. CASE UNCHANGED read
    BY <2>2 DEF TypeOK
  <2> QED BY <2>1, <2>2 DEF WriteTelemetry, TelemetryLost, Age
<1>3. faults' \in 0 .. MaxFaults
  BY FaultCounts DEF WriteTelemetry, TelemetryLost, Age, ValueChanges, TypeOK
<1>4. /\ actual' \in Values /\ last' \in {{}} \cup {{v} : v \in Values}
      /\ queued' \in BOOLEAN /\ stored' \in BOOLEAN
  BY DEF WriteTelemetry, TelemetryLost, Age, ValueChanges, memory, store, TypeOK
<1>5. TypeOK'
  BY <1>1, <1>2, <1>3, <1>4 DEF TypeOK
<1> QED BY <1>1, <1>2, <1>5, Quiet

(* Every step keeps the invariant.                                         *)
THEOREM Preserved == IInv /\ [Next]_vars => IInv'
<1> SUFFICES ASSUME IInv, [Next]_vars PROVE IInv'
  OBVIOUS
<1>1. CASE UNCHANGED vars
  <2>1. UNCHANGED <<actual, proc, read, flag, last, detector, queued, stored, row, alarmRow,
                   rowSafe, alarmSafe, faults>>
    BY <1>1 DEF vars, memory, store, tables, history
  <2>2. TypeOK'
    BY <2>1 DEF IInv, TypeOK
  <2> QED BY <2>1, <2>2, Quiet DEF IInv
<1> QED BY <1>1, HandlerKeeps, ServiceKeeps, OutsideKeeps DEF Next

(* IInv holds in every reachable state.                                    *)
THEOREM Invariance == Spec => []IInv
<1>1. Init => IInv
  <2> SUFFICES ASSUME Init PROVE IInv
    OBVIOUS
  <2>1. TypeOK
    <3>1. Idle \in Reads
      BY ConstantsAssumption DEF Idle, Reads
    <3>2. read \in [Slots -> Reads]
      BY <3>1 DEF Init
    <3>3. faults \in 0 .. MaxFaults
      BY ConstantsAssumption DEF Init
    <3>4. alarmRow \in BOOLEAN /\ rowSafe \in BOOLEAN /\ alarmSafe \in BOOLEAN
          /\ flag \in BOOLEAN /\ detector \in BOOLEAN /\ queued \in BOOLEAN /\ stored \in BOOLEAN
      BY DEF Init
    <3>5. /\ actual \in Values /\ proc = "up" /\ row = "online" /\ last = {}
      BY DEF Init
    <3> QED BY <3>2, <3>3, <3>4, <3>5 DEF TypeOK
  <2>2. \A q \in Slots : read[q].at = "idle"
    BY IdleIsRead DEF Init
  <2>3. RowInv
    BY <2>2 DEF Init, RowInv, Status
  <2>4. AlarmInv
    BY <2>2 DEF Init, AlarmInv, Alarm
  <2> QED BY <2>1, <2>3, <2>4 DEF IInv
<1> QED BY <1>1, Preserved, PTL DEF Spec

(* Slots, tables and what the service keeps in memory have their types;    *)
(* the write filter marks at most one value (TelemetryWriteFilter).        *)
THEOREM TypeCorrect == Spec => []TypeOK
<1>1. IInv => TypeOK
  BY DEF IInv
<1> QED BY <1>1, Invariance, PTL

(* For any number of overlapping reads, through stops, crashes and failed  *)
(* statements: with nothing on its way, the status row and the alarm table *)
(* say what the service knows (DeviceService.markOnline, handleReadFailure *)
(* and applyTransition), unless a statement failed or met another one.     *)
THEOREM TablesFollowHolds == Spec => []TablesFollow
<1>1. IInv => TablesFollow
  <2> SUFFICES ASSUME IInv PROVE TablesFollow
    OBVIOUS
  <2>1. RowFollowsFlag
    BY DEF IInv, RowInv, RowFollowsFlag, At, Status
  <2>2. AlarmTableFollows
    BY DEF IInv, AlarmInv, AlarmTableFollows, At, Alarm
  <2> QED BY <2>1, <2>2 DEF TablesFollow
<1> QED BY <1>1, Invariance, PTL
=============================================================================
