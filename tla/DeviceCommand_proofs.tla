------------------------- MODULE DeviceCommand_proofs -------------------------
(***************************************************************************)
(* Proofs about DeviceCommand, for any jobs, commands and registers.       *)
(***************************************************************************)
EXTENDS DeviceCommand, SequenceTheorems, TLAPS

ToDo(j) == Range(todo[j])
Done(j) == {Plan(j)[k] : k \in 1 .. Len(Plan(j)) - Len(todo[j])}

(* A phase that writes has something to write; the first one goes through  *)
(* the plan from its beginning.                                            *)
PlanInv(j) ==
  /\ work[j] \in {"write", "restore", "pulse"} => todo[j] # << >>
  /\ work[j] = "write" =>
       \A k \in 1 .. Len(todo[j]) : todo[j][k] = Plan(j)[Len(Plan(j)) - Len(todo[j]) + k]
  /\ work[j] = "restore" => load[j].atomic

(* Result, verdict and audit record of a job tell the same story.          *)
ResultInv(j) ==
  /\ call[j] = "idle" => work[j] = "none"
  /\ call[j] = "success" => work[j] = "done" /\ result[j] # "failure"
  /\ work[j] # "done" => result[j] = "none"
  /\ work[j] = "done" => result[j] # "none"
  /\ result[j] = "success" => audit[j] = "executed"
  /\ work[j] = "finalize" /\ valid[j] => audit[j] = "executed"

(* A job that has the device to itself ...                                 *)
Alone(j) == work[j] \notin {"none", "queued"} /\ \A i \in Jobs \ {j} : work[i] \notin Under

(* ... is carried out when the mailbox says so,                            *)
HandshakeInv(j) ==
  /\ \/ work[j] = "write" /\ Box \notin ToDo(j)
     \/ work[j] \in {"pulse", "reading"}
     => (ack = "done" => j \in carried)
  /\ valid[j] \/ audit[j] = "executed" => j \in carried

(* ... has overwritten what it has written and not put back,               *)
BackupInv(j) ==
  /\ work[j] = "write" => \A r \in Targets(j) \ (Done(j) \cup spoiled[j]) : reg[r] = saved[j][r]
  /\ work[j] = "restore" => \A r \in Targets(j) \ (ToDo(j) \cup spoiled[j]) : reg[r] = saved[j][r]
  /\ work[j] = "rejected" =>
       IF load[j].atomic THEN \A r \in Targets(j) \ spoiled[j] : reg[r] = saved[j][r]
                         ELSE spoiled[j] # {}

(* ... and takes its value away again.                                     *)
ReleaseInv(j) ==
  /\ work[j] = "pulse" => \A r \in Targets(j) \ (ToDo(j) \cup spoiled[j]) : reg[r] = 0
  /\ work[j] \in {"reading", "audit", "finalize"} /\ load[j].pulse =>
       \A r \in Targets(j) \ spoiled[j] : reg[r] # j
  /\ work[j] = "done" /\ (load[j].atomic \/ spoiled[j] = {}) =>
       \A r \in Released(j) \ spoiled[j] : reg[r] # j \/ saved[j][r] = j

DeviceInv(j) == (Handshake(j) => HandshakeInv(j)) /\ BackupInv(j) /\ ReleaseInv(j)

SoleInv == \A j \in Jobs : sole = j => Alone(j) /\ DeviceInv(j)

IInv ==
  /\ TypeOK
  /\ \A j \in Jobs : PlanInv(j) /\ ResultInv(j)
  /\ SoleInv

-----------------------------------------------------------------------------
(* Commands and their plans, which never change.                           *)

LEMMA LoadTypes ==
  ASSUME TypeOK, NEW j \in Jobs
  PROVE  load[j] \in Command
  BY ConstantsAssumption DEF TypeOK

LEMMA PlanFacts ==
  ASSUME TypeOK, NEW j \in Jobs
  PROVE  /\ Plan(j) \in Seq(Targets(j)) /\ Targets(j) \subseteq Regs
         /\ Len(Plan(j)) \in Nat /\ Targets(j) = Range(Plan(j))
         /\ ResetPlan(j) \in Seq(Targets(j)) /\ Len(ResetPlan(j)) <= Len(Plan(j))
         /\ load[j].pulse => /\ Len(ResetPlan(j)) = Len(Plan(j))
                             /\ Range(ResetPlan(j)) = Targets(j)
<1> DEFINE c == load[j].coils
           h == load[j].holdings
           x == h \o c
           y == c \o h
<1>1. c \in Seq(Regs) /\ h \in Seq(Regs) /\ load[j].pulse \in BOOLEAN /\ load[j].atomic \in BOOLEAN
  BY LoadTypes DEF Command
<1>2. Plan(j) = (IF load[j].atomic THEN y ELSE x) /\ ResetPlan(j) = (IF load[j].pulse THEN x ELSE << >>)
  BY DEF Plan, ResetPlan
<1> HIDE DEF c, h
<1>3. x \in Seq(Regs) /\ Len(x) = Len(h) + Len(c) /\ Range(x) = Range(h) \cup Range(c)
  BY <1>1, ConcatProperties, RangeConcatenation
<1>4. y \in Seq(Regs) /\ Len(y) = Len(c) + Len(h) /\ Range(y) = Range(c) \cup Range(h)
  BY <1>1, ConcatProperties, RangeConcatenation
<1> HIDE DEF x, y
<1>5. Len(c) \in Nat /\ Len(h) \in Nat
  BY <1>1
<1>6. Plan(j) \in Seq(Regs) /\ Len(Plan(j)) = Len(x) /\ Range(Plan(j)) = Range(x)
  BY <1>1, <1>2, <1>3, <1>4, <1>5
<1>7. Targets(j) = Range(Plan(j))
  BY <1>6, RangeEquality DEF Targets
<1>8. Plan(j) \in Seq(Targets(j)) /\ Targets(j) \subseteq Regs /\ Len(Plan(j)) \in Nat
  BY <1>6, <1>7, SeqOfRange, RangeOfSeq, LenProperties
<1>9. x \in Seq(Targets(j))
  BY <1>3, <1>6, <1>7, SeqOfRange
<1>10. CASE load[j].pulse
  <2>1. ResetPlan(j) = x
    BY <1>2, <1>10
  <2>2. Len(x) <= Len(Plan(j))
    BY <1>6, <1>8
  <2> QED BY <1>6, <1>7, <1>8, <1>9, <2>1, <2>2
<1>11. CASE ~load[j].pulse
  <2>1. ResetPlan(j) = << >>
    BY <1>2, <1>11
  <2> QED BY <1>7, <1>8, <1>11, <2>1
<1> QED BY <1>10, <1>11

LEMMA LoadStable ==
  ASSUME load' = load, NEW j \in Jobs
  PROVE  /\ Plan(j)' = Plan(j) /\ Targets(j)' = Targets(j)
         /\ Released(j)' = Released(j) /\ (Handshake(j)' <=> Handshake(j))
<1>1. Plan(j)' = Plan(j)
  BY DEF Plan
<1>2. Targets(j)' = Targets(j)
  BY <1>1 DEF Targets
<1> QED BY <1>1, <1>2 DEF Released, Handshake

LEMMA Counting ==
  /\ \A n \in Nat : n >= 1 /\ ~(n > 1) => n = 1
  /\ \A p, n \in Nat : p - (n - 1) = (p - n) + 1
  /\ \A p, n, k \in Nat : p - n + (k + 1) = p - (n - 1) + k
  OBVIOUS

(* One entry less to do.                                                   *)
LEMMA HeadFacts ==
  ASSUME NEW S, NEW s \in Seq(S), s # << >>
  PROVE  /\ Head(s) \in S /\ Head(s) = s[1] /\ Len(s) \in Nat /\ Len(s) >= 1
         /\ Tail(s) \in Seq(S) /\ Len(Tail(s)) = Len(s) - 1
         /\ \A k \in 1 .. Len(Tail(s)) : Tail(s)[k] = s[k + 1]
         /\ Range(s) = {Head(s)} \cup Range(Tail(s))
         /\ Len(s) = 1 => Range(s) = {Head(s)}
<1> DEFINE u == Tail(s)
<1>1. /\ Head(s) \in S /\ Head(s) = s[1] /\ Len(s) \in Nat /\ Len(s) >= 1
      /\ u \in Seq(S) /\ Len(u) = Len(s) - 1 /\ \A k \in 1 .. Len(u) : u[k] = s[k + 1]
  BY HeadTailProperties, EmptySeq, LenProperties
<1> HIDE DEF u
<1>2. /\ Range(s) = {s[k] : k \in 1 .. Len(s)}
      /\ Range(u) = {u[k] : k \in 1 .. Len(u)}
  BY <1>1, RangeEquality
<1>3. \A k \in 1 .. Len(u) : k + 1 \in 1 .. Len(s)
  BY <1>1
<1>4. \A k \in 1 .. Len(s) : k = 1 \/ (k - 1 \in 1 .. Len(u) /\ u[k - 1] = s[k])
  BY <1>1
<1>5. 1 \in 1 .. Len(s)
  BY <1>1
<1>6. \A e : e \in Range(s) <=> e = Head(s) \/ e \in Range(u)
  <2>1. \A e : e \in Range(s) => e = Head(s) \/ e \in Range(u)
    BY <1>1, <1>2, <1>4
  <2>2. Head(s) \in Range(s)
    BY <1>1, <1>2, <1>5
  <2>3. \A e : e \in Range(u) => e \in Range(s)
    BY <1>1, <1>2, <1>3
  <2> QED BY <2>1, <2>2, <2>3
<1>7. Len(s) = 1 => Range(u) = {}
  BY <1>1, <1>2
<1> QED BY <1>1, <1>6, <1>7 DEF u

(* What a request does to registers, mailbox and line.                     *)
LEMMA WrittenFacts ==
  ASSUME TypeOK, NEW r \in Regs, NEW v \in Values, Written(r, v)
  PROVE  /\ reg' \in [Regs -> Values] /\ reg'[r] = v
         /\ \A q \in Regs : q # r => reg'[q] = reg[q]
         /\ ack' \in {"none", "done", "refused"}
         /\ carried' \subseteq Jobs /\ carried \subseteq carried'
         /\ r # Box => ack' = ack
         /\ r = Box /\ v = 0 => ack' = "none"
         /\ r = Box /\ v # 0 => (ack' = "done" => v \in carried')
<1>1. /\ reg' \in [Regs -> Values] /\ reg'[r] = v
      /\ \A q \in Regs : q # r => reg'[q] = reg[q]
  BY DEF Written, TypeOK
<1>2. v # 0 => v \in Jobs
  BY DEF Values
<1> QED BY <1>1, <1>2 DEF Written, TypeOK

LEMMA WrittenPerhapsFacts ==
  ASSUME TypeOK, NEW r \in Regs, NEW v \in Values, WrittenPerhaps(r, v)
  PROVE  /\ reg' \in [Regs -> Values]
         /\ \A q \in Regs : q # r => reg'[q] = reg[q]
         /\ ack' \in {"none", "done", "refused"}
         /\ carried' \subseteq Jobs /\ carried \subseteq carried'
         /\ r # Box => ack' = ack
         /\ v = 0 => ack' \in {ack, "none"}
<1>1. CASE UNCHANGED deviceVars
  BY <1>1 DEF deviceVars, TypeOK
<1>2. CASE Written(r, v)
  BY <1>2, WrittenFacts
<1> QED BY <1>1, <1>2 DEF WrittenPerhaps

LEMMA RequestFacts ==
  ASSUME TypeOK, RequestOk \/ RequestFails
  PROVE  linked' \in BOOLEAN /\ faults' \in 0 .. MaxFaults
<1>1. Fault => faults' \in 0 .. MaxFaults
  BY ConstantsAssumption DEF TypeOK, Fault
<1> QED BY <1>1 DEF TypeOK, RequestOk, RequestFails

(* The other jobs of the device keep what they have.                       *)
Same(i) ==
  /\ call'[i] = call[i] /\ work'[i] = work[i] /\ todo'[i] = todo[i]
  /\ saved'[i] = saved[i] /\ spoiled'[i] = spoiled[i] /\ valid'[i] = valid[i]
  /\ audit'[i] = audit[i] /\ result'[i] = result[i]

(* The invariants of a job speak of its own entries, and of the device.    *)
LEMMA OwnInvariants ==
  ASSUME load' = load, NEW j \in Jobs, work'[j] = work[j], todo'[j] = todo[j]
  PROVE  /\ PlanInv(j)' <=> PlanInv(j)
         /\ /\ UNCHANGED deviceVars /\ saved'[j] = saved[j] /\ spoiled'[j] = spoiled[j]
            /\ valid'[j] = valid[j] /\ audit'[j] = audit[j]
            => (DeviceInv(j) => DeviceInv(j)')
<1>1. /\ Plan(j)' = Plan(j) /\ Targets(j)' = Targets(j)
      /\ Released(j)' = Released(j) /\ (Handshake(j)' <=> Handshake(j))
  BY LoadStable
<1>2. PlanInv(j)' <=> PlanInv(j)
  BY <1>1 DEF PlanInv
<1>3. ToDo(j)' = ToDo(j) /\ Done(j)' = Done(j)
  BY <1>1 DEF ToDo, Done
<1>4. ASSUME UNCHANGED deviceVars, saved'[j] = saved[j], spoiled'[j] = spoiled[j],
             valid'[j] = valid[j], audit'[j] = audit[j], DeviceInv(j)
      PROVE  DeviceInv(j)'
  <2>1. reg' = reg /\ ack' = ack /\ carried' = carried
    BY <1>4 DEF deviceVars
  <2>2. Handshake(j)' => HandshakeInv(j)'
    BY <1>1, <1>3, <1>4, <2>1 DEF DeviceInv, HandshakeInv
  <2>3. BackupInv(j)'
    BY <1>1, <1>3, <1>4, <2>1 DEF DeviceInv, BackupInv
  <2>4. ReleaseInv(j)'
    BY <1>1, <1>3, <1>4, <2>1 DEF DeviceInv, ReleaseInv
  <2> QED BY <2>2, <2>3, <2>4 DEF DeviceInv
<1> QED BY <1>2, <1>4

(* It is enough to look at the job that acts: one that has the device to   *)
(* itself is either that job, or is not touched.                           *)
LEMMA Frame ==
  ASSUME IInv, NEW j \in Jobs, load' = load, sole' = sole, TypeOK',
         \A i \in Jobs \ {j} : Same(i),
         PlanInv(j)', ResultInv(j)',
         sole = j => DeviceInv(j)' /\ work'[j] \notin {"none", "queued"},
         work[j] \in Under \/ (UNCHANGED deviceVars /\ work'[j] \notin Under)
  PROVE  IInv'
<1>1. ASSUME NEW i \in Jobs PROVE PlanInv(i)' /\ ResultInv(i)'
  <2>1. CASE i = j
    BY <2>1
  <2>2. CASE i # j
    <3>1. PlanInv(i)' /\ Same(i)
      BY <2>2, OwnInvariants DEF IInv, Same
    <3>2. ResultInv(i)'
      BY <3>1 DEF IInv, ResultInv, Same
    <3> QED BY <3>1, <3>2
  <2> QED BY <2>1, <2>2
<1>2. ASSUME NEW i \in Jobs, sole = i PROVE Alone(i)' /\ DeviceInv(i)'
  <2>0. Alone(i) /\ DeviceInv(i)
    BY <1>2 DEF IInv, SoleInv
  <2>1. CASE i = j
    BY <1>2, <2>0, <2>1 DEF Alone, Same
  <2>2. CASE i # j
    <3>1. work[j] \notin Under /\ UNCHANGED deviceVars /\ work'[j] \notin Under /\ Same(i)
      BY <2>0, <2>2 DEF Alone
    <3>2. DeviceInv(i)'
      BY <2>0, <3>1, OwnInvariants DEF Same
    <3>3. Alone(i)'
      BY <2>0, <2>2, <3>1 DEF Alone, Same
    <3> QED BY <3>2, <3>3
  <2> QED BY <2>1, <2>2
<1>3. SoleInv'
  BY <1>2 DEF SoleInv
<1> QED BY <1>1, <1>3 DEF IInv

LEMMA AdvanceFacts ==
  ASSUME TypeOK, load' = load, NEW j \in Jobs, todo[j] # << >>,
         NEW phase \in Under, NEW plan \in Seq(Targets(j)), Len(plan) <= Len(Plan(j)),
         Advance(j, phase, plan)
  PROVE  /\ Head(todo[j]) \in Regs /\ Head(todo[j]) \in Targets(j)
         /\ work' \in [Jobs -> {"none", "queued"} \cup Under \cup Over]
         /\ todo' \in [Jobs -> Seq(Regs)]
         /\ \A i \in Jobs : todo'[i] \in Seq(Targets(i)') /\ Len(todo'[i]) <= Len(Plan(i)')
         /\ \A i \in Jobs \ {j} : todo'[i] = todo[i] /\ work'[i] = work[i]
         /\ \/ /\ work'[j] = work[j] /\ todo'[j] = Tail(todo[j]) /\ todo'[j] # << >>
               /\ ToDo(j) = {Head(todo[j])} \cup ToDo(j)'
            \/ /\ work'[j] = phase /\ todo'[j] = plan
               /\ ToDo(j) = {Head(todo[j])}
<1>1. /\ todo[j] \in Seq(Targets(j)) /\ Len(todo[j]) <= Len(Plan(j))
      /\ Targets(j) \subseteq Regs /\ Len(Plan(j)) \in Nat
  BY PlanFacts DEF TypeOK
<1>2. \A i \in Jobs : Plan(i)' = Plan(i) /\ Targets(i)' = Targets(i)
  BY LoadStable
<1> DEFINE s == todo[j]
           u == Tail(todo[j])
<1>3. /\ Head(s) \in Targets(j) /\ Len(s) \in Nat /\ Len(s) >= 1
      /\ u \in Seq(Targets(j)) /\ Len(u) = Len(s) - 1
      /\ Range(s) = {Head(s)} \cup Range(u)
      /\ Len(s) = 1 => Range(s) = {Head(s)}
  BY <1>1, HeadFacts
<1>6. Len(s) \in Nat /\ Len(s) >= 1
  BY <1>3
<1>7. u \in Seq(Regs) /\ plan \in Seq(Regs)
  BY <1>1, <1>3
<1>4. CASE Len(s) > 1
  <2>1. todo' = [todo EXCEPT ![j] = u] /\ work' = work
    BY <1>4 DEF Advance
  <2> HIDE DEF u
  <2>8. Len(u) <= Len(Plan(j)) /\ Len(u) # 0
    BY <1>1, <1>3, <1>4
  <2>2. todo'[j] = u /\ Len(u) <= Len(Plan(j)) /\ u # << >>
    BY <2>1, <2>8 DEF TypeOK
  <2>9. todo' \in [Jobs -> Seq(Regs)]
    BY <1>7, <2>1 DEF TypeOK
  <2>3. \A i \in Jobs \ {j} : todo'[i] = todo[i]
    BY <2>1 DEF TypeOK
  <2>4. \A i \in Jobs : todo'[i] \in Seq(Targets(i)) /\ Len(todo'[i]) <= Len(Plan(i))
    BY <1>3, <2>2, <2>3 DEF TypeOK
  <2>5. ToDo(j) = {Head(s)} \cup ToDo(j)'
    BY <1>3, <2>2 DEF ToDo
  <2>6. work' \in [Jobs -> {"none", "queued"} \cup Under \cup Over]
    BY <2>1 DEF TypeOK
  <2>7. todo'[j] = Tail(todo[j])
    BY <2>2 DEF u
  <2> QED BY <1>1, <1>2, <1>3, <2>1, <2>2, <2>3, <2>4, <2>5, <2>6, <2>7, <2>9
<1>5. CASE ~(Len(s) > 1)
  <2>1. todo' = [todo EXCEPT ![j] = plan] /\ work' = [work EXCEPT ![j] = phase]
    BY <1>5 DEF Advance, Goto
  <2>2. todo'[j] = plan /\ work'[j] = phase
    BY <2>1 DEF TypeOK
  <2>3. \A i \in Jobs \ {j} : todo'[i] = todo[i] /\ work'[i] = work[i]
    BY <2>1 DEF TypeOK
  <2>4. \A i \in Jobs : todo'[i] \in Seq(Targets(i)) /\ Len(todo'[i]) <= Len(Plan(i))
    BY <2>2, <2>3 DEF TypeOK
  <2>5. Len(s) = 1
    BY <1>5, <1>6, Counting
  <2>8. todo' \in [Jobs -> Seq(Regs)]
    BY <1>7, <2>1 DEF TypeOK
  <2>6. ToDo(j) = {Head(s)}
    BY <1>3, <2>5 DEF ToDo
  <2>7. work' \in [Jobs -> {"none", "queued"} \cup Under \cup Over]
    BY <2>1 DEF TypeOK
  <2> QED BY <1>1, <1>2, <1>3, <2>2, <2>3, <2>4, <2>6, <2>7, <2>8
<1> QED BY <1>4, <1>5

-----------------------------------------------------------------------------
(* No action breaks the invariant.                                         *)

(* A register is written: it is one of those a failure puts back, and the  *)
(* mailbox has been written when it is no longer to do.                    *)
LEMMA WriteKeeps ==
  ASSUME IInv, NEW j \in Jobs, Write(j)
  PROVE  IInv'
<1> DEFINE h == Head(todo[j])
<1>0. TypeOK /\ PlanInv(j) /\ ResultInv(j)
  BY DEF IInv
<1>1. /\ work[j] = "write" /\ todo[j] # << >> /\ j \in Values /\ j # 0
      /\ load' = load /\ life' = life /\ call' = call /\ saved' = saved /\ valid' = valid
      /\ audit' = audit /\ result' = result /\ stalled' = stalled /\ sole' = sole
  BY <1>0, ConstantsAssumption DEF Write, PlanInv, Values
<1>2. AfterWrites(j) \in {"pulse", "reading"} /\ AfterWrites(j) \in Under
  BY DEF AfterWrites, Under
<1>3. /\ Plan(j)' = Plan(j) /\ Targets(j)' = Targets(j)
      /\ Released(j)' = Released(j) /\ (Handshake(j)' <=> Handshake(j))
  BY <1>1, LoadStable
<1>4. /\ Plan(j) \in Seq(Targets(j)) /\ Targets(j) \subseteq Regs /\ Len(Plan(j)) \in Nat
      /\ Targets(j) = Range(Plan(j))
      /\ ResetPlan(j) \in Seq(Targets(j)) /\ Len(ResetPlan(j)) <= Len(Plan(j))
  BY <1>0, PlanFacts
<1>15. load[j].pulse => Len(ResetPlan(j)) = Len(Plan(j)) /\ Range(ResetPlan(j)) = Targets(j)
  BY <1>0, PlanFacts
<1>5. /\ h \in Regs /\ h \in Targets(j)
      /\ work' \in [Jobs -> {"none", "queued"} \cup Under \cup Over]
      /\ todo' \in [Jobs -> Seq(Regs)]
      /\ \A i \in Jobs : todo'[i] \in Seq(Targets(i)') /\ Len(todo'[i]) <= Len(Plan(i)')
      /\ \A i \in Jobs \ {j} : todo'[i] = todo[i] /\ work'[i] = work[i]
      /\ \/ /\ work'[j] = work[j] /\ todo'[j] = Tail(todo[j]) /\ todo'[j] # << >>
            /\ ToDo(j) = {h} \cup ToDo(j)'
         \/ /\ work'[j] = AfterWrites(j) /\ todo'[j] = ResetPlan(j)
            /\ ToDo(j) = {h}
  BY <1>0, <1>1, <1>2, <1>4, AdvanceFacts DEF Write
<1>6. /\ reg' \in [Regs -> Values] /\ \A q \in Regs : q # h => reg'[q] = reg[q]
      /\ ack' \in {"none", "done", "refused"}
      /\ carried' \subseteq Jobs /\ carried \subseteq carried'
      /\ h # Box => ack' = ack
      /\ h = Box => (ack' = "done" => j \in carried')
  BY <1>0, <1>1, <1>5, WrittenFacts DEF Write
<1>7. /\ spoiled' \in [Jobs -> SUBSET Regs]
      /\ spoiled'[j] = spoiled[j] \ {h} /\ \A i \in Jobs \ {j} : spoiled'[i] = spoiled[i]
  BY <1>0, <1>5 DEF Write, Clear, TypeOK
<1>8. /\ todo[j] \in Seq(Targets(j)) /\ h = todo[j][1]
      /\ Len(todo[j]) \in Nat /\ Len(todo[j]) >= 1 /\ Len(todo[j]) <= Len(Plan(j))
      /\ Len(Tail(todo[j])) = Len(todo[j]) - 1
      /\ \A k \in 1 .. Len(Tail(todo[j])) : Tail(todo[j])[k] = todo[j][k + 1]
  <2>1. todo[j] \in Seq(Targets(j)) /\ Len(todo[j]) <= Len(Plan(j))
    BY <1>0 DEF TypeOK
  <2> QED BY <1>1, <2>1, HeadFacts
<1> HIDE DEF h
<1>9. TypeOK'
  <2>1. linked' \in BOOLEAN /\ faults' \in 0 .. MaxFaults
    BY <1>0, RequestFacts DEF Write
  <2> QED BY <1>0, <1>1, <1>5, <1>6, <1>7, <2>1 DEF TypeOK
<1>10. PlanInv(j)'
  <2>1. CASE work'[j] = work[j] /\ todo'[j] = Tail(todo[j]) /\ todo'[j] # << >>
    <3>1. ASSUME NEW k \in 1 .. Len(todo'[j])
          PROVE  todo'[j][k] = Plan(j)[Len(Plan(j)) - Len(todo'[j]) + k]
      <4>1. k + 1 \in 1 .. Len(todo[j]) /\ k \in 1 .. Len(Tail(todo[j]))
        BY <1>8, <2>1
      <4>2. todo[j][k + 1] = Plan(j)[Len(Plan(j)) - Len(todo[j]) + (k + 1)]
        BY <1>0, <1>1, <4>1 DEF PlanInv
      <4>3. Len(Plan(j)) - Len(todo[j]) + (k + 1) = Len(Plan(j)) - Len(todo'[j]) + k
        <5>1. Len(Plan(j)) - Len(todo[j]) + (k + 1) = Len(Plan(j)) - (Len(todo[j]) - 1) + k
          BY <1>4, <1>8, Counting
        <5>2. Len(todo'[j]) = Len(todo[j]) - 1
          BY <1>8, <2>1
        <5> QED BY <5>1, <5>2
      <4> QED BY <1>8, <2>1, <4>1, <4>2, <4>3
    <3> QED BY <1>1, <1>3, <2>1, <3>1 DEF PlanInv
  <2>2. CASE work'[j] = AfterWrites(j) /\ todo'[j] = ResetPlan(j)
    <3>1. work'[j] = "pulse" => todo'[j] # << >>
      <4>1. Len(Plan(j)) # 0
        BY <1>4, <1>8
      <4>2. work'[j] = "pulse" => Len(todo'[j]) # 0
        BY <1>15, <2>2, <4>1 DEF AfterWrites
      <4> QED BY <4>2
    <3> QED BY <1>2, <2>2, <3>1 DEF PlanInv
  <2> QED BY <1>5, <2>1, <2>2
<1>11. ResultInv(j)'
  BY <1>0, <1>1, <1>2, <1>5 DEF ResultInv
<1>12. ASSUME sole = j PROVE DeviceInv(j)' /\ work'[j] \notin {"none", "queued"}
  <2>1. Alone(j) /\ DeviceInv(j)
    BY <1>12 DEF IInv, SoleInv
  <2>2. work'[j] \in {"write", "pulse", "reading"}
    BY <1>1, <1>2, <1>5
  <2>3. ASSUME Handshake(j) PROVE HandshakeInv(j)'
    <3>1. Box \notin ToDo(j)' \/ work'[j] # "write" => (ack' = "done" => j \in carried')
      <4>1. CASE h = Box
        BY <1>6, <4>1
      <4>2. CASE h # Box
        <5>1. Box \notin ToDo(j)' \/ work'[j] # "write" => Box \notin ToDo(j)
          BY <1>1, <1>5, <4>2
        <5> QED BY <1>1, <1>6, <2>1, <2>3, <4>2, <5>1 DEF DeviceInv, HandshakeInv
      <4> QED BY <4>1, <4>2
    <3>2. valid[j] \/ audit[j] = "executed" => j \in carried'
      BY <1>6, <2>1, <2>3 DEF DeviceInv, HandshakeInv
    <3> QED BY <1>1, <2>2, <3>1, <3>2 DEF HandshakeInv
  <2>4. BackupInv(j)'
    <3>1. ASSUME work'[j] = "write"
          PROVE  \A r \in Targets(j) \ (Done(j)' \cup spoiled'[j]) : reg'[r] = saved[j][r]
      <4>1. todo'[j] = Tail(todo[j]) /\ Len(todo'[j]) = Len(todo[j]) - 1
        BY <1>2, <1>5, <1>8, <3>1
      <4>2. Len(Plan(j)) - Len(todo'[j]) = (Len(Plan(j)) - Len(todo[j])) + 1
        <5>1. Len(Plan(j)) - (Len(todo[j]) - 1) = (Len(Plan(j)) - Len(todo[j])) + 1
          BY <1>4, <1>8, Counting
        <5> QED BY <4>1, <5>1
      <4>3. h = Plan(j)[(Len(Plan(j)) - Len(todo[j])) + 1]
        <5>1. 1 \in 1 .. Len(todo[j])
          BY <1>8
        <5>2. todo[j][1] = Plan(j)[Len(Plan(j)) - Len(todo[j]) + 1]
          BY <1>0, <1>1, <5>1 DEF PlanInv
        <5> QED BY <1>8, <5>2
      <4>4. Done(j) \cup {h} \subseteq Done(j)'
        <5>1. Done(j)' = {Plan(j)[k] : k \in 1 .. (Len(Plan(j)) - Len(todo[j])) + 1}
          BY <1>3, <4>2 DEF Done
        <5>2. /\ (Len(Plan(j)) - Len(todo[j])) + 1 \in 1 .. (Len(Plan(j)) - Len(todo[j])) + 1
              /\ \A k \in 1 .. Len(Plan(j)) - Len(todo[j]) : k \in 1 .. (Len(Plan(j)) - Len(todo[j])) + 1
          BY <1>4, <1>8
        <5> QED BY <4>3, <5>1, <5>2 DEF Done
      <4>5. \A r \in Targets(j) \ (Done(j)' \cup spoiled'[j]) : /\ r # h /\ r \in Regs
                 /\ r \in Targets(j) \ (Done(j) \cup spoiled[j])
        BY <1>4, <1>7, <4>4
      <4> QED BY <1>1, <1>6, <2>1, <4>5 DEF DeviceInv, BackupInv
    <3> QED BY <1>1, <1>3, <2>2, <3>1 DEF BackupInv
  <2>5. ReleaseInv(j)'
    <3>1. work'[j] = "pulse" => ToDo(j)' = Targets(j) /\ load[j].pulse
      <4>1. work'[j] = "pulse" => load[j].pulse /\ todo'[j] = ResetPlan(j)
        BY <1>1, <1>5 DEF AfterWrites
      <4> QED BY <1>15, <4>1 DEF ToDo
    <3>2. work'[j] = "reading" => ~load[j].pulse
      BY <1>1, <1>5 DEF AfterWrites
    <3> QED BY <1>1, <1>3, <2>2, <3>1, <3>2 DEF ReleaseInv
  <2> QED BY <1>3, <2>2, <2>3, <2>4, <2>5 DEF DeviceInv
<1>13. \A i \in Jobs \ {j} : Same(i)
  BY <1>1, <1>5, <1>7 DEF Same
<1>14. work[j] \in Under
  BY <1>1 DEF Under
<1> QED BY <1>1, <1>9, <1>10, <1>11, <1>12, <1>13, <1>14, Frame

LEMMA JobFacts ==
  ASSUME IInv, NEW j \in Jobs, load' = load
  PROVE  /\ TypeOK /\ PlanInv(j) /\ ResultInv(j) /\ (sole = j => Alone(j) /\ DeviceInv(j))
         /\ j \in Values /\ j # 0 /\ 0 \in Values /\ Box \in Regs
         /\ Plan(j)' = Plan(j) /\ Targets(j)' = Targets(j) /\ Released(j)' = Released(j)
         /\ (Handshake(j)' <=> Handshake(j))
         /\ Plan(j) \in Seq(Targets(j)) /\ Targets(j) \subseteq Regs /\ Len(Plan(j)) \in Nat
         /\ Targets(j) = Range(Plan(j))
         /\ todo[j] \in Seq(Targets(j)) /\ Len(todo[j]) \in Nat /\ Len(todo[j]) <= Len(Plan(j))
<1>1. TypeOK /\ PlanInv(j) /\ ResultInv(j) /\ (sole = j => Alone(j) /\ DeviceInv(j))
  BY DEF IInv, SoleInv
<1>2. j \in Values /\ j # 0 /\ 0 \in Values /\ Box \in Regs
  BY ConstantsAssumption DEF Values
<1>3. todo[j] \in Seq(Targets(j)) /\ Len(todo[j]) <= Len(Plan(j))
  BY <1>1 DEF TypeOK
<1>4. Len(todo[j]) \in Nat
  BY <1>3, LenProperties
<1>5. /\ Plan(j)' = Plan(j) /\ Targets(j)' = Targets(j) /\ Released(j)' = Released(j)
      /\ (Handshake(j)' <=> Handshake(j))
  BY LoadStable
<1>6. /\ Plan(j) \in Seq(Targets(j)) /\ Targets(j) \subseteq Regs /\ Len(Plan(j)) \in Nat
      /\ Targets(j) = Range(Plan(j))
  BY <1>1, PlanFacts
<1> QED BY <1>1, <1>2, <1>3, <1>4, <1>5, <1>6

(* What writeAtomic has written is the first part of its plan.             *)
LEMMA ExecutedFacts ==
  ASSUME IInv, NEW j \in Jobs, load' = load
  PROVE  /\ Executed(j) \in Seq(Targets(j)) /\ Len(Executed(j)) <= Len(Plan(j))
         /\ Range(Executed(j)) = Done(j)
         /\ Executed(j) = << >> => Done(j) = {}
<1> DEFINE n == Len(Plan(j)) - Len(todo[j])
           e == SubSeq(Plan(j), 1, n)
<1>1. n \in 0 .. Len(Plan(j)) /\ Plan(j) \in Seq(Targets(j)) /\ Len(Plan(j)) \in Nat
  BY JobFacts
<1>2. \A i \in 1 .. n : Plan(j)[i] \in Targets(j)
  <2>1. \A i \in 1 .. n : i \in 1 .. Len(Plan(j))
    BY <1>1
  <2> QED BY <1>1, <2>1, ElementOfSeq
<1>3. Executed(j) = e /\ Done(j) = {Plan(j)[k] : k \in 1 .. n}
  BY DEF Executed, Done
<1> HIDE DEF n
<1>4. e \in Seq(Targets(j)) /\ Len(e) = n /\ \A i \in 1 .. n : e[i] = Plan(j)[i]
  <2>1. n \in Nat /\ n - 1 + 1 = n
    BY <1>1
  <2> QED BY <1>1, <1>2, <2>1, SubSeqProperties
<1> HIDE DEF e
<1>5. Range(e) = {e[k] : k \in 1 .. n}
  BY <1>4, RangeEquality
<1>6. Range(e) = Done(j)
  BY <1>3, <1>4, <1>5
<1>7. Len(e) <= Len(Plan(j))
  BY <1>1, <1>4
<1>8. e = << >> => Done(j) = {}
  <2>1. e = << >> => n = 0
    BY <1>1, <1>4
  <2> QED BY <1>3, <2>1
<1> QED BY <1>3, <1>4, <1>6, <1>7, <1>8

(* A register could not be written: the ones before it are to be put back, *)
(* or, without atomicity, stay as they are.                                *)
LEMMA WriteFailsKeeps ==
  ASSUME IInv, NEW j \in Jobs, WriteFails(j)
  PROVE  IInv'
<1> DEFINE h == Head(todo[j])
<1>1. /\ work[j] = "write"
      /\ load' = load /\ life' = life /\ call' = call /\ saved' = saved /\ valid' = valid
      /\ audit' = audit /\ result' = result /\ stalled' = stalled /\ sole' = sole
  BY DEF WriteFails
<1>2. /\ TypeOK /\ PlanInv(j) /\ ResultInv(j) /\ (sole = j => Alone(j) /\ DeviceInv(j))
      /\ j \in Values
      /\ Plan(j)' = Plan(j) /\ Targets(j)' = Targets(j) /\ Released(j)' = Released(j)
      /\ (Handshake(j)' <=> Handshake(j)) /\ Targets(j) \subseteq Regs
      /\ todo[j] \in Seq(Targets(j)) /\ Len(Plan(j)) \in Nat
  BY <1>1, JobFacts
<1>3. h \in Targets(j) /\ h \in Regs
  BY <1>1, <1>2, HeadFacts DEF PlanInv
<1>4. /\ reg' \in [Regs -> Values] /\ \A q \in Regs : q # h => reg'[q] = reg[q]
      /\ ack' \in {"none", "done", "refused"} /\ carried' \subseteq Jobs /\ carried \subseteq carried'
  BY <1>2, <1>3, WrittenPerhapsFacts DEF WriteFails
<1>5. /\ spoiled' \in [Jobs -> SUBSET Regs]
      /\ spoiled'[j] = spoiled[j] \cup {h} /\ \A i \in Jobs \ {j} : spoiled'[i] = spoiled[i]
  BY <1>2, <1>3 DEF WriteFails, Spoil, TypeOK
<1> HIDE DEF h
<1>6. /\ Executed(j) \in Seq(Targets(j)) /\ Len(Executed(j)) <= Len(Plan(j))
      /\ Range(Executed(j)) = Done(j) /\ (Executed(j) = << >> => Done(j) = {})
  BY <1>1, ExecutedFacts
<1>7. PICK p \in {"restore", "rejected"}, q \in {Executed(j), << >>} :
        /\ work' = [work EXCEPT ![j] = p] /\ todo' = [todo EXCEPT ![j] = q]
        /\ p = "restore" => load[j].atomic /\ q = Executed(j) /\ q # << >>
        /\ p = "rejected" => ~load[j].atomic \/ Executed(j) = << >>
  BY DEF WriteFails, Goto
<1>8. /\ work' \in [Jobs -> {"none", "queued"} \cup Under \cup Over] /\ work'[j] = p
      /\ \A i \in Jobs \ {j} : work'[i] = work[i]
  BY <1>2, <1>7 DEF TypeOK, Under
<1>9. /\ todo' \in [Jobs -> Seq(Regs)] /\ todo'[j] = q
      /\ \A i \in Jobs \ {j} : todo'[i] = todo[i]
      /\ \A i \in Jobs : todo'[i] \in Seq(Targets(i)') /\ Len(todo'[i]) <= Len(Plan(i)')
  <2>1. q \in Seq(Targets(j)) /\ Len(q) <= Len(Plan(j)) /\ q \in Seq(Regs)
    <3>1. CASE q = << >>
      <4>1. Len(q) = 0
        BY <3>1
      <4>2. 0 <= Len(Plan(j))
        BY <1>2
      <4>3. q \in Seq(Targets(j)) /\ q \in Seq(Regs)
        BY <3>1
      <4> QED BY <4>1, <4>2, <4>3
    <3>2. CASE q = Executed(j)
      <4>1. Executed(j) \in Seq(Regs)
        BY <1>2, <1>6
      <4> QED BY <1>6, <3>2, <4>1
    <3> QED BY <1>7, <3>1, <3>2
  <2>2. todo' \in [Jobs -> Seq(Regs)] /\ todo'[j] = q /\ \A i \in Jobs \ {j} : todo'[i] = todo[i]
    BY <1>2, <1>7, <2>1 DEF TypeOK
  <2>3. \A i \in Jobs : Targets(i)' = Targets(i) /\ Plan(i)' = Plan(i)
    BY <1>1, LoadStable
  <2>4. \A i \in Jobs : todo'[i] \in Seq(Targets(i)) /\ Len(todo'[i]) <= Len(Plan(i))
    BY <1>2, <2>1, <2>2 DEF TypeOK
  <2> QED BY <2>2, <2>3, <2>4
<1>10. TypeOK'
  <2>1. linked' \in BOOLEAN /\ faults' \in 0 .. MaxFaults
    BY <1>2, RequestFacts DEF WriteFails
  <2> QED BY <1>1, <1>2, <1>4, <1>5, <1>8, <1>9, <2>1 DEF TypeOK
<1>11. PlanInv(j)' /\ ResultInv(j)'
  BY <1>1, <1>2, <1>7, <1>8, <1>9 DEF PlanInv, ResultInv
<1>12. ASSUME sole = j PROVE DeviceInv(j)' /\ work'[j] \notin {"none", "queued"}
  <2>1. Handshake(j) => HandshakeInv(j)'
    BY <1>1, <1>2, <1>4, <1>8, <1>12 DEF DeviceInv, HandshakeInv
  <2>2. \A r \in Targets(j) \ (Done(j) \cup spoiled'[j]) : reg'[r] = saved[j][r]
    <3>1. \A r \in Targets(j) \ (Done(j) \cup spoiled[j]) : reg[r] = saved[j][r]
      BY <1>1, <1>2, <1>12 DEF DeviceInv, BackupInv
    <3> QED BY <1>2, <1>4, <1>5, <3>1
  <2>3. BackupInv(j)'
    <3>1. CASE p = "restore"
      <4>1. ToDo(j)' = Done(j)
        BY <1>6, <1>7, <1>9, <3>1 DEF ToDo
      <4> QED BY <1>1, <1>2, <1>8, <2>2, <3>1, <4>1 DEF BackupInv
    <3>2. CASE p = "rejected"
      BY <1>1, <1>2, <1>5, <1>6, <1>7, <1>8, <2>2, <3>2 DEF BackupInv
    <3> QED BY <3>1, <3>2
  <2>4. ReleaseInv(j)'
    BY <1>8 DEF ReleaseInv
  <2> QED BY <1>2, <1>8, <2>1, <2>3, <2>4 DEF DeviceInv
<1>13. \A i \in Jobs \ {j} : Same(i)
  BY <1>1, <1>5, <1>8, <1>9 DEF Same
<1>14. work[j] \in Under
  BY <1>1 DEF Under
<1> QED BY <1>1, <1>10, <1>11, <1>12, <1>13, <1>14, Frame

(* A request that gives a register a value, or leaves it in doubt.         *)
LEMMA OutcomeFacts ==
  ASSUME TypeOK, NEW j \in Jobs, NEW r \in Regs, NEW v \in Values,
         \/ RequestOk /\ Written(r, v) /\ Clear(j, r)
         \/ RequestFails /\ WrittenPerhaps(r, v) /\ Spoil(j, r)
  PROVE  /\ linked' \in BOOLEAN /\ faults' \in 0 .. MaxFaults
         /\ reg' \in [Regs -> Values] /\ \A q \in Regs : q # r => reg'[q] = reg[q]
         /\ reg'[r] = v \/ r \in spoiled'[j]
         /\ spoiled' \in [Jobs -> SUBSET Regs]
         /\ \A q \in spoiled[j] : q # r => q \in spoiled'[j]
         /\ \A i \in Jobs \ {j} : spoiled'[i] = spoiled[i]
         /\ ack' \in {"none", "done", "refused"}
         /\ carried' \subseteq Jobs /\ carried \subseteq carried'
         /\ v = 0 => ack' \in {ack, "none"}
<1>1. linked' \in BOOLEAN /\ faults' \in 0 .. MaxFaults
  BY RequestFacts
<1>2. CASE RequestOk /\ Written(r, v) /\ Clear(j, r)
  <2>1. /\ spoiled' \in [Jobs -> SUBSET Regs] /\ spoiled'[j] = spoiled[j] \ {r}
        /\ \A i \in Jobs \ {j} : spoiled'[i] = spoiled[i]
    BY <1>2 DEF Clear, TypeOK
  <2>2. v = 0 => ack' \in {ack, "none"}
    BY <1>2, WrittenFacts
  <2> QED BY <1>1, <1>2, <2>1, <2>2, WrittenFacts
<1>3. CASE RequestFails /\ WrittenPerhaps(r, v) /\ Spoil(j, r)
  <2>1. /\ spoiled' \in [Jobs -> SUBSET Regs] /\ spoiled'[j] = spoiled[j] \cup {r}
        /\ \A i \in Jobs \ {j} : spoiled'[i] = spoiled[i]
    BY <1>3 DEF Spoil, TypeOK
  <2> QED BY <1>1, <1>3, <2>1, WrittenPerhapsFacts
<1> QED BY <1>2, <1>3

(* A register is put back: what is left to do, and what is in doubt, are   *)
(* the only ones that may not have their old value.                        *)
LEMMA RestoreKeeps ==
  ASSUME IInv, NEW j \in Jobs, Restore(j)
  PROVE  IInv'
<1> DEFINE h == Head(todo[j])
<1>1. /\ work[j] = "restore" /\ Advance(j, "rejected", << >>)
      /\ load' = load /\ life' = life /\ call' = call /\ saved' = saved /\ valid' = valid
      /\ audit' = audit /\ result' = result /\ stalled' = stalled /\ sole' = sole
  BY DEF Restore
<1>2. /\ TypeOK /\ PlanInv(j) /\ ResultInv(j) /\ (sole = j => Alone(j) /\ DeviceInv(j))
      /\ Plan(j)' = Plan(j) /\ Targets(j)' = Targets(j) /\ Released(j)' = Released(j)
      /\ (Handshake(j)' <=> Handshake(j)) /\ Targets(j) \subseteq Regs
      /\ Len(Plan(j)) \in Nat
  BY <1>1, JobFacts
<1>3. todo[j] # << >> /\ load[j].atomic
  BY <1>1, <1>2 DEF PlanInv
<1>4. << >> \in Seq(Targets(j)) /\ Len(<< >>) <= Len(Plan(j)) /\ "rejected" \in Under
  <2>1. Len(<< >>) = 0
    OBVIOUS
  <2> QED BY <1>2, <2>1 DEF Under
<1>5. /\ h \in Regs /\ h \in Targets(j)
      /\ work' \in [Jobs -> {"none", "queued"} \cup Under \cup Over]
      /\ todo' \in [Jobs -> Seq(Regs)]
      /\ \A i \in Jobs : todo'[i] \in Seq(Targets(i)') /\ Len(todo'[i]) <= Len(Plan(i)')
      /\ \A i \in Jobs \ {j} : todo'[i] = todo[i] /\ work'[i] = work[i]
      /\ \/ /\ work'[j] = "restore" /\ todo'[j] # << >>
            /\ ToDo(j) = {h} \cup ToDo(j)'
         \/ /\ work'[j] = "rejected" /\ ToDo(j) = {h}
  BY <1>1, <1>2, <1>3, <1>4, AdvanceFacts
<1> DEFINE v == saved[j][h]
<1>6. v \in Values
  BY <1>2, <1>5 DEF TypeOK
<1>7. \/ RequestOk /\ Written(h, v) /\ Clear(j, h)
      \/ RequestFails /\ WrittenPerhaps(h, v) /\ Spoil(j, h)
  BY DEF Restore
<1> HIDE DEF h, v
<1>8. /\ linked' \in BOOLEAN /\ faults' \in 0 .. MaxFaults
      /\ reg' \in [Regs -> Values] /\ \A q \in Regs : q # h => reg'[q] = reg[q]
      /\ reg'[h] = v \/ h \in spoiled'[j]
      /\ spoiled' \in [Jobs -> SUBSET Regs]
      /\ \A q \in spoiled[j] : q # h => q \in spoiled'[j]
      /\ \A i \in Jobs \ {j} : spoiled'[i] = spoiled[i]
      /\ ack' \in {"none", "done", "refused"}
      /\ carried' \subseteq Jobs /\ carried \subseteq carried'
  BY <1>2, <1>5, <1>6, <1>7, OutcomeFacts
<1>9. TypeOK'
  BY <1>1, <1>2, <1>5, <1>8 DEF TypeOK
<1>10. PlanInv(j)' /\ ResultInv(j)'
  BY <1>1, <1>2, <1>3, <1>5 DEF PlanInv, ResultInv
<1>11. ASSUME sole = j PROVE DeviceInv(j)' /\ work'[j] \notin {"none", "queued"}
  <2>1. Handshake(j) => HandshakeInv(j)'
    BY <1>1, <1>2, <1>5, <1>8, <1>11 DEF DeviceInv, HandshakeInv
  <2>2. \A r \in Targets(j) \ (ToDo(j) \cup spoiled[j]) : reg[r] = saved[j][r]
    BY <1>1, <1>2, <1>11 DEF DeviceInv, BackupInv
  <2>3. ASSUME NEW r \in Targets(j) \ spoiled'[j], r \notin ToDo(j) \ {h}
        PROVE  reg'[r] = saved[j][r]
    <3>1. CASE r = h
      BY <1>8, <2>3, <3>1 DEF v
    <3>2. CASE r # h
      BY <1>2, <1>8, <2>2, <2>3, <3>2
    <3> QED BY <3>1, <3>2
  <2>4. BackupInv(j)'
    <3>1. CASE work'[j] = "restore" /\ ToDo(j) = {h} \cup ToDo(j)'
      <4>1. \A r \in Targets(j) \ (ToDo(j)' \cup spoiled'[j]) : reg'[r] = saved[j][r]
        BY <2>3, <3>1
      <4> QED BY <1>1, <1>2, <3>1, <4>1 DEF BackupInv
    <3>2. CASE work'[j] = "rejected" /\ ToDo(j) = {h}
      <4>1. \A r \in Targets(j) \ spoiled'[j] : reg'[r] = saved[j][r]
        BY <2>3, <3>2
      <4> QED BY <1>1, <1>2, <1>3, <3>2, <4>1 DEF BackupInv
    <3> QED BY <1>5, <3>1, <3>2
  <2>5. ReleaseInv(j)'
    BY <1>5 DEF ReleaseInv
  <2> QED BY <1>2, <1>5, <2>1, <2>4, <2>5 DEF DeviceInv
<1>12. \A i \in Jobs \ {j} : Same(i)
  BY <1>1, <1>5, <1>8 DEF Same
<1>13. work[j] \in Under
  BY <1>1 DEF Under
<1> QED BY <1>1, <1>9, <1>10, <1>11, <1>12, <1>13, Frame

(* A momentary output goes back to 0: so are all of them after the last.   *)
LEMMA PulseResetKeeps ==
  ASSUME IInv, NEW j \in Jobs, PulseReset(j)
  PROVE  IInv'
<1> DEFINE h == Head(todo[j])
<1>1. /\ work[j] = "pulse" /\ Advance(j, "reading", << >>)
      /\ load' = load /\ life' = life /\ call' = call /\ saved' = saved /\ valid' = valid
      /\ audit' = audit /\ result' = result /\ stalled' = stalled /\ sole' = sole
  BY DEF PulseReset
<1>2. /\ TypeOK /\ PlanInv(j) /\ ResultInv(j) /\ (sole = j => Alone(j) /\ DeviceInv(j))
      /\ Plan(j)' = Plan(j) /\ Targets(j)' = Targets(j) /\ Released(j)' = Released(j)
      /\ (Handshake(j)' <=> Handshake(j)) /\ Targets(j) \subseteq Regs
      /\ Len(Plan(j)) \in Nat /\ j # 0 /\ 0 \in Values
  BY <1>1, JobFacts
<1>3. todo[j] # << >>
  BY <1>1, <1>2 DEF PlanInv
<1>4. << >> \in Seq(Targets(j)) /\ Len(<< >>) <= Len(Plan(j)) /\ "reading" \in Under
  <2>1. Len(<< >>) = 0
    OBVIOUS
  <2> QED BY <1>2, <2>1 DEF Under
<1>5. /\ h \in Regs /\ h \in Targets(j)
      /\ work' \in [Jobs -> {"none", "queued"} \cup Under \cup Over]
      /\ todo' \in [Jobs -> Seq(Regs)]
      /\ \A i \in Jobs : todo'[i] \in Seq(Targets(i)') /\ Len(todo'[i]) <= Len(Plan(i)')
      /\ \A i \in Jobs \ {j} : todo'[i] = todo[i] /\ work'[i] = work[i]
      /\ \/ /\ work'[j] = "pulse" /\ todo'[j] # << >>
            /\ ToDo(j) = {h} \cup ToDo(j)'
         \/ /\ work'[j] = "reading" /\ ToDo(j) = {h}
  BY <1>1, <1>2, <1>3, <1>4, AdvanceFacts
<1>6. RequestOk /\ Written(h, 0) /\ Clear(j, h)
  BY DEF PulseReset
<1> HIDE DEF h
<1>7. /\ linked' \in BOOLEAN /\ faults' \in 0 .. MaxFaults
      /\ reg' \in [Regs -> Values] /\ \A q \in Regs : q # h => reg'[q] = reg[q]
      /\ reg'[h] = 0 \/ h \in spoiled'[j]
      /\ spoiled' \in [Jobs -> SUBSET Regs]
      /\ \A q \in spoiled[j] : q # h => q \in spoiled'[j]
      /\ \A i \in Jobs \ {j} : spoiled'[i] = spoiled[i]
      /\ ack' \in {"none", "done", "refused"}
      /\ carried' \subseteq Jobs /\ carried \subseteq carried'
      /\ ack' \in {ack, "none"}
  BY <1>2, <1>5, <1>6, OutcomeFacts
<1>8. TypeOK'
  BY <1>1, <1>2, <1>5, <1>7 DEF TypeOK
<1>9. PlanInv(j)' /\ ResultInv(j)'
  BY <1>1, <1>2, <1>5 DEF PlanInv, ResultInv
<1>10. ASSUME sole = j PROVE DeviceInv(j)' /\ work'[j] \notin {"none", "queued"}
  <2>1. Handshake(j) => HandshakeInv(j)'
    BY <1>1, <1>2, <1>5, <1>7, <1>10 DEF DeviceInv, HandshakeInv
  <2>2. \A r \in Targets(j) \ (ToDo(j) \cup spoiled[j]) : reg[r] = 0
    BY <1>1, <1>2, <1>10 DEF DeviceInv, ReleaseInv
  <2>3. ASSUME NEW r \in Targets(j) \ spoiled'[j], r \notin ToDo(j) \ {h}
        PROVE  reg'[r] = 0
    <3>1. CASE r = h
      BY <1>7, <2>3, <3>1
    <3>2. CASE r # h
      BY <1>2, <1>7, <2>2, <2>3, <3>2
    <3> QED BY <3>1, <3>2
  <2>4. ReleaseInv(j)'
    <3>1. CASE work'[j] = "pulse" /\ ToDo(j) = {h} \cup ToDo(j)'
      <4>1. \A r \in Targets(j) \ (ToDo(j)' \cup spoiled'[j]) : reg'[r] = 0
        BY <2>3, <3>1
      <4> QED BY <1>2, <3>1, <4>1 DEF ReleaseInv
    <3>2. CASE work'[j] = "reading" /\ ToDo(j) = {h}
      <4>1. \A r \in Targets(j) \ spoiled'[j] : reg'[r] # j
        BY <1>2, <2>3, <3>2
      <4> QED BY <1>2, <3>2, <4>1 DEF ReleaseInv
    <3> QED BY <1>5, <3>1, <3>2
  <2>5. BackupInv(j)'
    BY <1>5 DEF BackupInv
  <2> QED BY <1>2, <1>5, <2>1, <2>4, <2>5 DEF DeviceInv
<1>11. \A i \in Jobs \ {j} : Same(i)
  BY <1>1, <1>5, <1>7 DEF Same
<1>12. work[j] \in Under
  BY <1>1 DEF Under
<1> QED BY <1>1, <1>8, <1>9, <1>10, <1>11, <1>12, Frame

(* The reset fails: every output that was still to be reset is in doubt.   *)
LEMMA PulseResetFailsKeeps ==
  ASSUME IInv, NEW j \in Jobs, PulseResetFails(j)
  PROVE  IInv'
<1> DEFINE h == Head(todo[j])
<1>1. /\ work[j] = "pulse" /\ Goto(j, "reading") /\ todo' = [todo EXCEPT ![j] = << >>]
      /\ load' = load /\ life' = life /\ call' = call /\ saved' = saved /\ valid' = valid
      /\ audit' = audit /\ result' = result /\ stalled' = stalled /\ sole' = sole
      /\ spoiled' = [spoiled EXCEPT ![j] = @ \cup {todo[j][k] : k \in 1 .. Len(todo[j])}]
      /\ RequestFails /\ WrittenPerhaps(h, 0)
  BY DEF PulseResetFails
<1>2. /\ TypeOK /\ PlanInv(j) /\ ResultInv(j) /\ (sole = j => Alone(j) /\ DeviceInv(j))
      /\ Plan(j)' = Plan(j) /\ Targets(j)' = Targets(j) /\ Released(j)' = Released(j)
      /\ (Handshake(j)' <=> Handshake(j)) /\ Targets(j) \subseteq Regs
      /\ Len(Plan(j)) \in Nat /\ j # 0 /\ 0 \in Values /\ todo[j] \in Seq(Targets(j))
  BY <1>1, JobFacts
<1>3. h \in Targets(j) /\ h \in Regs /\ h \in ToDo(j)
  <2>1. todo[j] # << >>
    BY <1>1, <1>2 DEF PlanInv
  <2> QED BY <1>2, <2>1, HeadFacts DEF ToDo
<1>4. ToDo(j) = {todo[j][k] : k \in 1 .. Len(todo[j])} /\ ToDo(j) \subseteq Regs
  BY <1>2, RangeEquality, RangeOfSeq DEF ToDo
<1>5. /\ reg' \in [Regs -> Values] /\ \A q \in Regs : q # h => reg'[q] = reg[q]
      /\ ack' \in {"none", "done", "refused"} /\ carried' \subseteq Jobs /\ carried \subseteq carried'
      /\ ack' \in {ack, "none"}
  BY <1>1, <1>2, <1>3, WrittenPerhapsFacts
<1>6. /\ spoiled' \in [Jobs -> SUBSET Regs]
      /\ spoiled'[j] = spoiled[j] \cup ToDo(j) /\ \A i \in Jobs \ {j} : spoiled'[i] = spoiled[i]
  BY <1>1, <1>2, <1>4 DEF TypeOK
<1> HIDE DEF h
<1>7. /\ work' \in [Jobs -> {"none", "queued"} \cup Under \cup Over] /\ work'[j] = "reading"
      /\ \A i \in Jobs \ {j} : work'[i] = work[i]
  BY <1>1, <1>2 DEF Goto, TypeOK, Under
<1>8. /\ todo' \in [Jobs -> Seq(Regs)] /\ todo'[j] = << >>
      /\ \A i \in Jobs \ {j} : todo'[i] = todo[i]
  BY <1>1, <1>2 DEF TypeOK
<1>9. \A i \in Jobs : todo'[i] \in Seq(Targets(i)') /\ Len(todo'[i]) <= Len(Plan(i)')
  <2>1. \A i \in Jobs : Targets(i)' = Targets(i) /\ Plan(i)' = Plan(i)
    BY <1>1, LoadStable
  <2>2. << >> \in Seq(Targets(j)) /\ Len(<< >>) <= Len(Plan(j))
    <3>1. Len(<< >>) = 0
      OBVIOUS
    <3> QED BY <1>2, <3>1
  <2> QED BY <1>2, <1>8, <2>1, <2>2 DEF TypeOK
<1>10. TypeOK'
  <2>1. linked' \in BOOLEAN /\ faults' \in 0 .. MaxFaults
    BY <1>1, <1>2, RequestFacts
  <2> QED BY <1>1, <1>2, <1>5, <1>6, <1>7, <1>8, <1>9, <2>1 DEF TypeOK
<1>11. PlanInv(j)' /\ ResultInv(j)'
  BY <1>1, <1>2, <1>7 DEF PlanInv, ResultInv
<1>12. ASSUME sole = j PROVE DeviceInv(j)' /\ work'[j] \notin {"none", "queued"}
  <2>1. Handshake(j) => HandshakeInv(j)'
    BY <1>1, <1>2, <1>5, <1>7, <1>12 DEF DeviceInv, HandshakeInv
  <2>2. ReleaseInv(j)'
    <3>1. \A r \in Targets(j) \ (ToDo(j) \cup spoiled[j]) : reg[r] = 0
      BY <1>1, <1>2, <1>12 DEF DeviceInv, ReleaseInv
    <3>2. \A r \in Targets(j) \ spoiled'[j] : reg'[r] # j
      BY <1>2, <1>3, <1>5, <1>6, <3>1
    <3> QED BY <1>2, <1>7, <3>2 DEF ReleaseInv
  <2>3. BackupInv(j)'
    BY <1>7 DEF BackupInv
  <2> QED BY <1>2, <1>7, <2>1, <2>2, <2>3 DEF DeviceInv
<1>13. \A i \in Jobs \ {j} : Same(i)
  BY <1>1, <1>6, <1>7, <1>8 DEF Same
<1>14. work[j] \in Under
  BY <1>1 DEF Under
<1> QED BY <1>1, <1>10, <1>11, <1>12, <1>13, <1>14, Frame

(* The verdict: the device says done only for a command it has accepted.   *)
LEMMA ValidateKeeps ==
  ASSUME IInv, NEW j \in Jobs, Validate(j)
  PROVE  IInv'
<1>1. /\ work[j] = "reading" /\ work' = [work EXCEPT ![j] = "audit"]
      /\ load' = load /\ life' = life /\ linked' = linked /\ call' = call /\ todo' = todo
      /\ saved' = saved /\ spoiled' = spoiled /\ audit' = audit /\ result' = result
      /\ stalled' = stalled /\ sole' = sole /\ faults' = faults
      /\ reg' = reg /\ ack' = ack /\ carried' = carried
  BY DEF Validate, Goto, deviceVars
<1>2. /\ TypeOK /\ PlanInv(j) /\ ResultInv(j) /\ (sole = j => Alone(j) /\ DeviceInv(j))
      /\ Plan(j)' = Plan(j) /\ Targets(j)' = Targets(j) /\ Released(j)' = Released(j)
      /\ (Handshake(j)' <=> Handshake(j))
  BY <1>1, JobFacts
<1>3. PICK b \in BOOLEAN : /\ valid' = [valid EXCEPT ![j] = b]
                           /\ b /\ load[j].validate = "ack" => ack = "done"
  <2>1. CASE ReadBack(j) /\ valid' = [valid EXCEPT ![j] = TRUE]
    BY <2>1 DEF ReadBack
  <2>2. CASE valid' = [valid EXCEPT ![j] = load[j].validate = "none"]
    <3>1. CASE load[j].validate = "none"
      BY <2>2, <3>1
    <3>2. CASE load[j].validate # "none"
      <4>1. valid' = [valid EXCEPT ![j] = FALSE]
        BY <2>2, <3>2
      <4> QED BY <4>1
    <3> QED BY <3>1, <3>2
  <2> QED BY <2>1, <2>2 DEF Validate
<1>4. /\ valid' \in [Jobs -> BOOLEAN] /\ (valid'[j] <=> b)
      /\ \A i \in Jobs \ {j} : valid'[i] = valid[i]
  BY <1>2, <1>3 DEF TypeOK
<1>5. /\ work' \in [Jobs -> {"none", "queued"} \cup Under \cup Over] /\ work'[j] = "audit"
      /\ \A i \in Jobs \ {j} : work'[i] = work[i]
  BY <1>1, <1>2 DEF TypeOK, Under
<1>6. \A i \in Jobs : Targets(i)' = Targets(i) /\ Plan(i)' = Plan(i)
  BY <1>1, LoadStable
<1>7. TypeOK'
  BY <1>1, <1>2, <1>4, <1>5, <1>6 DEF TypeOK
<1>8. PlanInv(j)' /\ ResultInv(j)'
  BY <1>1, <1>2, <1>5 DEF PlanInv, ResultInv
<1>9. ASSUME sole = j PROVE DeviceInv(j)' /\ work'[j] \notin {"none", "queued"}
  <2>1. Handshake(j) => HandshakeInv(j)'
    BY <1>1, <1>2, <1>3, <1>4, <1>5, <1>9 DEF DeviceInv, HandshakeInv, Handshake
  <2>2. BackupInv(j)' /\ ReleaseInv(j)'
    BY <1>1, <1>2, <1>5, <1>9 DEF DeviceInv, BackupInv, ReleaseInv
  <2> QED BY <1>2, <1>5, <2>1, <2>2 DEF DeviceInv
<1>10. \A i \in Jobs \ {j} : Same(i)
  BY <1>1, <1>4, <1>5 DEF Same
<1>11. work[j] \in Under
  BY <1>1 DEF Under
<1> QED BY <1>1, <1>7, <1>8, <1>9, <1>10, <1>11, Frame

(* A record is kept, or the job fails.                                     *)
LEMMA AuditKeeps ==
  ASSUME IInv, NEW j \in Jobs, Audit(j)
  PROVE  IInv'
<1>1. /\ work[j] \in {"rejected", "audit"}
      /\ load' = load /\ life' = life /\ linked' = linked /\ call' = call /\ todo' = todo
      /\ saved' = saved /\ spoiled' = spoiled /\ valid' = valid
      /\ stalled' = stalled /\ sole' = sole
      /\ reg' = reg /\ ack' = ack /\ carried' = carried
  BY DEF Audit, deviceVars
<1>2. /\ TypeOK /\ PlanInv(j) /\ ResultInv(j) /\ (sole = j => Alone(j) /\ DeviceInv(j))
      /\ Plan(j)' = Plan(j) /\ Targets(j)' = Targets(j) /\ Released(j)' = Released(j)
      /\ (Handshake(j)' <=> Handshake(j))
  BY <1>1, JobFacts
<1> DEFINE verdict == IF valid[j] THEN "executed" ELSE "rejected"
<1>3. \/ /\ work' = [work EXCEPT ![j] = "finalize"] /\ result' = result
         /\ audit' = [audit EXCEPT ![j] = verdict] /\ work[j] = "audit"
      \/ /\ work' = [work EXCEPT ![j] = "done"] /\ result' = [result EXCEPT ![j] = Verdict(j)]
         /\ audit' = [audit EXCEPT ![j] = verdict] /\ (work[j] = "rejected" \/ ~load[j].finalize)
      \/ /\ work' = [work EXCEPT ![j] = "failed"] /\ result' = result /\ audit' = audit
  BY <1>1 DEF Audit, Goto
<1>4. verdict \in {"executed", "rejected"} /\ (verdict = "executed" => valid[j])
      /\ (valid[j] => verdict = "executed")
  OBVIOUS
<1> HIDE DEF verdict
<1>5. Verdict(j) \in {"success", "failure"} /\ (Verdict(j) = "success" => valid[j])
  BY DEF Verdict
<1>6. PICK p \in {"finalize", "done", "failed"} : work' = [work EXCEPT ![j] = p]
  BY <1>3
<1>7. /\ work' \in [Jobs -> {"none", "queued"} \cup Under \cup Over] /\ work'[j] = p
      /\ \A i \in Jobs \ {j} : work'[i] = work[i]
  BY <1>2, <1>6 DEF TypeOK, Under, Over
<1>8. /\ audit' \in [Jobs -> {"none", "executed", "rejected"}]
      /\ \A i \in Jobs \ {j} : audit'[i] = audit[i]
      /\ audit'[j] \in {audit[j], verdict} /\ (p # "failed" => audit'[j] = verdict)
  <2>1. CASE audit' = [audit EXCEPT ![j] = verdict]
    BY <1>2, <1>4, <2>1 DEF TypeOK
  <2>2. CASE audit' = audit /\ work' = [work EXCEPT ![j] = "failed"]
    <3>1. p = "failed"
      BY <1>2, <1>7, <2>2 DEF TypeOK
    <3> QED BY <1>2, <2>2, <3>1 DEF TypeOK
  <2> QED BY <1>3, <2>1, <2>2
<1>9. /\ result' \in [Jobs -> {"none", "success", "failure", "undefined"}]
      /\ \A i \in Jobs \ {j} : result'[i] = result[i]
      /\ p # "done" => result'[j] = result[j]
      /\ p = "done" => result'[j] = Verdict(j) /\ (work[j] = "rejected" \/ ~load[j].finalize)
  <2>1. CASE /\ work' = [work EXCEPT ![j] = "done"] /\ result' = [result EXCEPT ![j] = Verdict(j)]
             /\ (work[j] = "rejected" \/ ~load[j].finalize)
    <3>1. p = "done"
      BY <1>2, <1>7, <2>1 DEF TypeOK
    <3> QED BY <1>2, <1>5, <2>1, <3>1 DEF TypeOK
  <2>2. CASE work' # [work EXCEPT ![j] = "done"] /\ result' = result
    <3>1. p # "done"
      BY <1>6, <2>2
    <3> QED BY <1>2, <2>2, <3>1 DEF TypeOK
  <2>3. \A q \in {"finalize", "failed"} : [work EXCEPT ![j] = q] # [work EXCEPT ![j] = "done"]
    <3>1. \A q \in {"finalize", "failed"} :
            [work EXCEPT ![j] = q][j] = q /\ [work EXCEPT ![j] = "done"][j] = "done"
      BY <1>2 DEF TypeOK
    <3> QED BY <3>1
  <2> QED BY <1>3, <2>1, <2>2, <2>3
<1>10. \A i \in Jobs : Targets(i)' = Targets(i) /\ Plan(i)' = Plan(i)
  BY <1>1, LoadStable
<1>11. TypeOK'
  <2>1. faults' \in 0 .. MaxFaults
    BY <1>2, ConstantsAssumption DEF Audit, Fault, TypeOK
  <2> QED BY <1>1, <1>2, <1>7, <1>8, <1>9, <1>10, <2>1 DEF TypeOK
<1>12. PlanInv(j)'
  BY <1>1, <1>2, <1>7 DEF PlanInv
<1>13. ResultInv(j)'
  BY <1>1, <1>2, <1>4, <1>5, <1>7, <1>8, <1>9 DEF ResultInv
<1>14. ASSUME sole = j PROVE DeviceInv(j)' /\ work'[j] \notin {"none", "queued"}
  <2>1. Handshake(j) => HandshakeInv(j)'
    BY <1>1, <1>2, <1>4, <1>7, <1>8, <1>14 DEF DeviceInv, HandshakeInv
  <2>2. BackupInv(j)'
    BY <1>7 DEF BackupInv
  <2>3. ReleaseInv(j)'
    <3>1. p = "finalize" /\ load[j].pulse => \A r \in Targets(j) \ spoiled[j] : reg[r] # j
      BY <1>1, <1>2, <1>3, <1>6, <1>7, <1>14 DEF DeviceInv, ReleaseInv
    <3>2. ASSUME p = "done", load[j].atomic \/ spoiled[j] = {}, NEW r \in Released(j) \ spoiled[j]
          PROVE  reg[r] # j \/ saved[j][r] = j
      <4>1. CASE work[j] = "rejected"
        BY <1>2, <1>14, <3>2, <4>1 DEF DeviceInv, BackupInv, Released
      <4>2. CASE work[j] = "audit"
        BY <1>2, <1>9, <1>14, <3>2, <4>2 DEF DeviceInv, ReleaseInv, Released
      <4> QED BY <1>1, <4>1, <4>2
    <3> QED BY <1>1, <1>2, <1>7, <3>1, <3>2 DEF ReleaseInv
  <2> QED BY <1>2, <1>7, <2>1, <2>2, <2>3 DEF DeviceInv
<1>15. \A i \in Jobs \ {j} : Same(i)
  BY <1>1, <1>7, <1>8, <1>9 DEF Same
<1>16. work[j] \in Under
  BY <1>1 DEF Under
<1> QED BY <1>1, <1>11, <1>12, <1>13, <1>14, <1>15, <1>16, Frame

(* The mailbox is emptied, or in doubt.                                    *)
LEMMA FinalizeKeeps ==
  ASSUME IInv, NEW j \in Jobs, Finalize(j)
  PROVE  IInv'
<1>1. /\ work[j] = "finalize" /\ work' = [work EXCEPT ![j] = "done"]
      /\ result' = [result EXCEPT ![j] = Verdict(j)]
      /\ load' = load /\ life' = life /\ call' = call /\ todo' = todo
      /\ saved' = saved /\ valid' = valid /\ audit' = audit
      /\ stalled' = stalled /\ sole' = sole
  BY DEF Finalize, Goto
<1>2. /\ TypeOK /\ PlanInv(j) /\ ResultInv(j) /\ (sole = j => Alone(j) /\ DeviceInv(j))
      /\ Plan(j)' = Plan(j) /\ Targets(j)' = Targets(j) /\ Released(j)' = Released(j)
      /\ (Handshake(j)' <=> Handshake(j)) /\ Targets(j) \subseteq Regs
      /\ j # 0 /\ 0 \in Values /\ Box \in Regs
  BY <1>1, JobFacts
<1>3. /\ linked' \in BOOLEAN /\ faults' \in 0 .. MaxFaults
      /\ reg' \in [Regs -> Values] /\ \A q \in Regs : q # Box => reg'[q] = reg[q]
      /\ reg'[Box] = 0 \/ Box \in spoiled'[j]
      /\ spoiled' \in [Jobs -> SUBSET Regs]
      /\ \A q \in spoiled[j] : q # Box => q \in spoiled'[j]
      /\ \A i \in Jobs \ {j} : spoiled'[i] = spoiled[i]
      /\ ack' \in {"none", "done", "refused"}
      /\ carried' \subseteq Jobs /\ carried \subseteq carried'
  <2>1. \/ RequestOk /\ Written(Box, 0) /\ Clear(j, Box)
        \/ RequestFails /\ WrittenPerhaps(Box, 0) /\ Spoil(j, Box)
    BY DEF Finalize
  <2> QED BY <1>2, <2>1, OutcomeFacts
<1>4. Verdict(j) \in {"success", "failure"} /\ (Verdict(j) = "success" => valid[j])
  BY DEF Verdict
<1>5. /\ work' \in [Jobs -> {"none", "queued"} \cup Under \cup Over] /\ work'[j] = "done"
      /\ \A i \in Jobs \ {j} : work'[i] = work[i]
  BY <1>1, <1>2 DEF TypeOK, Over
<1>6. /\ result' \in [Jobs -> {"none", "success", "failure", "undefined"}]
      /\ result'[j] = Verdict(j) /\ \A i \in Jobs \ {j} : result'[i] = result[i]
  BY <1>1, <1>2, <1>4 DEF TypeOK
<1>7. \A i \in Jobs : Targets(i)' = Targets(i) /\ Plan(i)' = Plan(i)
  BY <1>1, LoadStable
<1>8. TypeOK'
  BY <1>1, <1>2, <1>3, <1>5, <1>6, <1>7 DEF TypeOK
<1>9. PlanInv(j)' /\ ResultInv(j)'
  BY <1>1, <1>2, <1>4, <1>5, <1>6 DEF PlanInv, ResultInv
<1>10. ASSUME sole = j PROVE DeviceInv(j)' /\ work'[j] \notin {"none", "queued"}
  <2>1. Handshake(j) => HandshakeInv(j)'
    BY <1>1, <1>2, <1>3, <1>5, <1>10 DEF DeviceInv, HandshakeInv
  <2>2. BackupInv(j)'
    BY <1>5 DEF BackupInv
  <2>3. ReleaseInv(j)'
    <3>1. ASSUME load[j].atomic \/ spoiled'[j] = {}, NEW r \in Released(j) \ spoiled'[j]
          PROVE  reg'[r] # j
      <4>1. r \in Targets(j) /\ r \in Regs /\ (r # Box => load[j].pulse)
        BY <1>2, <3>1 DEF Released
      <4>2. CASE r = Box
        BY <1>2, <1>3, <3>1, <4>2
      <4>3. CASE r # Box
        BY <1>1, <1>2, <1>3, <1>10, <3>1, <4>1, <4>3 DEF DeviceInv, ReleaseInv
      <4> QED BY <4>2, <4>3
    <3> QED BY <1>1, <1>2, <1>5, <3>1 DEF ReleaseInv
  <2> QED BY <1>2, <1>5, <2>1, <2>2, <2>3 DEF DeviceInv
<1>11. \A i \in Jobs \ {j} : Same(i)
  BY <1>1, <1>3, <1>5, <1>6 DEF Same
<1>12. work[j] \in Under
  BY <1>1 DEF Under
<1> QED BY <1>1, <1>8, <1>9, <1>10, <1>11, <1>12, Frame

(* What the caller is told: it hears of success only from a job that is    *)
(* done.                                                                   *)
LEMMA CallKeeps ==
  ASSUME IInv, NEW j \in Jobs, call[j] # "idle",
         NEW c \in {"success", "failure"}, call' = [call EXCEPT ![j] = c],
         c = "success" => work[j] = "done" /\ result[j] # "failure",
         UNCHANGED <<load, life, linked, work, todo, saved, spoiled, valid, audit, result, stalled,
                     deviceVars, sole, faults>>
  PROVE  IInv'
<1>1. /\ load' = load /\ life' = life /\ linked' = linked /\ work' = work /\ todo' = todo
      /\ saved' = saved /\ spoiled' = spoiled /\ valid' = valid /\ audit' = audit
      /\ result' = result /\ stalled' = stalled /\ sole' = sole /\ faults' = faults
      /\ reg' = reg /\ ack' = ack /\ carried' = carried
  BY DEF deviceVars
<1>2. TypeOK /\ PlanInv(j) /\ ResultInv(j) /\ (sole = j => Alone(j) /\ DeviceInv(j))
  BY <1>1, JobFacts
<1>3. /\ call' \in [Jobs -> {"idle", "waiting", "success", "failure"}] /\ call'[j] = c
      /\ \A i \in Jobs \ {j} : call'[i] = call[i]
  BY <1>2 DEF TypeOK
<1>4. \A i \in Jobs : Targets(i)' = Targets(i) /\ Plan(i)' = Plan(i)
  BY <1>1, LoadStable
<1>5. TypeOK'
  BY <1>1, <1>2, <1>3, <1>4 DEF TypeOK
<1>6. PlanInv(j)'
  BY <1>1, <1>2, OwnInvariants
<1>7. ResultInv(j)'
  BY <1>1, <1>2, <1>3 DEF ResultInv
<1>8. ASSUME sole = j PROVE DeviceInv(j)' /\ work'[j] \notin {"none", "queued"}
  <2>1. Alone(j) /\ DeviceInv(j)
    BY <1>2, <1>8
  <2>2. DeviceInv(j)'
    BY <1>1, <2>1, OwnInvariants DEF deviceVars
  <2> QED BY <1>1, <2>1, <2>2 DEF Alone
<1>9. \A i \in Jobs \ {j} : Same(i)
  BY <1>1, <1>3 DEF Same
<1> QED BY <1>1, <1>5, <1>6, <1>7, <1>8, <1>9, Frame DEF deviceVars

LEMMA AnswerKeeps ==
  ASSUME IInv, NEW j \in Jobs, Answer(j)
  PROVE  IInv'
<1> DEFINE c == IF work[j] = "failed" \/ result[j] = "failure" THEN "failure" ELSE "success"
<1>1. c \in {"success", "failure"}
      /\ (c = "success" => work[j] = "done" /\ result[j] # "failure")
  BY DEF Answer, Over
<1>2. call[j] # "idle" /\ call' = [call EXCEPT ![j] = c]
  BY DEF Answer
<1> HIDE DEF c
<1> QED BY <1>1, <1>2, CallKeeps DEF Answer

LEMMA CallerTimesOutKeeps ==
  ASSUME IInv, NEW j \in Jobs, CallerTimesOut(j)
  PROVE  IInv'
<1>1. call[j] # "idle" /\ call' = [call EXCEPT ![j] = "failure"]
  BY DEF CallerTimesOut
<1> DEFINE c == "failure"
<1>2. c \in {"success", "failure"} /\ c # "success"
  OBVIOUS
<1>3. call' = [call EXCEPT ![j] = c]
  BY <1>1
<1> HIDE DEF c
<1> QED BY <1>1, <1>2, <1>3, CallKeeps DEF CallerTimesOut

(* A job that has not begun yet is not the one that has the device.        *)
LEMMA SubmitKeeps ==
  ASSUME IInv, NEW j \in Jobs, Submit(j)
  PROVE  IInv'
<1>1. /\ load' = load /\ life' = life /\ linked' = linked /\ todo' = todo
      /\ saved' = saved /\ spoiled' = spoiled /\ valid' = valid /\ audit' = audit
      /\ result' = result /\ stalled' = stalled /\ sole' = sole /\ faults' = faults
      /\ reg' = reg /\ ack' = ack /\ carried' = carried /\ call[j] = "idle"
      /\ call' = [call EXCEPT ![j] = "waiting"] /\ work' = [work EXCEPT ![j] = "queued"]
  BY DEF Submit, deviceVars
<1>2. TypeOK /\ PlanInv(j) /\ ResultInv(j) /\ (sole = j => Alone(j) /\ DeviceInv(j))
  BY <1>1, JobFacts
<1>3. /\ call' \in [Jobs -> {"idle", "waiting", "success", "failure"}] /\ call'[j] = "waiting"
      /\ \A i \in Jobs \ {j} : call'[i] = call[i]
  BY <1>1, <1>2 DEF TypeOK
<1>4. /\ work' \in [Jobs -> {"none", "queued"} \cup Under \cup Over] /\ work'[j] = "queued"
      /\ \A i \in Jobs \ {j} : work'[i] = work[i]
  BY <1>1, <1>2 DEF TypeOK
<1>5. \A i \in Jobs : Targets(i)' = Targets(i) /\ Plan(i)' = Plan(i)
  BY <1>1, LoadStable
<1>6. TypeOK'
  BY <1>1, <1>2, <1>3, <1>4, <1>5 DEF TypeOK
<1>7. work[j] = "none"
  BY <1>1, <1>2 DEF ResultInv
<1>8. PlanInv(j)' /\ ResultInv(j)'
  BY <1>1, <1>2, <1>3, <1>4, <1>7 DEF PlanInv, ResultInv
<1>9. sole # j
  BY <1>2, <1>7 DEF Alone
<1>10. \A i \in Jobs \ {j} : Same(i)
  BY <1>1, <1>3, <1>4 DEF Same
<1>11. UNCHANGED deviceVars /\ work'[j] \notin Under
  BY <1>1, <1>4 DEF deviceVars, Under
<1> QED BY <1>1, <1>6, <1>8, <1>9, <1>10, <1>11, Frame

LEMMA DroppedKeeps ==
  ASSUME IInv, NEW j \in Jobs, Dropped(j)
  PROVE  IInv'
<1>1. /\ load' = load /\ life' = life /\ linked' = linked /\ todo' = todo /\ call' = call
      /\ saved' = saved /\ spoiled' = spoiled /\ valid' = valid /\ audit' = audit
      /\ stalled' = stalled /\ sole' = sole /\ faults' = faults
      /\ reg' = reg /\ ack' = ack /\ carried' = carried /\ work[j] = "queued"
      /\ result' = [result EXCEPT ![j] = "undefined"] /\ work' = [work EXCEPT ![j] = "done"]
  BY DEF Dropped, Goto, deviceVars
<1>2. TypeOK /\ PlanInv(j) /\ ResultInv(j) /\ (sole = j => Alone(j) /\ DeviceInv(j))
  BY <1>1, JobFacts
<1>3. /\ result' \in [Jobs -> {"none", "success", "failure", "undefined"}]
      /\ result'[j] = "undefined" /\ \A i \in Jobs \ {j} : result'[i] = result[i]
  BY <1>1, <1>2 DEF TypeOK
<1>4. /\ work' \in [Jobs -> {"none", "queued"} \cup Under \cup Over] /\ work'[j] = "done"
      /\ \A i \in Jobs \ {j} : work'[i] = work[i]
  BY <1>1, <1>2 DEF TypeOK, Over
<1>5. \A i \in Jobs : Targets(i)' = Targets(i) /\ Plan(i)' = Plan(i)
  BY <1>1, LoadStable
<1>6. TypeOK'
  BY <1>1, <1>2, <1>3, <1>4, <1>5 DEF TypeOK
<1>7. PlanInv(j)' /\ ResultInv(j)'
  BY <1>1, <1>2, <1>3, <1>4 DEF PlanInv, ResultInv
<1>8. sole # j
  BY <1>1, <1>2 DEF Alone
<1>9. \A i \in Jobs \ {j} : Same(i)
  BY <1>1, <1>3, <1>4 DEF Same
<1>10. UNCHANGED deviceVars /\ work'[j] \notin Under
  BY <1>1, <1>4 DEF deviceVars, Under
<1> QED BY <1>1, <1>6, <1>7, <1>8, <1>9, <1>10, Frame

(* A job begins: its backup is what the device holds, and it has the       *)
(* device to itself when no other job is under way.                        *)
LEMMA BeginKeeps ==
  ASSUME IInv, NEW j \in Jobs, Begin(j)
  PROVE  IInv'
<1>1. /\ load' = load /\ life' = life /\ call' = call /\ spoiled' = spoiled /\ result' = result
      /\ stalled' = stalled /\ reg' = reg /\ ack' = ack /\ work[j] = "queued"
      /\ todo' = [todo EXCEPT ![j] = Plan(j)] /\ saved' = [saved EXCEPT ![j] = reg]
      /\ valid' = [valid EXCEPT ![j] = FALSE] /\ audit' = [audit EXCEPT ![j] = "none"]
      /\ carried' = carried \ {j} /\ sole' = IF Active = {} THEN j ELSE None
  BY DEF Begin
<1>2. /\ TypeOK /\ PlanInv(j) /\ ResultInv(j)
      /\ Plan(j)' = Plan(j) /\ Targets(j)' = Targets(j) /\ Released(j)' = Released(j)
      /\ (Handshake(j)' <=> Handshake(j)) /\ Targets(j) \subseteq Regs
      /\ Plan(j) \in Seq(Targets(j)) /\ Len(Plan(j)) \in Nat /\ Targets(j) = Range(Plan(j))
  BY <1>1, JobFacts
<1>3. PICK p \in {"write", "rejected", "reading"} :
        /\ work' = [work EXCEPT ![j] = p]
        /\ p = "write" => Plan(j) # << >>
        /\ p = "rejected" => load[j].atomic
        /\ p = "reading" => Plan(j) = << >>
  BY DEF Begin, Goto
<1>4. /\ work' \in [Jobs -> {"none", "queued"} \cup Under \cup Over] /\ work'[j] = p
      /\ \A i \in Jobs \ {j} : work'[i] = work[i]
  BY <1>2, <1>3 DEF TypeOK, Under
<1>5. /\ todo' \in [Jobs -> Seq(Regs)] /\ todo'[j] = Plan(j)
      /\ \A i \in Jobs \ {j} : todo'[i] = todo[i]
      /\ \A i \in Jobs : todo'[i] \in Seq(Targets(i)') /\ Len(todo'[i]) <= Len(Plan(i)')
  <2>1. Plan(j) \in Seq(Regs) /\ Len(Plan(j)) <= Len(Plan(j))
    BY <1>2
  <2>2. todo' \in [Jobs -> Seq(Regs)] /\ todo'[j] = Plan(j) /\ \A i \in Jobs \ {j} : todo'[i] = todo[i]
    BY <1>1, <1>2, <2>1 DEF TypeOK
  <2>3. \A i \in Jobs : Targets(i)' = Targets(i) /\ Plan(i)' = Plan(i)
    BY <1>1, LoadStable
  <2>4. \A i \in Jobs : todo'[i] \in Seq(Targets(i)) /\ Len(todo'[i]) <= Len(Plan(i))
    BY <1>2, <2>1, <2>2 DEF TypeOK
  <2> QED BY <2>2, <2>3, <2>4
<1>6. /\ saved' \in [Jobs -> [Regs -> Values]] /\ saved'[j] = reg
      /\ \A i \in Jobs \ {j} : saved'[i] = saved[i]
  BY <1>1, <1>2 DEF TypeOK
<1>7. /\ valid' \in [Jobs -> BOOLEAN] /\ ~valid'[j]
      /\ \A i \in Jobs \ {j} : valid'[i] = valid[i]
  BY <1>1, <1>2 DEF TypeOK
<1>8. /\ audit' \in [Jobs -> {"none", "executed", "rejected"}] /\ audit'[j] = "none"
      /\ \A i \in Jobs \ {j} : audit'[i] = audit[i]
  BY <1>1, <1>2 DEF TypeOK
<1>9. TypeOK'
  <2>1. linked' \in BOOLEAN /\ faults' \in 0 .. MaxFaults
    BY <1>2, RequestFacts DEF Begin, TypeOK
  <2>2. carried' \subseteq Jobs /\ sole' \in Jobs \cup {None}
    BY <1>1, <1>2 DEF TypeOK
  <2> QED BY <1>1, <1>2, <1>4, <1>5, <1>6, <1>7, <1>8, <2>1, <2>2 DEF TypeOK
<1>10. ASSUME NEW i \in Jobs PROVE PlanInv(i)' /\ ResultInv(i)'
  <2>1. CASE i = j
    <3>1. \A k \in 1 .. Len(Plan(j)) : Plan(j)[k] = Plan(j)[Len(Plan(j)) - Len(Plan(j)) + k]
      BY <1>2
    <3>2. PlanInv(j)'
      BY <1>2, <1>3, <1>4, <1>5, <3>1 DEF PlanInv
    <3>3. ResultInv(j)'
      BY <1>1, <1>2, <1>4, <1>7 DEF ResultInv
    <3> QED BY <2>1, <3>2, <3>3
  <2>2. CASE i # j
    <3>1. PlanInv(i)'
      BY <1>1, <1>4, <1>5, <2>2, OwnInvariants DEF IInv
    <3>2. ResultInv(i)'
      BY <1>1, <1>4, <1>7, <1>8, <2>2 DEF IInv, ResultInv
    <3> QED BY <3>1, <3>2
  <2> QED BY <2>1, <2>2
<1>11. ASSUME NEW i \in Jobs, sole' = i PROVE Alone(i)' /\ DeviceInv(i)'
  <2>1. i = j /\ Active = {}
    BY <1>1, <1>11, ConstantsAssumption DEF None
  <2>2. Alone(j)'
    BY <1>4, <2>1 DEF Alone, Active
  <2>3. Plan(j) = << >> => Targets(j) = {}
    BY DEF Targets
  <2>4. HandshakeInv(j)' \/ ~Handshake(j)
    <3>1. ToDo(j)' = Targets(j)
      BY <1>2, <1>5 DEF ToDo
    <3> QED BY <1>3, <1>4, <1>7, <1>8, <2>3, <3>1 DEF HandshakeInv, Handshake
  <2>5. \A r \in Targets(j) : reg'[r] = saved'[j][r]
    BY <1>1, <1>6
  <2>6. BackupInv(j)'
    BY <1>1, <1>2, <1>3, <1>4, <2>5 DEF BackupInv
  <2>7. ReleaseInv(j)'
    BY <1>1, <1>2, <1>3, <1>4, <2>3 DEF ReleaseInv
  <2> QED BY <1>2, <2>1, <2>2, <2>4, <2>6, <2>7 DEF DeviceInv
<1> QED BY <1>9, <1>10, <1>11 DEF IInv, SoleInv

(* After a crash nobody has the device to itself.                          *)
LEMMA RestartKeeps ==
  ASSUME IInv, Restart
  PROVE  IInv'
<1>1. /\ load' = load /\ call' = call /\ todo' = todo /\ saved' = saved /\ valid' = valid
      /\ audit' = audit /\ result' = result /\ reg' = reg /\ ack' = ack /\ carried' = carried
      /\ life' = "running" /\ linked' = TRUE /\ stalled' = stalled \cup Active /\ sole' = None
      /\ faults' = faults
      /\ work' = [j \in Jobs |-> IF j \notin Active THEN work[j]
                                 ELSE IF j \in stalled THEN "failed" ELSE "queued"]
      /\ spoiled' = [j \in Jobs |-> IF j \in Active THEN Targets(j) ELSE spoiled[j]]
  BY DEF Restart, deviceVars
<1>2. TypeOK
  BY DEF IInv
<1>3. \A i \in Jobs : /\ Targets(i)' = Targets(i) /\ Plan(i)' = Plan(i)
                      /\ Targets(i) \subseteq Regs
  BY <1>1, <1>2, LoadStable, PlanFacts
<1>4. TypeOK'
  <2>1. faults' \in 0 .. MaxFaults
    BY <1>1, <1>2 DEF TypeOK
  <2>2. work' \in [Jobs -> {"none", "queued"} \cup Under \cup Over]
    BY <1>1, <1>2 DEF TypeOK, Over
  <2>3. spoiled' \in [Jobs -> SUBSET Regs]
    BY <1>1, <1>2, <1>3 DEF TypeOK
  <2>4. stalled' \subseteq Jobs /\ sole' \in Jobs \cup {None}
    BY <1>1, <1>2 DEF TypeOK, Active
  <2> QED BY <1>1, <1>2, <1>3, <2>1, <2>2, <2>3, <2>4 DEF TypeOK
<1>5. ASSUME NEW i \in Jobs PROVE PlanInv(i)' /\ ResultInv(i)'
  <2>1. CASE i \notin Active
    <3>1. work'[i] = work[i]
      BY <1>1, <2>1
    <3>2. PlanInv(i)'
      BY <1>1, <3>1, OwnInvariants DEF IInv
    <3>3. ResultInv(i)'
      BY <1>1, <3>1 DEF IInv, ResultInv
    <3> QED BY <3>2, <3>3
  <2>2. CASE i \in Active
    <3>1. work'[i] \in {"failed", "queued"} /\ work[i] \in Under
      BY <1>1, <2>2 DEF Active
    <3> QED BY <1>1, <3>1 DEF IInv, PlanInv, ResultInv, Under
  <2> QED BY <2>1, <2>2
<1>6. SoleInv'
  BY <1>1, ConstantsAssumption DEF SoleInv, None
<1> QED BY <1>4, <1>5, <1>6 DEF IInv

(* The line and the life of the service are nothing to the invariants.     *)
LEMMA UnchangedKeeps ==
  ASSUME IInv, load' = load, UNCHANGED <<jobVars, deviceVars, sole>>,
         life' \in {"running", "stopping", "stopped", "closing", "dead"}, linked' \in BOOLEAN,
         faults' \in 0 .. MaxFaults
  PROVE  IInv'
<1>1. /\ call' = call /\ work' = work /\ todo' = todo /\ saved' = saved /\ spoiled' = spoiled
      /\ valid' = valid /\ audit' = audit /\ result' = result /\ stalled' = stalled
      /\ reg' = reg /\ ack' = ack /\ carried' = carried /\ sole' = sole
  BY DEF jobVars, deviceVars
<1>2. \A i \in Jobs : Targets(i)' = Targets(i) /\ Plan(i)' = Plan(i)
  BY LoadStable
<1>3. TypeOK'
  BY <1>1, <1>2 DEF IInv, TypeOK
<1>4. ASSUME NEW i \in Jobs PROVE PlanInv(i)' /\ ResultInv(i)'
  <2>1. PlanInv(i)'
    BY <1>1, OwnInvariants DEF IInv
  <2>2. ResultInv(i)'
    BY <1>1 DEF IInv, ResultInv
  <2> QED BY <2>1, <2>2
<1>5. ASSUME NEW i \in Jobs, sole' = i PROVE Alone(i)' /\ DeviceInv(i)'
  <2>1. Alone(i) /\ DeviceInv(i)
    BY <1>1, <1>5 DEF IInv, SoleInv
  <2>2. DeviceInv(i)'
    BY <1>1, <2>1, OwnInvariants
  <2>3. Alone(i)'
    BY <1>1, <2>1 DEF Alone
  <2> QED BY <2>2, <2>3
<1> QED BY <1>3, <1>4, <1>5 DEF IInv, SoleInv

LEMMA InitHolds ==
  ASSUME Init
  PROVE  IInv
<1>1. /\ load \in Loads /\ work = [j \in Jobs |-> "none"] /\ call = [j \in Jobs |-> "idle"]
      /\ result = [j \in Jobs |-> "none"] /\ todo = [j \in Jobs |-> << >>] /\ sole = None
  BY DEF Init
<1>2. ASSUME NEW j \in Jobs PROVE 0 <= Len(Plan(j))
  <2>1. load[j].coils \in Seq(Regs) /\ load[j].holdings \in Seq(Regs)
    BY <1>1, ConstantsAssumption DEF Command
  <2>2. Plan(j) \in Seq(Regs)
    BY <2>1, ConcatProperties DEF Plan
  <2>3. Len(Plan(j)) \in Nat
    BY <2>2, LenProperties
  <2> QED BY <2>3
<1>3. \A j \in Jobs : todo[j] \in Seq(Targets(j)) /\ Len(todo[j]) <= Len(Plan(j))
  <2>1. \A S : << >> \in Seq(S)
    OBVIOUS
  <2>2. Len(<< >>) = 0
    OBVIOUS
  <2>3. \A j \in Jobs : todo[j] = << >>
    BY <1>1
  <2>4. \A j \in Jobs : Len(todo[j]) = 0
    BY <2>2, <2>3
  <2>5. \A j \in Jobs : Len(todo[j]) <= Len(Plan(j))
    BY <1>2, <2>4
  <2> QED BY <2>1, <2>3, <2>5
<1>4. TypeOK
  <2>1. faults \in 0 .. MaxFaults
    BY ConstantsAssumption DEF Init
  <2>2. reg \in [Regs -> Values] /\ saved \in [Jobs -> [Regs -> Values]]
    BY DEF Init, Values
  <2>3. spoiled \in [Jobs -> SUBSET Regs] /\ todo \in [Jobs -> Seq(Regs)] /\ valid \in [Jobs -> BOOLEAN]
    BY DEF Init
  <2> QED BY <1>1, <1>3, <2>1, <2>2, <2>3 DEF Init, TypeOK
<1>5. \A j \in Jobs : PlanInv(j) /\ ResultInv(j)
  BY <1>1 DEF PlanInv, ResultInv
<1>6. SoleInv
  BY <1>1, ConstantsAssumption DEF SoleInv, None
<1> QED BY <1>4, <1>5, <1>6 DEF IInv

LEMMA Preserved ==
  ASSUME IInv, [Next]_vars
  PROVE  IInv'
<1>1. TypeOK
  BY DEF IInv
<1>2. ASSUME NEW j \in Jobs, Submit(j) \/ Answer(j) \/ CallerTimesOut(j) PROVE IInv'
  BY <1>2, SubmitKeeps, AnswerKeeps, CallerTimesOutKeeps
<1>3. ASSUME NEW j \in Jobs, Work(j) PROVE IInv'
  BY <1>3, DroppedKeeps, BeginKeeps, WriteKeeps, WriteFailsKeeps, RestoreKeeps, PulseResetKeeps,
     PulseResetFailsKeeps, ValidateKeeps, AuditKeeps, FinalizeKeeps DEF Work
<1>4. CASE Stop
  <2>1. faults' \in 0 .. MaxFaults
    BY <1>1, <1>4, ConstantsAssumption DEF Stop, Fault, TypeOK
  <2> QED BY <1>1, <1>4, <2>1, UnchangedKeeps DEF Stop, TypeOK
<1>5. CASE Disconnect
  BY <1>1, <1>5, UnchangedKeeps DEF Disconnect, TypeOK
<1>6. CASE Reconnect
  BY <1>1, <1>6, UnchangedKeeps DEF Reconnect, TypeOK
<1>7. CASE Restart
  BY <1>7, RestartKeeps
<1>8. CASE UNCHANGED vars
  BY <1>1, <1>8, UnchangedKeeps DEF vars, TypeOK
<1>9. CASE Close
  BY <1>1, <1>9, UnchangedKeeps DEF Close, TypeOK
<1>10. CASE Die
  <2>1. faults' \in 0 .. MaxFaults
    BY <1>1, <1>10, ConstantsAssumption DEF Die, Fault, TypeOK
  <2> QED BY <1>1, <1>10, <2>1, UnchangedKeeps DEF Die, TypeOK
<1> QED BY <1>2, <1>3, <1>4, <1>5, <1>6, <1>7, <1>8, <1>9, <1>10 DEF Next

-----------------------------------------------------------------------------
(* The inductive invariant holds of every behaviour of executeCommand,     *)
(* write() and writeAtomic().                                              *)
THEOREM Invariance == Spec => []IInv
<1>1. Init => IInv
  BY InitHolds
<1>2. IInv /\ [Next]_vars => IInv'
  BY Preserved
<1> QED BY <1>1, <1>2, PTL DEF Spec

(* Every variable keeps its type: above all, what a job has still to write,*)
(* restore or reset is never longer than its plan, and names no register   *)
(* outside it.                                                             *)
THEOREM TypeCorrect == Spec => []TypeOK
<1>1. IInv => TypeOK
  BY DEF IInv
<1> QED BY <1>1, Invariance, PTL

(* validateReadBack: as long as no other command shares the device, a      *)
(* command is recorded as executed only if the device has accepted it.     *)
THEOREM HonestWhenAloneHolds == Spec => []HonestWhenAlone
<1>1. IInv => HonestWhenAlone
  BY DEF IInv, SoleInv, DeviceInv, HandshakeInv, HonestWhenAlone
<1> QED BY <1>1, Invariance, PTL

(* writeAtomic, the reset of momentary outputs and the finalize step: a    *)
(* rejected atomic write has put back what it overwrote, and a finished    *)
(* command leaves no output and no mailbox with its value, but where a     *)
(* request of its own failed.                                              *)
THEOREM DeviceLeftCleanHolds == Spec => []DeviceLeftClean
<1>1. IInv => RejectedIsUndone
  <2> SUFFICES ASSUME IInv, NEW j \in Jobs, sole = j, load[j].atomic, work[j] = "rejected"
               PROVE  \A r \in Targets(j) \ spoiled[j] : reg[r] = saved[j][r]
    BY DEF RejectedIsUndone
  <2>1. BackupInv(j)
    BY DEF IInv, SoleInv, DeviceInv
  <2> QED BY <2>1 DEF BackupInv
<1>2. IInv => OutputReleased
  <2> SUFFICES ASSUME IInv, NEW j \in Jobs, sole = j, work[j] = "done",
                      load[j].atomic \/ spoiled[j] = {}
               PROVE  \A r \in Released(j) \ spoiled[j] : reg[r] # j \/ saved[j][r] = j
    BY DEF OutputReleased
  <2>1. ReleaseInv(j)
    BY DEF IInv, SoleInv, DeviceInv
  <2> QED BY <2>1 DEF ReleaseInv
<1>3. IInv => DeviceLeftClean
  BY <1>1, <1>2 DEF DeviceLeftClean
<1> QED BY <1>3, Invariance, PTL

(* logCommand before the result, and executeAndWait after it: whoever is   *)
(* told of success finds an audit record of the execution, unless a        *)
(* stopping worker has thrown the command away.                            *)
THEOREM SuccessIsAuditedHolds == Spec => []SuccessIsAudited
<1>1. IInv => SuccessIsAudited
  <2> SUFFICES ASSUME IInv, NEW j \in Jobs, call[j] = "success"
               PROVE  audit[j] = "executed" \/ result[j] = "undefined"
    BY DEF SuccessIsAudited
  <2>1. ResultInv(j) /\ result[j] \in {"none", "success", "failure", "undefined"}
    BY DEF IInv, TypeOK
  <2> QED BY <2>1 DEF ResultInv
<1> QED BY <1>1, Invariance, PTL
=============================================================================
