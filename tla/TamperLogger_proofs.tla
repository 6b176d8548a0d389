------------------------- MODULE TamperLogger_proofs -------------------------
(***************************************************************************)
(* Proofs about TamperLogger, for any sinks, batch size, number of events  *)
(* and number of processes.                                                *)
(***************************************************************************)
EXTENDS TamperLogger, SequenceTheorems, TLAPS

(* The order in which the parts of a file may stand: no event twice, the   *)
(* application events of a process as they were logged.                    *)
Before(e, f) ==
  /\ e # f
  /\ e.cat = "app" /\ f.cat = "app" /\ e.epoch = f.epoch => e.seq < f.seq

Ordered(q) == \A i, j \in 1 .. Len(q) : i < j => Before(q[i], q[j])

(* An event that was logged, and one by this process.                      *)
Logged(e) ==
  e.cat \in load /\ e.epoch <= epoch /\ (e.epoch = epoch => e.seq < seq)
Mine(e) == Logged(e) /\ e.epoch = epoch /\ e.seq >= 1

Q(k)    == ToSet(chain[k].evs)
Waiters == {waiting[k].ev : k \in 1 .. Len(waiting)}

(* The task whose write is through in sink s, well or not.                 *)
Written(s, k) == k = 1 /\ progress[s] \in {"ok", "failed"}

(* Batch, waiting calls and tasks hold events of this process, the batch   *)
(* application events, the waiting calls audit events.                     *)
PlaceInv ==
  /\ \A e \in ToSet(pending) : Mine(e) /\ e.cat = "app"
  /\ \A e \in Waiters : Mine(e) /\ e.cat = "audit"
  /\ \A e \in Queued : Mine(e)

(* They are in writing order.                                              *)
OrderInv ==
  /\ Ordered(pending)
  /\ \A k \in 1 .. Len(chain) : Ordered(chain[k].evs)
  /\ \A k, l \in 1 .. Len(chain) : k < l => \A e \in Q(k), f \in Q(l) : Before(e, f)
  /\ \A e \in Queued, f \in ToSet(pending) \cup Waiters : Before(e, f)
  /\ \A i, j \in 1 .. Len(waiting) : waiting[i].ev = waiting[j].ev => i = j

(* A sink got what was logged, and has all of a task it wrote well.        *)
SinkInv ==
  \A s \in Sinks :
    /\ \A e \in ToSet(file[s]) : Logged(e)
    /\ cut[s] \subseteq 1 .. Len(file[s])
    /\ progress[s] # "idle" => chain # << >>
    /\ progress[s] = "ok" => Q(1) \subseteq Whole(s)

(* A file or a table is in order, and has nothing of what is still to be   *)
(* written.                                                                *)
FileInv ==
  \A s \in Sinks \ Hooks :
    /\ Ordered(file[s])
    /\ \A i, j \in 1 .. Len(file[s]) : i < j => file[s][i].epoch <= file[s][j].epoch
    /\ \A e \in ToSet(file[s]), f \in ToSet(pending) \cup Waiters : Before(e, f)
    /\ \A k \in 1 .. Len(chain) : ~Written(s, k) =>
         \A e \in ToSet(file[s]), f \in Q(k) : Before(e, f)

IInv ==
  /\ TypeOK /\ PlaceInv /\ OrderInv /\ SinkInv /\ FileInv
  /\ AckedIsDurable /\ NoSilentLoss /\ AppFileVerifies

-----------------------------------------------------------------------------
(* Sequences and the sets of their entries.                                *)

LEMMA Entries ==
  ASSUME NEW S, NEW q \in Seq(S)
  PROVE  /\ Len(q) \in Nat /\ ToSet(q) \subseteq S
         /\ \A e : e \in ToSet(q) <=> \E i \in 1 .. Len(q) : e = q[i]
  BY DEF ToSet

LEMMA OneMore ==
  ASSUME NEW S, NEW q \in Seq(S), NEW e \in S
  PROVE  /\ Append(q, e) \in Seq(S) /\ Len(Append(q, e)) = Len(q) + 1
         /\ Append(q, e)[Len(q) + 1] = e /\ \A i \in 1 .. Len(q) : Append(q, e)[i] = q[i]
         /\ ToSet(Append(q, e)) = ToSet(q) \cup {e}
<1> DEFINE u == Append(q, e)
<1>1. /\ u \in Seq(S) /\ Len(u) = Len(q) + 1 /\ Len(q) \in Nat
      /\ u[Len(q) + 1] = e /\ \A i \in 1 .. Len(q) : u[i] = q[i]
  BY AppendProperties, LenProperties
<1> HIDE DEF u
<1>2. /\ \A x : x \in ToSet(q) <=> \E i \in 1 .. Len(q) : x = q[i]
      /\ \A x : x \in ToSet(u) <=> \E i \in 1 .. Len(u) : x = u[i]
  BY <1>1, Entries
<1>3. \A i \in 1 .. Len(u) : i \in 1 .. Len(q) \/ i = Len(q) + 1
  BY <1>1
<1>4. Len(q) + 1 \in 1 .. Len(u) /\ \A i \in 1 .. Len(q) : i \in 1 .. Len(u)
  BY <1>1
<1>5. \A x : x \in ToSet(u) <=> x \in ToSet(q) \/ x = e
  BY <1>1, <1>2, <1>3, <1>4
<1> QED BY <1>1, <1>5 DEF u

LEMMA Joined ==
  ASSUME NEW S, NEW q \in Seq(S), NEW r \in Seq(S)
  PROVE  /\ q \o r \in Seq(S) /\ Len(q \o r) = Len(q) + Len(r)
         /\ \A i \in 1 .. Len(q) : (q \o r)[i] = q[i]
         /\ \A i \in 1 .. Len(r) : (q \o r)[Len(q) + i] = r[i]
         /\ \A k \in 1 .. Len(q \o r) :
              k \in 1 .. Len(q) \/ (k - Len(q) \in 1 .. Len(r) /\ (q \o r)[k] = r[k - Len(q)])
         /\ ToSet(q \o r) = ToSet(q) \cup ToSet(r)
<1> DEFINE u == q \o r
<1>1. /\ u \in Seq(S) /\ Len(u) = Len(q) + Len(r) /\ Len(q) \in Nat /\ Len(r) \in Nat
      /\ \A i \in 1 .. Len(q) : u[i] = q[i]
      /\ \A i \in 1 .. Len(r) : u[Len(q) + i] = r[i]
      /\ \A k \in 1 .. Len(u) :
           k \in 1 .. Len(q) \/ (k - Len(q) \in 1 .. Len(r) /\ u[k] = r[k - Len(q)])
  <2>1. /\ u \in Seq(S) /\ Len(u) = Len(q) + Len(r) /\ Len(q) \in Nat /\ Len(r) \in Nat
    BY ConcatProperties, LenProperties
  <2>2. \A i \in 1 .. Len(u) : u[i] = IF i <= Len(q) THEN q[i] ELSE r[i - Len(q)]
    BY ConcatProperties
  <2> HIDE DEF u
  <2>3. \A i \in 1 .. Len(q) : i \in 1 .. Len(u) /\ i <= Len(q)
    BY <2>1
  <2>4. \A i \in 1 .. Len(r) :
          Len(q) + i \in 1 .. Len(u) /\ ~(Len(q) + i <= Len(q)) /\ Len(q) + i - Len(q) = i
    BY <2>1
  <2>5. \A k \in 1 .. Len(u) :
          k \in 1 .. Len(q) \/ (k - Len(q) \in 1 .. Len(r) /\ ~(k <= Len(q)))
    BY <2>1
  <2>6. \A i \in 1 .. Len(q) : u[i] = q[i]
    BY <2>2, <2>3
  <2>7. \A i \in 1 .. Len(r) : u[Len(q) + i] = r[i]
    BY <2>2, <2>4
  <2>8. \A k \in 1 .. Len(u) :
          k \in 1 .. Len(q) \/ (k - Len(q) \in 1 .. Len(r) /\ u[k] = r[k - Len(q)])
    BY <2>2, <2>5
  <2> QED BY <2>1, <2>6, <2>7, <2>8
<1> HIDE DEF u
<1>2. /\ \A x : x \in ToSet(q) <=> \E i \in 1 .. Len(q) : x = q[i]
      /\ \A x : x \in ToSet(r) <=> \E i \in 1 .. Len(r) : x = r[i]
      /\ \A x : x \in ToSet(u) <=> \E i \in 1 .. Len(u) : x = u[i]
  BY <1>1, Entries
<1>3. /\ \A i \in 1 .. Len(q) : i \in 1 .. Len(u)
      /\ \A i \in 1 .. Len(r) : Len(q) + i \in 1 .. Len(u)
  BY <1>1
<1>4. \A x : x \in ToSet(u) <=> x \in ToSet(q) \/ x \in ToSet(r)
  <2>1. \A x : x \in ToSet(u) => x \in ToSet(q) \/ x \in ToSet(r)
    BY <1>1, <1>2
  <2>2. \A x : x \in ToSet(q) => x \in ToSet(u)
    BY <1>1, <1>2, <1>3
  <2>3. ASSUME NEW x, x \in ToSet(r) PROVE x \in ToSet(u)
    <3>1. PICK i \in 1 .. Len(r) : x = r[i]
      BY <1>2, <2>3
    <3>2. Len(q) + i \in 1 .. Len(u) /\ u[Len(q) + i] = x
      BY <1>1, <1>3, <3>1
    <3> QED BY <1>2, <3>2
  <2> QED BY <2>1, <2>2, <2>3
<1> QED BY <1>1, <1>4 DEF u

(* Two ordered sequences, one behind the other.                            *)
LEMMA OrderedJoined ==
  ASSUME NEW q \in Seq(Event), NEW r \in Seq(Event), Ordered(q), Ordered(r),
         \A e \in ToSet(q), f \in ToSet(r) : Before(e, f)
  PROVE  Ordered(q \o r)
<1> DEFINE u == q \o r
<1>1. /\ Len(q) \in Nat /\ Len(r) \in Nat
      /\ \A k \in 1 .. Len(q) : u[k] = q[k] /\ q[k] \in ToSet(q)
      /\ \A k \in 1 .. Len(r) : r[k] \in ToSet(r)
      /\ \A k \in 1 .. Len(u) :
           k \in 1 .. Len(q) \/ (k - Len(q) \in 1 .. Len(r) /\ u[k] = r[k - Len(q)])
  BY Joined, Entries
<1> HIDE DEF u
<1>2. ASSUME NEW i \in 1 .. Len(u), NEW j \in 1 .. Len(u), i < j
      PROVE  Before(u[i], u[j])
  <2>1. CASE i \in 1 .. Len(q) /\ j \in 1 .. Len(q)
    BY <1>1, <1>2, <2>1 DEF Ordered
  <2>2. CASE i \in 1 .. Len(q) /\ j \notin 1 .. Len(q)
    BY <1>1, <1>2, <2>2
  <2>3. CASE i \notin 1 .. Len(q) /\ j \in 1 .. Len(q)
    BY <1>1, <1>2, <2>3
  <2>4. CASE i \notin 1 .. Len(q) /\ j \notin 1 .. Len(q)
    <3>1. i - Len(q) \in 1 .. Len(r) /\ u[i] = r[i - Len(q)]
      BY <1>1, <2>4
    <3>2. j - Len(q) \in 1 .. Len(r) /\ u[j] = r[j - Len(q)]
      BY <1>1, <2>4
    <3>3. i - Len(q) < j - Len(q)
      BY <1>1, <1>2
    <3> QED BY <3>1, <3>2, <3>3 DEF Ordered
  <2> QED BY <2>1, <2>2, <2>3, <2>4
<1> QED BY <1>2 DEF Ordered, u

LEMMA OrderedOneMore ==
  ASSUME NEW q \in Seq(Event), NEW f \in Event, Ordered(q), \A e \in ToSet(q) : Before(e, f)
  PROVE  Ordered(Append(q, f))
<1>1. /\ Len(q) \in Nat /\ Len(Append(q, f)) = Len(q) + 1
      /\ Append(q, f)[Len(q) + 1] = f /\ \A i \in 1 .. Len(q) : Append(q, f)[i] = q[i]
      /\ \A i \in 1 .. Len(q) : q[i] \in ToSet(q)
  BY OneMore, Entries
<1> DEFINE u == Append(q, f)
<1> HIDE DEF u
<1>2. ASSUME NEW i \in 1 .. Len(u), NEW j \in 1 .. Len(u), i < j
      PROVE  Before(u[i], u[j])
  <2>1. i \in 1 .. Len(q) /\ (j \in 1 .. Len(q) \/ j = Len(q) + 1)
    BY <1>1, <1>2 DEF u
  <2>2. CASE j \in 1 .. Len(q)
    BY <1>1, <1>2, <2>1, <2>2 DEF Ordered, u
  <2>3. CASE j = Len(q) + 1
    BY <1>1, <2>1, <2>3 DEF u
  <2> QED BY <2>1, <2>2, <2>3
<1> QED BY <1>2 DEF Ordered, u

(* One entry taken out: the others stay, each in a place of its own.       *)
LEMMA OneLess ==
  ASSUME NEW S, NEW q \in Seq(S), NEW k \in 1 .. Len(q)
  PROVE  /\ RemoveAt(q, k) \in Seq(S) /\ Len(RemoveAt(q, k)) = Len(q) - 1
         /\ \A i \in 1 .. Len(q) - 1 : RemoveAt(q, k)[i] = q[IF i < k THEN i ELSE i + 1]
         /\ \A i \in 1 .. Len(q) : i # k => \E j \in 1 .. Len(q) - 1 : RemoveAt(q, k)[j] = q[i]
<1> DEFINE a == SubSeq(q, 1, k - 1)
           b == SubSeq(q, k + 1, Len(q))
           w == a \o b
<1>0. Len(q) \in Nat /\ k \in Nat /\ k >= 1 /\ k <= Len(q)
  BY LenProperties
<1>1. a \in Seq(S) /\ Len(a) = k - 1 /\ \A i \in 1 .. k - 1 : a[i] = q[i]
  <2>1. \A i \in 1 .. k - 1 : q[i] \in S
    BY <1>0, ElementOfSeq
  <2> QED BY <1>0, <2>1, SubSeqProperties
<1>2. b \in Seq(S) /\ Len(b) = Len(q) - k /\ \A i \in 1 .. Len(q) - k : b[i] = q[k + i]
  <2>1. \A i \in k + 1 .. Len(q) : q[i] \in S
    BY <1>0, ElementOfSeq
  <2> QED BY <1>0, <2>1, SubSeqProperties
<1>3. RemoveAt(q, k) = w
  BY DEF RemoveAt
<1> HIDE DEF a, b
<1>4. /\ w \in Seq(S) /\ Len(w) = Len(a) + Len(b)
      /\ \A i \in 1 .. Len(a) + Len(b) : w[i] = IF i <= Len(a) THEN a[i] ELSE b[i - Len(a)]
  BY <1>1, <1>2, ConcatProperties
<1> HIDE DEF w
<1>5. Len(w) = Len(q) - 1
  BY <1>0, <1>1, <1>2, <1>4
<1>6. ASSUME NEW i \in 1 .. Len(q) - 1, i < k PROVE w[i] = q[i]
  <2>1. i \in 1 .. Len(a) + Len(b) /\ i <= Len(a) /\ i \in 1 .. k - 1
    BY <1>0, <1>1, <1>2, <1>6
  <2>2. w[i] = a[i]
    BY <1>4, <2>1
  <2> QED BY <1>1, <2>1, <2>2
<1>7. ASSUME NEW i \in 1 .. Len(q) - 1, ~(i < k) PROVE w[i] = q[i + 1]
  <2>1. i - Len(a) \in 1 .. Len(q) - k /\ k + (i - Len(a)) = i + 1
    BY <1>0, <1>1, <1>7
  <2>2. w[i] = b[i - Len(a)]
    <3>1. i \in 1 .. Len(a) + Len(b) /\ ~(i <= Len(a))
      BY <1>0, <1>1, <1>2, <1>7
    <3> QED BY <1>4, <3>1
  <2> QED BY <1>2, <2>1, <2>2
<1>8. ASSUME NEW i \in 1 .. Len(q), i # k
      PROVE  \E j \in 1 .. Len(q) - 1 : w[j] = q[i]
  <2>1. CASE i < k
    <3>1. i \in 1 .. Len(q) - 1
      BY <1>0, <2>1
    <3> QED BY <1>6, <2>1, <3>1
  <2>2. CASE ~(i < k)
    <3>1. i - 1 \in 1 .. Len(q) - 1 /\ ~(i - 1 < k) /\ (i - 1) + 1 = i
      BY <1>0, <1>8, <2>2
    <3> QED BY <1>7, <3>1
  <2> QED BY <2>1, <2>2
<1> QED BY <1>3, <1>4, <1>5, <1>6, <1>7, <1>8

-----------------------------------------------------------------------------
(* Where events are.                                                       *)

LEMMA EventTypes ==
  ASSUME TypeOK
  PROVE  /\ \A k \in 1 .. Len(chain) : chain[k].evs \in Seq(Event) /\ Q(k) \subseteq Event
         /\ \A e : e \in Queued <=> \E k \in 1 .. Len(chain) : e \in Q(k)
         /\ Queued \subseteq Event /\ Waiters \subseteq Event /\ ToSet(pending) \subseteq Event
         /\ \A s \in Sinks : ToSet(file[s]) \subseteq Event
         /\ InTransit = ToSet(pending) \cup Queued \cup Waiters
         /\ Len(chain) \in Nat /\ Len(waiting) \in Nat /\ Len(pending) \in Nat
         /\ \A k \in 1 .. Len(waiting) : waiting[k].ev \in Event /\ waiting[k].ev \in Waiters
<1>1. \A k \in 1 .. Len(chain) : chain[k] \in Task
  BY ElementOfSeq DEF TypeOK
<1>2. \A k \in 1 .. Len(chain) : chain[k].evs \in Seq(Event)
  BY <1>1 DEF Task
<1>3. \A k \in 1 .. Len(chain) : Q(k) \subseteq Event
  BY <1>2, Entries DEF Q
<1>4. \A e : e \in Queued <=> \E k \in 1 .. Len(chain) : e \in Q(k)
  BY DEF Queued, Q
<1>5. \A k \in 1 .. Len(waiting) : waiting[k] \in Waiter
  BY ElementOfSeq DEF TypeOK
<1>6. \A k \in 1 .. Len(waiting) : waiting[k].ev \in Event /\ waiting[k].ev \in Waiters
  BY <1>5 DEF Waiter, Waiters
<1>7. Waiters \subseteq Event
  BY <1>6 DEF Waiters
<1>8. ToSet(pending) \subseteq Event /\ \A s \in Sinks : ToSet(file[s]) \subseteq Event
  BY Entries DEF TypeOK
<1>9. Len(chain) \in Nat /\ Len(waiting) \in Nat /\ Len(pending) \in Nat
  BY LenProperties DEF TypeOK
<1> QED BY <1>2, <1>3, <1>4, <1>6, <1>7, <1>8, <1>9 DEF InTransit, Waiters

(* A task more at the end of the chain.                                    *)
LEMMA ChainLonger ==
  ASSUME TypeOK, NEW t \in Task, chain' = Append(chain, t)
  PROVE  /\ chain' \in Seq(Task) /\ Len(chain') = Len(chain) + 1 /\ Len(chain) \in Nat
         /\ chain'[Len(chain) + 1] = t /\ \A k \in 1 .. Len(chain) : chain'[k] = chain[k]
         /\ \A k \in 1 .. Len(chain') : k \in 1 .. Len(chain) \/ k = Len(chain) + 1
         /\ Queued' = Queued \cup ToSet(t.evs)
<1>1. /\ chain' \in Seq(Task) /\ Len(chain') = Len(chain) + 1 /\ Len(chain) \in Nat
      /\ chain'[Len(chain) + 1] = t /\ \A k \in 1 .. Len(chain) : chain'[k] = chain[k]
  BY OneMore, LenProperties DEF TypeOK
<1>2. \A k \in 1 .. Len(chain') : k \in 1 .. Len(chain) \/ k = Len(chain) + 1
  BY <1>1
<1>3. Len(chain) + 1 \in 1 .. Len(chain') /\ \A k \in 1 .. Len(chain) : k \in 1 .. Len(chain')
  BY <1>1
<1>4. /\ \A e : e \in Queued <=> \E k \in 1 .. Len(chain) : e \in ToSet(chain[k].evs)
      /\ \A e : e \in Queued' <=> \E k \in 1 .. Len(chain') : e \in ToSet(chain'[k].evs)
  BY DEF Queued
<1>5. \A e : e \in Queued' <=> e \in Queued \/ e \in ToSet(t.evs)
  BY <1>1, <1>2, <1>3, <1>4
<1> QED BY <1>1, <1>2, <1>5

(* Logged stays logged.                                                    *)
LEMMA StillLogged ==
  ASSUME TypeOK, load' = load, epoch' = epoch, seq' \in {seq, seq + 1}, NEW e \in Event
  PROVE  (Logged(e) => Logged(e)') /\ (Mine(e) => Mine(e)')
<1>1. Logged(e) => Logged(e)'
  BY DEF TypeOK, Event, Logged
<1> QED BY <1>1 DEF Mine

(* The event that is being logged comes behind all the others.             *)
LEMMA NewIsLast ==
  ASSUME TypeOK, NEW x \in Event, x.epoch = epoch, x.seq = seq, NEW e \in Event, Logged(e)
  PROVE  Before(e, x)
  BY DEF TypeOK, Event, Logged, Before

(* An application event and an audit event are in any order.               *)
LEMMA OtherKind ==
  ASSUME NEW e \in Event, NEW f \in Event, e.cat # f.cat
  PROVE  Before(e, f)
  BY DEF Event, Before

-----------------------------------------------------------------------------
(* Steps that log an event or bring some to the end of the write chain: X  *)
(* holds the new event, if any, t is the task put on the chain, if any.    *)

LEMMA Moved ==
  ASSUME IInv, TypeOK', NEW X \in SUBSET Event, NEW t \in Task,
         UNCHANGED <<load, epoch, progress, file, cut, lost, acked, refused>>,
         \A x \in X : x.epoch = epoch /\ x.seq = seq /\ x.cat \in load,
         (X = {} /\ seq' = seq) \/ (X # {} /\ seq' = seq + 1),
         (ToSet(pending) \cup Waiters)' \subseteq ToSet(pending) \cup Waiters \cup X,
         \/ chain' = chain
         \/ /\ chain' = Append(chain, t) /\ Ordered(t.evs)
            /\ ToSet(t.evs) \subseteq ToSet(pending) \cup Waiters \cup X
            /\ \A e \in ToSet(t.evs), f \in (ToSet(pending) \cup Waiters)' : Before(e, f),
         InTransit \cup X \subseteq InTransit',
         \A e \in ToSet(pending)' : e.cat = "app",
         \A e \in Waiters' : e.cat = "audit",
         Ordered(pending)',
         \A i, j \in 1 .. Len(waiting') : waiting'[i].ev = waiting'[j].ev => i = j
  PROVE  IInv'
<1> DEFINE Old == ToSet(pending) \cup Waiters
           New == ToSet(pending)' \cup Waiters'
<1> USE DEF IInv
<1>1. /\ Old \subseteq Event /\ Queued \subseteq Event /\ New \subseteq Event
      /\ \A s \in Sinks : ToSet(file[s]) \subseteq Event
      /\ InTransit = Old \cup Queued /\ InTransit' = New \cup Queued'
      /\ New \subseteq Old \cup X
  <2>1. /\ Old \subseteq Event /\ Queued \subseteq Event
        /\ \A s \in Sinks : ToSet(file[s]) \subseteq Event
        /\ InTransit = Old \cup Queued
    BY EventTypes
  <2>2. New \subseteq Event
    BY <2>1
  <2>3. InTransit' = New \cup Queued'
    BY DEF InTransit, Waiters
  <2> QED BY <2>1, <2>2, <2>3
<1>2. /\ \A e \in Old \cup Queued : Mine(e) /\ Logged(e)
      /\ \A s \in Sinks : \A e \in ToSet(file[s]) : Logged(e)
  BY DEF PlaceInv, SinkInv, Mine
<1>3. /\ \A e \in Event : (Logged(e) => Logged(e)') /\ (Mine(e) => Mine(e)')
      /\ \A x \in X : Mine(x)'
  <2>1. seq \in Nat /\ seq >= 1 /\ epoch \in Nat
    BY DEF TypeOK
  <2>2. seq' \in {seq, seq + 1}
    BY <2>1
  <2>3. \A x \in X : Mine(x)'
    BY <2>1 DEF Mine, Logged, Event
  <2> QED BY <2>2, <2>3, StillLogged
<1>4. \A e \in Event, x \in X : Logged(e) => Before(e, x)
  BY NewIsLast
<1>5. ASSUME chain' = chain PROVE PlaceInv' /\ OrderInv' /\ SinkInv' /\ FileInv'
  <2>1. Queued' = Queued /\ \A k \in 1 .. Len(chain) : Q(k)' = Q(k)
    BY <1>5 DEF Queued, Q
  <2>2. PlaceInv'
    BY <1>1, <1>2, <1>3, <2>1 DEF PlaceInv
  <2>3. OrderInv'
    <3>1. /\ \A k \in 1 .. Len(chain') : Ordered(chain'[k].evs)
          /\ \A k, l \in 1 .. Len(chain') : k < l => \A e \in Q(k)', f \in Q(l)' : Before(e, f)
      BY <1>5, <2>1 DEF OrderInv
    <3>2. \A e \in Queued', f \in New : Before(e, f)
      BY <1>1, <1>2, <1>4, <2>1 DEF OrderInv
    <3> QED BY <3>1, <3>2 DEF OrderInv
  <2>4. ASSUME NEW s \in Sinks \ Hooks
        PROVE  \A e \in ToSet(file[s]), f \in New : Before(e, f)
    BY <1>1, <1>2, <1>4 DEF FileInv
  <2>5. \A s \in Sinks, k \in 1 .. Len(chain) : Written(s, k)' <=> Written(s, k)
    BY DEF Written
  <2>6. FileInv'
    <3>1. ASSUME NEW s \in Sinks \ Hooks
          PROVE  \A k \in 1 .. Len(chain') : ~Written(s, k)' =>
                   \A e \in ToSet(file'[s]), f \in Q(k)' : Before(e, f)
      BY <1>5, <2>1, <2>5 DEF FileInv
    <3>2. ASSUME NEW s \in Sinks \ Hooks
          PROVE  /\ Ordered(file'[s])
                 /\ \A i, j \in 1 .. Len(file'[s]) :
                      i < j => file'[s][i].epoch <= file'[s][j].epoch
      BY DEF FileInv
    <3> QED BY <2>4, <3>1, <3>2 DEF FileInv
  <2>7. SinkInv'
    <3>1. \A s \in Sinks : \A e \in ToSet(file'[s]) : Logged(e)'
      BY <1>1, <1>2, <1>3
    <3>2. Q(1)' = Q(1) /\ \A s \in Sinks : Whole(s)' = Whole(s)
      BY <1>5 DEF Q, Whole
    <3> QED BY <1>5, <3>1, <3>2 DEF SinkInv
  <2> QED BY <2>2, <2>3, <2>6, <2>7
<1>6. ASSUME chain' # chain PROVE PlaceInv' /\ OrderInv' /\ SinkInv' /\ FileInv'
  <2>1. /\ chain' = Append(chain, t) /\ Ordered(t.evs)
        /\ ToSet(t.evs) \subseteq Old \cup X
        /\ \A e \in ToSet(t.evs), f \in New : Before(e, f)
    BY <1>6
  <2>n. PICK n : n = Len(chain)
    OBVIOUS
  <2>2. /\ Len(chain') = n + 1 /\ n \in Nat
        /\ chain'[n + 1] = t /\ \A k \in 1 .. n : chain'[k] = chain[k]
        /\ \A k \in 1 .. Len(chain') : k \in 1 .. n \/ k = n + 1
        /\ Queued' = Queued \cup ToSet(t.evs)
    BY <2>n, <2>1, ChainLonger
  <2>3. Q(n + 1)' = ToSet(t.evs) /\ \A k \in 1 .. n : Q(k)' = Q(k)
    BY <2>2 DEF Q
  <2>4. \A k \in 1 .. n : Q(k) \subseteq Queued
    BY <2>n, EventTypes
  <2>5. PlaceInv'
    <3>1. \A e \in New \cup Queued' : Mine(e)'
      BY <1>1, <1>2, <1>3, <2>1, <2>2
    <3> QED BY <3>1 DEF PlaceInv
  <2>6. \A e \in Queued, f \in ToSet(t.evs) \cup New : Before(e, f)
    BY <1>1, <1>2, <1>4, <2>1 DEF OrderInv
  <2>7. OrderInv'
    <3>1. \A k \in 1 .. Len(chain') : Ordered(chain'[k].evs)
      BY <2>n, <2>1, <2>2 DEF OrderInv
    <3>2. \A k, l \in 1 .. Len(chain') : k < l => \A e \in Q(k)', f \in Q(l)' : Before(e, f)
      <4>1. \A k, l \in 1 .. Len(chain') : k < l =>
              k \in 1 .. n /\ (l \in 1 .. n \/ l = n + 1)
        BY <2>2
      <4>2. \A k, l \in 1 .. n : k < l => \A e \in Q(k), f \in Q(l) : Before(e, f)
        BY <2>n DEF OrderInv
      <4> QED BY <2>3, <2>4, <2>6, <4>1, <4>2
    <3>3. \A e \in Queued', f \in New : Before(e, f)
      BY <2>1, <2>2, <2>6
    <3> QED BY <3>1, <3>2, <3>3 DEF OrderInv
  <2>8. ASSUME NEW s \in Sinks \ Hooks
        PROVE  \A e \in ToSet(file[s]), f \in New \cup ToSet(t.evs) : Before(e, f)
    BY <1>1, <1>2, <1>4, <2>1 DEF FileInv
  <2>9. FileInv'
    <3>1. ASSUME NEW s \in Sinks \ Hooks, NEW k \in 1 .. Len(chain'), ~Written(s, k)',
                 NEW e \in ToSet(file'[s]), NEW f \in Q(k)'
          PROVE  Before(e, f)
      <4>1. CASE k \in 1 .. n
        <5>1. ~Written(s, k) /\ f \in Q(k) /\ e \in ToSet(file[s])
          BY <2>3, <3>1, <4>1 DEF Written
        <5> QED BY <2>n, <4>1, <5>1 DEF FileInv
      <4>2. CASE k = n + 1
        BY <2>3, <2>8, <4>2
      <4> QED BY <2>2, <4>1, <4>2
    <3>2. ASSUME NEW s \in Sinks \ Hooks
          PROVE  /\ Ordered(file'[s])
                 /\ \A i, j \in 1 .. Len(file'[s]) :
                      i < j => file'[s][i].epoch <= file'[s][j].epoch
      BY DEF FileInv
    <3>3. \A s \in Sinks \ Hooks :
            \A e \in ToSet(file'[s]), f \in (ToSet(pending) \cup Waiters)' : Before(e, f)
      BY <2>8
    <3> QED BY <3>1, <3>2, <3>3 DEF FileInv
  <2>10. SinkInv'
    <3>1. ASSUME NEW s \in Sinks
          PROVE  /\ \A e \in ToSet(file'[s]) : Logged(e)'
                 /\ cut'[s] \subseteq 1 .. Len(file'[s])
                 /\ progress'[s] # "idle" => chain' # << >>
                 /\ progress'[s] = "ok" => Q(1)' \subseteq Whole(s)'
      <4>1. \A e \in ToSet(file'[s]) : Logged(e)'
        BY <1>1, <1>2, <1>3
      <4>2. chain' # << >>
        <5>1. Len(chain') # 0
          BY <2>2
        <5> QED BY <5>1, EmptySeq
      <4>3. progress[s] # "idle" => 1 \in 1 .. n
        <5>1. progress[s] # "idle" => chain # << >>
          BY DEF SinkInv
        <5>2. chain # << >> => Len(chain) # 0
          BY EmptySeq DEF TypeOK
        <5> QED BY <2>n, <2>2, <5>1, <5>2
      <4>4. progress[s] = "ok" => Q(1)' = Q(1)
        BY <2>3, <4>3
      <4>5. Whole(s)' = Whole(s)
        BY DEF Whole
      <4> QED BY <4>1, <4>2, <4>4, <4>5 DEF SinkInv
    <3> QED BY <3>1 DEF SinkInv
  <2> QED BY <2>5, <2>7, <2>9, <2>10
<1>7. AckedIsDurable' /\ AppFileVerifies'
  BY DEF AckedIsDurable, AppFileVerifies, FileVerifies, ChainValid, Whole
<1>8. NoSilentLoss'
  <2>1. \A e \in Event : e \in InTransit => e \in InTransit'
    BY DEF InTransit
  <2>2. ASSUME NEW m \in 1 .. seq' - 1
        PROVE  \E c \in load' :
                 LET e == [epoch |-> epoch', seq |-> m, cat |-> c] IN
                   \/ e \in (InTransit \cup lost \cup refused)'
                   \/ \A s \in Sinks : e \in Whole(s)'
    <3>1. CASE m \in 1 .. seq - 1
      <4>1. PICK c \in load :
              LET e == [epoch |-> epoch, seq |-> m, cat |-> c] IN
                \/ e \in InTransit \cup lost \cup refused
                \/ \A s \in Sinks : e \in Whole(s)
        BY <3>1 DEF NoSilentLoss
      <4>2. \A s \in Sinks : Whole(s)' = Whole(s)
        BY DEF Whole
      <4> QED BY <4>1, <4>2
    <3>2. CASE m \notin 1 .. seq - 1
      <4>1. seq \in Nat /\ seq' \in {seq, seq + 1}
        BY DEF TypeOK
      <4>2. m = seq /\ seq' # seq
        <5>1. m \in 1 .. seq' - 1
          BY <2>2
        <5> HIDE DEF IInv
        <5>2. CASE seq' = seq
          BY <3>2, <5>1, <5>2
        <5>3. CASE seq' = seq + 1
          <6>1. m \in 1 .. seq
            BY <4>1, <5>1, <5>3
          <6> QED BY <3>2, <4>1, <5>3, <6>1
        <5> QED BY <4>1, <5>2, <5>3
      <4>3. PICK x \in X : TRUE
        BY <4>2
      <4>4. x = [epoch |-> epoch, seq |-> m, cat |-> x.cat]
        BY <4>2 DEF Event
      <4> QED BY <4>3, <4>4
    <3> QED BY <3>1, <3>2
  <2> QED BY <2>2 DEF NoSilentLoss
<1> QED BY <1>5, <1>6, <1>7, <1>8

LEMMA Nothing ==
  ToSet(<< >>) = {} /\ Ordered(<< >>) /\ << >> \in Seq(Event)
<1>1. << >> \in Seq(Event) /\ Len(<< >>) = 0
  BY EmptySeq
<1> QED BY <1>1 DEF ToSet, Ordered

(* What flush() puts on the chain.                                         *)
LEMMA FlushedTask ==
  ASSUME NEW b \in Seq(Event), b # << >>
  PROVE  /\ [evs |-> b, audit |-> FALSE] \in Task
         /\ Flushed(b) = Append(chain, [evs |-> b, audit |-> FALSE])
  BY DEF Task, Flushed

LEMMA LogAppKeeps ==
  ASSUME ConstantsAssumption, IInv, LogApp PROVE IInv'
<1> DEFINE x == Signed("app")
           batch == Append(pending, x)
           t == [evs |-> batch, audit |-> FALSE]
<1>1. TypeOK /\ IInv /\ seq \in Nat /\ epoch \in Nat /\ seq <= MaxEvents /\ MaxEvents \in Nat
  BY DEF IInv, TypeOK, LogApp, CanLog, ConstantsAssumption
<1>2. /\ x \in Event /\ x.epoch = epoch /\ x.seq = seq /\ x.cat = "app" /\ "app" \in load
  BY <1>1 DEF Signed, Event, LogApp
<1> HIDE DEF x
<1>3. /\ batch \in Seq(Event) /\ Len(batch) = Len(pending) + 1 /\ Len(pending) \in Nat
      /\ ToSet(batch) = ToSet(pending) \cup {x} /\ pending \in Seq(Event)
  BY <1>1, <1>2, OneMore, LenProperties DEF TypeOK
<1>4. \A e \in ToSet(pending) : e \in Event /\ Logged(e) /\ e.cat = "app"
  BY <1>1, Entries DEF IInv, TypeOK, PlaceInv, Mine
<1>5. Ordered(batch)
  BY <1>1, <1>2, <1>3, <1>4, NewIsLast, OrderedOneMore DEF IInv, OrderInv
<1>6. /\ UNCHANGED <<load, epoch, waiting, progress, tries, file, cut, lost, acked, refused, life, lastBatch>>
      /\ seq' = seq + 1
  BY DEF LogApp
<1>u. /\ UNCHANGED <<load, epoch, progress, file, cut, lost, acked, refused>>
      /\ seq' = seq + 1
  BY <1>6
<1>7. Waiters' = Waiters /\ \A e \in Waiters : e \in Event /\ e.cat = "audit"
  BY <1>1, <1>6, EventTypes DEF Waiters, IInv, PlaceInv
<1>8. \A i, j \in 1 .. Len(waiting') : waiting'[i].ev = waiting'[j].ev => i = j
  BY <1>6 DEF IInv, OrderInv
<1>9. seq' \in 1 .. MaxEvents + 1
  BY <1>1, <1>6
<1>10. PICK X \in SUBSET Event : X = {x}
  BY <1>2
<1>m. /\ \A y \in X : y.epoch = epoch /\ y.seq = seq /\ y.cat \in load
      /\ X # {} /\ seq' = seq + 1
  BY <1>2, <1>6, <1>10
<1> HIDE DEF batch
<1>11. CASE Len(batch) >= BatchSize
  <2>1. pending' = << >> /\ chain' = Flushed(batch)
    BY <1>11 DEF LogApp, batch, x
  <2>2. batch # << >>
    BY <1>3, EmptySeq
  <2>3. t \in Task /\ chain' = Append(chain, t) /\ t.evs = batch
    BY <1>3, <2>1, <2>2, FlushedTask
  <2> HIDE DEF t
  <2>4. Queued' = Queued \cup ToSet(batch) /\ chain' \in Seq(Task)
    BY <1>1, <2>3, ChainLonger
  <2>5. TypeOK'
    BY <1>1, <1>6, <1>9, <2>1, <2>4, Nothing DEF TypeOK
  <2>6. ToSet(pending)' = {} /\ Ordered(pending)'
    BY <2>1, Nothing
  <2>7. InTransit \cup {x} \subseteq InTransit'
    <3>1. InTransit = ToSet(pending) \cup Queued \cup Waiters
      BY <1>1, EventTypes
    <3>2. InTransit' = ToSet(pending)' \cup Queued' \cup Waiters'
      BY DEF InTransit, Waiters
    <3> QED BY <1>3, <1>7, <2>4, <3>1, <3>2
  <2>8. \A e \in ToSet(t.evs), f \in (ToSet(pending) \cup Waiters)' : Before(e, f)
    <3>1. \A e \in ToSet(t.evs) : e \in Event /\ e.cat = "app"
      BY <1>2, <1>3, <1>4, <2>3
    <3>2. \A f \in (ToSet(pending) \cup Waiters)' : f \in Event /\ f.cat = "audit"
      BY <1>7, <2>6
    <3> QED BY <3>1, <3>2, OtherKind
  <2>9. /\ (ToSet(pending) \cup Waiters)' \subseteq ToSet(pending) \cup Waiters \cup {x}
        /\ ToSet(t.evs) \subseteq ToSet(pending) \cup Waiters \cup {x} /\ Ordered(t.evs)
        /\ \A e \in ToSet(pending)' : e.cat = "app"
        /\ \A e \in Waiters' : e.cat = "audit"
    <3>1. /\ (ToSet(pending) \cup Waiters)' \subseteq ToSet(pending) \cup Waiters \cup {x}
          /\ \A e \in ToSet(pending)' : e.cat = "app"
      BY <1>7, <2>6
    <3>2. \A e \in Waiters' : e.cat = "audit"
      BY <1>7
    <3> QED BY <1>3, <1>5, <2>3, <3>1, <3>2
  <2>10. /\ (ToSet(pending) \cup Waiters)' \subseteq ToSet(pending) \cup Waiters \cup X
         /\ ToSet(t.evs) \subseteq ToSet(pending) \cup Waiters \cup X
         /\ InTransit \cup X \subseteq InTransit'
    BY <1>10, <2>7, <2>9
  <2>11. /\ chain' = Append(chain, t) /\ Ordered(t.evs) /\ t \in Task
         /\ ToSet(t.evs) \subseteq ToSet(pending) \cup Waiters \cup X
         /\ \A e \in ToSet(t.evs), f \in (ToSet(pending) \cup Waiters)' : Before(e, f)
    BY <2>3, <2>8, <2>9, <2>10
  <2> QED BY <1>1, <1>m, <1>u, <1>8, <2>5, <2>6, <2>9, <2>10, <2>11, Moved
<1>12. CASE ~(Len(batch) >= BatchSize)
  <2>1. pending' = batch /\ chain' = chain
    BY <1>12 DEF LogApp, batch, x
  <2>2. Queued' = Queued
    BY <2>1 DEF Queued
  <2>3. TypeOK'
    BY <1>1, <1>3, <1>6, <1>9, <2>1 DEF TypeOK
  <2>4. InTransit \cup {x} \subseteq InTransit'
    <3>1. InTransit = ToSet(pending) \cup Queued \cup Waiters
      BY <1>1, EventTypes
    <3>2. InTransit' = ToSet(pending)' \cup Queued' \cup Waiters'
      BY DEF InTransit, Waiters
    <3> QED BY <1>3, <1>7, <2>1, <2>2, <3>1, <3>2
  <2>5. ToSet(pending)' = ToSet(pending) \cup {x} /\ Ordered(pending)'
    BY <1>3, <1>5, <2>1
  <2>6. t \in Task
    BY <1>3 DEF Task
  <2>7. /\ (ToSet(pending) \cup Waiters)' \subseteq ToSet(pending) \cup Waiters \cup {x}
        /\ \A e \in ToSet(pending)' : e.cat = "app"
        /\ \A e \in Waiters' : e.cat = "audit"
    <3>1. (ToSet(pending) \cup Waiters)' \subseteq ToSet(pending) \cup Waiters \cup {x}
      BY <1>7, <2>5
    <3>2. \A e \in ToSet(pending)' : e.cat = "app"
      BY <1>2, <1>4, <2>5
    <3>3. \A e \in Waiters' : e.cat = "audit"
      BY <1>7
    <3> QED BY <3>1, <3>2, <3>3
  <2>8. /\ (ToSet(pending) \cup Waiters)' \subseteq ToSet(pending) \cup Waiters \cup X
        /\ InTransit \cup X \subseteq InTransit'
    BY <1>10, <2>4, <2>7
  <2> HIDE DEF t
  <2>9. chain' = chain /\ t \in Task
    BY <2>1, <2>6
  <2> QED BY <1>1, <1>m, <1>u, <1>8, <2>3, <2>5, <2>7, <2>8, <2>9, Moved
<1> QED BY <1>11, <1>12

(* The batch goes to the chain; an audit call, if any, begins to wait.     *)
LEMMA FlushKeeps ==
  ASSUME IInv, TypeOK', NEW X \in SUBSET Event,
         UNCHANGED <<load, epoch, progress, file, cut, lost, acked, refused>>,
         \A x \in X : x.epoch = epoch /\ x.seq = seq /\ x.cat = "audit" /\ x.cat \in load,
         (X = {} /\ seq' = seq) \/ (X # {} /\ seq' = seq + 1),
         chain' = Flushed(pending), pending' = << >>, Waiters' = Waiters \cup X,
         \A i, j \in 1 .. Len(waiting') : waiting'[i].ev = waiting'[j].ev => i = j
  PROVE  IInv'
<1> DEFINE t == [evs |-> pending, audit |-> FALSE]
<1>1. TypeOK /\ pending \in Seq(Event) /\ Ordered(pending)
  BY DEF IInv, TypeOK, OrderInv
<1>2. t \in Task /\ t.evs = pending
  BY <1>1 DEF Task
<1>3. ToSet(pending)' = {} /\ Ordered(pending)'
  BY Nothing
<1>4. /\ \A e \in Waiters \cup X : e \in Event /\ e.cat = "audit"
      /\ \A e \in ToSet(pending) : e \in Event /\ e.cat = "app"
  BY <1>1, EventTypes DEF IInv, PlaceInv
<1>5. /\ InTransit = ToSet(pending) \cup Queued \cup Waiters
      /\ InTransit' = ToSet(pending)' \cup Queued' \cup Waiters'
  <2>1. InTransit' = ToSet(pending)' \cup Queued' \cup Waiters'
    BY DEF InTransit, Waiters
  <2> QED BY <1>1, <2>1, EventTypes
<1>6. CASE pending = << >>
  <2>1. chain' = chain /\ Queued' = Queued
    BY <1>6 DEF Flushed, Queued
  <2>2. InTransit \cup X \subseteq InTransit'
    BY <1>5, <1>6, <2>1, Nothing
  <2>3. /\ (ToSet(pending) \cup Waiters)' \subseteq ToSet(pending) \cup Waiters \cup X
        /\ \A e \in ToSet(pending)' : e.cat = "app"
        /\ \A e \in Waiters' : e.cat = "audit"
    BY <1>3, <1>4
  <2> QED BY <1>2, <1>3, <2>1, <2>2, <2>3, Moved
<1>7. CASE pending # << >>
  <2>1. chain' = Append(chain, t)
    BY <1>1, <1>7, FlushedTask
  <2>2. Queued' = Queued \cup ToSet(t.evs)
    BY <1>1, <1>2, <2>1, ChainLonger
  <2> HIDE DEF t
  <2>3. InTransit \cup X \subseteq InTransit'
    BY <1>2, <1>5, <2>2
  <2>4. \A e \in ToSet(t.evs), f \in (ToSet(pending) \cup Waiters)' : Before(e, f)
    BY <1>2, <1>3, <1>4, OtherKind
  <2>5. /\ (ToSet(pending) \cup Waiters)' \subseteq ToSet(pending) \cup Waiters \cup X
        /\ ToSet(t.evs) \subseteq ToSet(pending) \cup Waiters \cup X /\ Ordered(t.evs)
        /\ \A e \in ToSet(pending)' : e.cat = "app"
        /\ \A e \in Waiters' : e.cat = "audit"
    BY <1>1, <1>2, <1>3, <1>4
  <2> QED BY <1>2, <1>3, <2>1, <2>3, <2>4, <2>5, Moved
<1> QED BY <1>6, <1>7

LEMMA FlushedType ==
  ASSUME TypeOK
  PROVE  Flushed(pending) \in Seq(Task) /\ LastOf(pending) \in Event
<1>1. /\ pending \in Seq(Event) /\ chain \in Seq(Task)
      /\ \A e \in Seq(Task), t \in Task : Append(e, t) \in Seq(Task)
  BY OneMore DEF TypeOK
<1>2. Flushed(pending) \in Seq(Task)
  BY <1>1, FlushedTask DEF Flushed
<1>3. pending # << >> => Len(pending) \in 1 .. Len(pending)
  BY <1>1, EmptySeq, LenProperties
<1>4. pending # << >> => pending[Len(pending)] \in Event
  BY <1>1, <1>3, ElementOfSeq
<1> QED BY <1>2, <1>4 DEF LastOf, None, Event

LEMMA TimerFlushKeeps == ASSUME IInv, TimerFlush PROVE IInv'
<1>1. /\ UNCHANGED <<load, epoch, seq, waiting, progress, tries, file, cut, lost, acked, refused, life, lastBatch>>
      /\ chain' = Flushed(pending) /\ pending' = << >>
  BY DEF TimerFlush
<1>2. TypeOK'
  BY <1>1, FlushedType, Nothing DEF IInv, TypeOK
<1>3. Waiters' = Waiters
  BY <1>1 DEF Waiters
<1>4. \A i, j \in 1 .. Len(waiting') : waiting'[i].ev = waiting'[j].ev => i = j
  BY <1>1 DEF IInv, OrderInv
<1>5. {} \in SUBSET Event /\ Waiters' = Waiters \cup {}
  BY <1>3
<1> QED BY <1>1, <1>2, <1>4, <1>5, FlushKeeps

LEMMA CloseKeeps == ASSUME IInv, Close PROVE IInv'
<1>1. /\ UNCHANGED <<load, epoch, seq, waiting, progress, tries, file, cut, lost, acked, refused>>
      /\ chain' = Flushed(pending) /\ pending' = << >>
      /\ lastBatch' = LastOf(pending) /\ life' = "closing"
  BY DEF Close
<1>2. TypeOK'
  BY <1>1, FlushedType, Nothing DEF IInv, TypeOK
<1>3. Waiters' = Waiters
  BY <1>1 DEF Waiters
<1>4. \A i, j \in 1 .. Len(waiting') : waiting'[i].ev = waiting'[j].ev => i = j
  BY <1>1 DEF IInv, OrderInv
<1>5. {} \in SUBSET Event /\ Waiters' = Waiters \cup {}
  BY <1>3
<1> QED BY <1>1, <1>2, <1>4, <1>5, FlushKeeps

LEMMA LogAuditKeeps == ASSUME ConstantsAssumption, IInv, LogAudit PROVE IInv'
<1> DEFINE x == Signed("audit")
           w == [ev |-> x, after |-> LastOf(pending)]
<1>1. /\ UNCHANGED <<load, epoch, progress, tries, file, cut, lost, acked, refused, life, lastBatch>>
      /\ chain' = Flushed(pending) /\ pending' = << >>
      /\ waiting' = Append(waiting, w) /\ seq' = seq + 1
  BY DEF LogAudit
<1>2. TypeOK /\ IInv /\ seq \in Nat /\ epoch \in Nat /\ seq <= MaxEvents /\ MaxEvents \in Nat
  BY DEF IInv, TypeOK, LogAudit, CanLog, ConstantsAssumption
<1>3. /\ x \in Event /\ x.epoch = epoch /\ x.seq = seq /\ x.cat = "audit" /\ "audit" \in load
  BY <1>2 DEF Signed, Event, LogAudit
<1>4. w \in Waiter /\ w.ev = x
  BY <1>2, <1>3, FlushedType DEF Waiter
<1> HIDE DEF x, w
<1>5. /\ waiting' \in Seq(Waiter) /\ Len(waiting') = Len(waiting) + 1 /\ Len(waiting) \in Nat
      /\ waiting'[Len(waiting) + 1] = w
      /\ \A i \in 1 .. Len(waiting) : waiting'[i] = waiting[i]
      /\ \A i \in 1 .. Len(waiting') : i \in 1 .. Len(waiting) \/ i = Len(waiting) + 1
  <2>1. waiting \in Seq(Waiter) /\ Len(waiting) \in Nat
    BY <1>2, LenProperties DEF TypeOK
  <2>2. /\ waiting' \in Seq(Waiter) /\ Len(waiting') = Len(waiting) + 1
        /\ waiting'[Len(waiting) + 1] = w
        /\ \A i \in 1 .. Len(waiting) : waiting'[i] = waiting[i]
    BY <1>1, <1>4, <2>1, OneMore
  <2> QED BY <2>1, <2>2
<1>6. seq' \in 1 .. MaxEvents + 1
  BY <1>1, <1>2
<1>7. TypeOK'
  BY <1>1, <1>2, <1>5, <1>6, FlushedType, Nothing DEF TypeOK
<1>8. Waiters' = Waiters \cup {x}
  <2>1. /\ \A e : e \in Waiters <=> \E i \in 1 .. Len(waiting) : e = waiting[i].ev
        /\ \A e : e \in Waiters' <=> \E i \in 1 .. Len(waiting') : e = waiting'[i].ev
    BY DEF Waiters
  <2>2. /\ Len(waiting) + 1 \in 1 .. Len(waiting')
        /\ \A i \in 1 .. Len(waiting) : i \in 1 .. Len(waiting')
    BY <1>5
  <2>3. \A e : e \in Waiters' <=> e \in Waiters \/ e = x
    BY <1>4, <1>5, <2>1, <2>2
  <2> QED BY <2>3
<1>9. \A i \in 1 .. Len(waiting) : waiting[i].ev # x
  <2>1. \A e \in Waiters : e \in Event /\ Logged(e)
    BY <1>2, EventTypes DEF IInv, PlaceInv, Mine
  <2>2. x \notin Waiters
    BY <1>2, <1>3, <2>1, NewIsLast DEF Before
  <2> QED BY <2>2 DEF Waiters
<1>10. \A i, j \in 1 .. Len(waiting') : waiting'[i].ev = waiting'[j].ev => i = j
  <2>1. \A i, j \in 1 .. Len(waiting) : waiting[i].ev = waiting[j].ev => i = j
    BY <1>2 DEF IInv, OrderInv
  <2> QED BY <1>4, <1>5, <1>9, <2>1
<1>11. /\ {x} \in SUBSET Event /\ {x} # {}
       /\ \A y \in {x} : y.epoch = epoch /\ y.seq = seq /\ y.cat = "audit" /\ y.cat \in load
  BY <1>3
<1> QED BY <1>1, <1>7, <1>8, <1>10, <1>11, FlushKeeps

(* A step that moves no event and writes nothing.                          *)
LEMMA StillKeeps ==
  ASSUME IInv, TypeOK',
         UNCHANGED <<load, epoch, seq, pending, waiting, chain, progress, file, cut, lost, acked, refused>>
  PROVE  IInv'
<1>1. /\ ToSet(pending)' = ToSet(pending) /\ Waiters' = Waiters /\ InTransit' = InTransit
  BY DEF Waiters, InTransit, Queued
<1>2. /\ {} \in SUBSET Event /\ InTransit \cup {} \subseteq InTransit'
      /\ (ToSet(pending) \cup Waiters)' \subseteq ToSet(pending) \cup Waiters \cup {}
      /\ Ordered(pending)'
      /\ \A e \in ToSet(pending)' : e.cat = "app"
      /\ \A e \in Waiters' : e.cat = "audit"
      /\ \A i, j \in 1 .. Len(waiting') : waiting'[i].ev = waiting'[j].ev => i = j
  BY <1>1 DEF IInv, PlaceInv, OrderInv
<1>3. [evs |-> << >>, audit |-> FALSE] \in Task
  BY Nothing DEF Task
<1> QED BY <1>2, <1>3, Moved

LEMMA WriteImmediateKeeps ==
  ASSUME IInv, NEW k \in 1 .. Len(waiting), WriteImmediate(k) PROVE IInv'
<1> DEFINE x == waiting[k].ev
           t == [evs |-> <<x>>, audit |-> TRUE]
<1>1. /\ UNCHANGED <<load, epoch, seq, pending, progress, tries, file, cut, lost, acked, refused, life, lastBatch>>
      /\ chain' = Append(chain, t) /\ waiting' = RemoveAt(waiting, k)
  BY DEF WriteImmediate
<1>2. TypeOK /\ waiting \in Seq(Waiter) /\ Len(waiting) \in Nat /\ k \in Nat
  BY LenProperties DEF IInv, TypeOK
<1>3. x \in Event /\ x \in Waiters
  BY <1>2, EventTypes
<1>4. t \in Task /\ t.evs = <<x>> /\ Ordered(t.evs) /\ ToSet(t.evs) = {x}
  <2> HIDE DEF x
  <2>1. <<x>> \in Seq(Event) /\ Len(<<x>>) = 1 /\ <<x>>[1] = x
    BY <1>3
  <2>2. t \in Task /\ t.evs = <<x>>
    BY <2>1 DEF Task
  <2>3. Ordered(<<x>>) /\ ToSet(<<x>>) = {x}
    BY <2>1 DEF Ordered, ToSet
  <2> QED BY <2>2, <2>3
<1>5. /\ waiting' \in Seq(Waiter) /\ Len(waiting') = Len(waiting) - 1
      /\ \A i \in 1 .. Len(waiting) - 1 : waiting'[i] = waiting[IF i < k THEN i ELSE i + 1]
      /\ \A i \in 1 .. Len(waiting) : i # k =>
           \E j \in 1 .. Len(waiting) - 1 : waiting'[j] = waiting[i]
  BY <1>1, <1>2, OneLess
<1> DEFINE g(i) == IF i < k THEN i ELSE i + 1
<1>6. /\ \A i \in 1 .. Len(waiting) - 1 : g(i) \in 1 .. Len(waiting) /\ g(i) # k
      /\ \A i, j \in 1 .. Len(waiting) - 1 : g(i) = g(j) => i = j
  BY <1>2
<1>7. \A i, j \in 1 .. Len(waiting) : waiting[i].ev = waiting[j].ev => i = j
  BY DEF IInv, OrderInv
<1>8. \A i \in 1 .. Len(waiting) - 1 : waiting'[i] = waiting[g(i)]
  BY <1>5
<1> HIDE DEF g
<1>9. \A i, j \in 1 .. Len(waiting') : waiting'[i].ev = waiting'[j].ev => i = j
  <2>1. ASSUME NEW i \in 1 .. Len(waiting) - 1, NEW j \in 1 .. Len(waiting) - 1,
               waiting'[i].ev = waiting'[j].ev
        PROVE  i = j
    <3>1. waiting[g(i)].ev = waiting[g(j)].ev
      BY <1>8, <2>1
    <3>2. g(i) = g(j)
      BY <1>6, <1>7, <3>1
    <3> QED BY <1>6, <3>2
  <2> QED BY <1>5, <2>1
<1>10. /\ \A e : e \in Waiters <=> \E i \in 1 .. Len(waiting) : e = waiting[i].ev
       /\ \A e : e \in Waiters' <=> \E i \in 1 .. Len(waiting) - 1 : e = waiting'[i].ev
  BY <1>5 DEF Waiters
<1>11. Waiters' \subseteq Waiters /\ Waiters \subseteq Waiters' \cup {x} /\ x \notin Waiters'
  <2>1. \A e : e \in Waiters' => e \in Waiters /\ e # x
    BY <1>6, <1>7, <1>8, <1>10
  <2>2. \A e : e \in Waiters => e \in Waiters' \/ e = x
    BY <1>5, <1>10
  <2> QED BY <2>1, <2>2
<1> HIDE DEF x, t
<1>12. chain' \in Seq(Task) /\ Queued' = Queued \cup {x}
  BY <1>1, <1>2, <1>4, ChainLonger
<1>13. TypeOK'
  BY <1>1, <1>2, <1>5, <1>12 DEF TypeOK
<1>14. InTransit \subseteq InTransit'
  <2>1. InTransit = ToSet(pending) \cup Queued \cup Waiters
    BY <1>2, EventTypes
  <2>2. InTransit' = ToSet(pending)' \cup Queued' \cup Waiters'
    BY DEF InTransit, Waiters
  <2> QED BY <1>1, <1>11, <1>12, <2>1, <2>2
<1>15. /\ \A e \in Waiters : e \in Event /\ e.cat = "audit"
       /\ \A e \in ToSet(pending) : e \in Event /\ e.cat = "app"
  BY <1>2, EventTypes DEF IInv, PlaceInv
<1>16. \A e \in ToSet(t.evs), f \in (ToSet(pending) \cup Waiters)' : Before(e, f)
  <2>1. \A f \in ToSet(pending) : Before(x, f)
    BY <1>3, <1>15, OtherKind
  <2>2. \A f \in Waiters' : Before(x, f)
    BY <1>3, <1>11, <1>15 DEF Before
  <2> QED BY <1>1, <1>4, <2>1, <2>2
<1>17. /\ (ToSet(pending) \cup Waiters)' \subseteq ToSet(pending) \cup Waiters \cup {}
       /\ ToSet(t.evs) \subseteq ToSet(pending) \cup Waiters \cup {}
       /\ InTransit \cup {} \subseteq InTransit' /\ {} \in SUBSET Event
       /\ \A e \in ToSet(pending)' : e.cat = "app"
       /\ \A e \in Waiters' : e.cat = "audit"
       /\ Ordered(pending)'
  BY <1>1, <1>3, <1>4, <1>11, <1>14, <1>15 DEF IInv, OrderInv
<1> QED BY <1>1, <1>4, <1>9, <1>13, <1>16, <1>17, Moved

-----------------------------------------------------------------------------
(* Delivery.                                                               *)

(* In an ordered file the event that comes before in the chain of          *)
(* signatures is the entry before.                                         *)
LEMMA LinkBefore ==
  ASSUME NEW u \in Seq(Event), Ordered(u), \A e \in ToSet(u) : e.cat = "app",
         \A i, j \in 1 .. Len(u) : i < j => u[i].epoch <= u[j].epoch,
         NEW i \in 1 .. Len(u), NEW p \in ToSet(u),
         p.epoch = u[i].epoch, p.seq = u[i].seq - 1
  PROVE  i > 1 /\ u[i - 1] = p
<1>1. /\ Len(u) \in Nat
      /\ \A k \in 1 .. Len(u) : u[k] \in Event /\ u[k].cat = "app"
      /\ \E j \in 1 .. Len(u) : p = u[j]
  <2>1. Len(u) \in Nat /\ (\A e : e \in ToSet(u) <=> \E j \in 1 .. Len(u) : e = u[j])
    BY Entries
  <2> QED BY <2>1, Entries
<1>2. PICK j \in 1 .. Len(u) : p = u[j]
  BY <1>1
<1>3. \A k, l \in 1 .. Len(u) : k < l => Before(u[k], u[l])
  BY DEF Ordered
<1>4. /\ \A k \in 1 .. Len(u) : u[k].seq \in Nat /\ u[k].epoch \in Nat
  BY <1>1 DEF Event
<1>5. \A k, l \in 1 .. Len(u) :
        k < l /\ u[k].epoch = u[l].epoch => u[k].seq < u[l].seq
  BY <1>1, <1>3 DEF Before
<1>6. ~(i < j)
  <2>1. SUFFICES ASSUME i < j PROVE FALSE
    OBVIOUS
  <2>2. u[i].seq < u[j].seq
    BY <1>2, <1>5, <2>1
  <2> QED BY <1>2, <1>4, <2>2
<1>7. i # j
  BY <1>2, <1>4
<1>8. i > 1
  BY <1>1, <1>2, <1>6, <1>7
<1>9. CASE i - 1 = j
  BY <1>2, <1>8, <1>9
<1>10. CASE i - 1 # j
  <2> DEFINE g == i - 1
  <2>1. g \in 1 .. Len(u) /\ j < g /\ g < i
    BY <1>1, <1>2, <1>6, <1>7, <1>10
  <2> HIDE DEF g
  <2>2. u[j].epoch <= u[g].epoch /\ u[g].epoch <= u[i].epoch
    BY <1>2, <2>1
  <2>3. u[g].epoch = u[i].epoch /\ u[j].epoch = u[g].epoch
    BY <1>2, <1>4, <2>1, <2>2
  <2>4. u[j].seq < u[g].seq /\ u[g].seq < u[i].seq
    BY <1>2, <1>5, <2>1, <2>3
  <2>5. u[j].seq = u[i].seq - 1
    BY <1>2
  <2> QED BY <1>2, <1>4, <2>1, <2>4, <2>5
<1> QED BY <1>9, <1>10

(* The first task.                                                         *)
LEMMA Head1 ==
  ASSUME TypeOK, chain # << >>
  PROVE  /\ 1 \in 1 .. Len(chain) /\ chain[1].evs \in Seq(Event) /\ Len(chain) \in Nat
         /\ Q(1) \subseteq Queued /\ Q(1) \subseteq Event
<1>1. 1 \in 1 .. Len(chain) /\ Len(chain) \in Nat
  BY EmptySeq, LenProperties DEF TypeOK
<1> QED BY <1>1, EventTypes

LEMMA Prefix ==
  ASSUME NEW S, NEW q \in Seq(S), NEW n \in 0 .. Len(q)
  PROVE  /\ SubSeq(q, 1, n) \in Seq(S) /\ Len(SubSeq(q, 1, n)) = n
         /\ \A i \in 1 .. n : SubSeq(q, 1, n)[i] = q[i]
         /\ ToSet(SubSeq(q, 1, n)) \subseteq ToSet(q)
         /\ n = Len(q) => ToSet(SubSeq(q, 1, n)) = ToSet(q)
<1> DEFINE u == SubSeq(q, 1, n)
<1>1. Len(q) \in Nat /\ n \in Nat /\ \A i \in 1 .. n : i \in 1 .. Len(q) /\ q[i] \in S
  <2>1. Len(q) \in Nat /\ n \in Nat /\ \A i \in 1 .. n : i \in 1 .. Len(q)
    BY LenProperties
  <2> QED BY <2>1, ElementOfSeq
<1>2. /\ u \in Seq(S) /\ Len(u) = n /\ \A i \in 1 .. n : u[i] = q[i]
  <2>1. u \in Seq(S) /\ Len(u) = IF 1 <= n THEN n - 1 + 1 ELSE 0
    BY <1>1, SubSeqProperties
  <2>2. \A i \in 1 .. n - 1 + 1 : u[i] = q[1 + i - 1]
    BY <1>1, SubSeqProperties
  <2> HIDE DEF u
  <2>3. Len(u) = n
    BY <1>1, <2>1
  <2>4. \A i \in 1 .. n : i \in 1 .. n - 1 + 1 /\ 1 + i - 1 = i
    BY <1>1
  <2> QED BY <2>1, <2>2, <2>3, <2>4
<1> HIDE DEF u
<1>3. /\ \A x : x \in ToSet(q) <=> \E i \in 1 .. Len(q) : x = q[i]
      /\ \A x : x \in ToSet(u) <=> \E i \in 1 .. Len(u) : x = u[i]
  BY <1>2, Entries
<1>4. ToSet(u) \subseteq ToSet(q) /\ (n = Len(q) => ToSet(u) = ToSet(q))
  BY <1>1, <1>2, <1>3
<1> QED BY <1>2, <1>4 DEF u

(* A sink gets the beginning of the first task.                            *)
LEMMA SinkGets ==
  ASSUME ConstantsAssumption, IInv, NEW s \in Sinks, chain # << >>, progress[s] = "writing",
         NEW n \in 0 .. Len(chain[1].evs), NEW torn \in BOOLEAN, Gets(s, n, torn),
         NEW p \in {"writing", "ok", "failed"}, progress' = [progress EXCEPT ![s] = p],
         p = "ok" => n = Len(chain[1].evs) /\ ~torn, torn => n > 0,
         s \notin Hooks => p # "writing", tries' \in [Sinks -> 0 .. MaxTries],
         UNCHANGED <<load, epoch, seq, pending, waiting, chain, lost, acked, refused,
                     life, lastBatch>>
  PROVE  IInv'
<1> DEFINE r == SubSeq(chain[1].evs, 1, n)
<1>1. /\ TypeOK /\ file[s] \in Seq(Event) /\ chain[1].evs \in Seq(Event)
      /\ 1 \in 1 .. Len(chain) /\ Q(1) \subseteq Queued /\ Queued \subseteq Event
      /\ ToSet(file[s]) \subseteq Event
  BY Head1, EventTypes DEF IInv, TypeOK
<1>0. /\ r \in Seq(Event) /\ Len(r) = n /\ n \in Nat
      /\ \A i \in 1 .. n : r[i] = chain[1].evs[i]
      /\ ToSet(r) \subseteq Q(1) /\ (p = "ok" => ToSet(r) = Q(1))
  BY <1>1, Prefix, LenProperties DEF Q
<1>G. /\ file' = [file EXCEPT ![s] = @ \o r]
      /\ cut' = IF torn THEN [cut EXCEPT ![s] = @ \cup {Len(file[s]) + n}] ELSE cut
  BY DEF Gets
<1> HIDE DEF r
<1>2. /\ \A z \in Sinks : z # s => file'[z] = file[z] /\ progress'[z] = progress[z]
                               /\ cut'[z] = cut[z]
      /\ file'[s] = file[s] \o r /\ progress'[s] = p
      /\ file' \in [Sinks -> Seq(Event)] /\ file'[s] \in Seq(Event)
      /\ ToSet(file'[s]) = ToSet(file[s]) \cup ToSet(r)
      /\ Len(file'[s]) = Len(file[s]) + n /\ Len(file[s]) \in Nat
      /\ \A i \in 1 .. Len(file[s]) : file'[s][i] = file[s][i]
      /\ \A i \in 1 .. n : file'[s][Len(file[s]) + i] = r[i]
      /\ cut'[s] \subseteq cut[s] \cup {Len(file[s]) + n} /\ (~torn => cut'[s] = cut[s])
      /\ cut' \in [Sinks -> SUBSET Nat]
  <2>1. /\ file[s] \o r \in Seq(Event) /\ ToSet(file[s] \o r) = ToSet(file[s]) \cup ToSet(r)
        /\ Len(file[s] \o r) = Len(file[s]) + Len(r) /\ Len(file[s]) \in Nat
        /\ \A i \in 1 .. Len(file[s]) : (file[s] \o r)[i] = file[s][i]
        /\ \A i \in 1 .. Len(r) : (file[s] \o r)[Len(file[s]) + i] = r[i]
    <3>1. file[s] \in Seq(Event) /\ r \in Seq(Event)
      BY <1>0, <1>1
    <3>2. file[s] \o r \in Seq(Event) /\ ToSet(file[s] \o r) = ToSet(file[s]) \cup ToSet(r)
      BY <3>1, Joined
    <3>3. /\ Len(file[s] \o r) = Len(file[s]) + Len(r)
          /\ \A i \in 1 .. Len(file[s]) : (file[s] \o r)[i] = file[s][i]
          /\ \A i \in 1 .. Len(r) : (file[s] \o r)[Len(file[s]) + i] = r[i]
      BY <3>1, Joined
    <3>4. Len(file[s]) \in Nat
      BY <3>1, LenProperties
    <3> QED BY <3>2, <3>3, <3>4
  <2>2. file \in [Sinks -> Seq(Event)] /\ cut \in [Sinks -> SUBSET Nat]
        /\ progress \in [Sinks -> {"idle", "writing", "ok", "failed"}]
    BY <1>1 DEF TypeOK
  <2>3. Len(file[s]) + n \in Nat
    BY <1>0, <2>1
  <2> QED BY <1>0, <1>G, <2>1, <2>2, <2>3
<1>3. TypeOK'
  BY <1>1, <1>2 DEF TypeOK
<1>4. /\ ToSet(pending)' = ToSet(pending) /\ Waiters' = Waiters /\ InTransit' = InTransit
      /\ Queued' = Queued /\ \A k \in 1 .. Len(chain) : Q(k)' = Q(k)
  BY DEF Waiters, InTransit, Queued, Q
<1>5. /\ \A e : (Logged(e)' <=> Logged(e)) /\ (Mine(e)' <=> Mine(e))
      /\ \A e \in Queued : Mine(e) /\ Logged(e)
  BY DEF Logged, Mine, IInv, PlaceInv
<1>6. PlaceInv'
  BY <1>4, <1>5 DEF IInv, PlaceInv
<1>7. OrderInv'
  BY <1>4, <1>5 DEF IInv, OrderInv
<1>8. s \notin Hooks =>
        \A e \in ToSet(file[s]), f \in Q(1) : Before(e, f)
  BY <1>1 DEF IInv, FileInv, Written
<1>9. s \notin Hooks => Ordered(file'[s])
  <2>1. Ordered(r)
    <3>1. Ordered(chain[1].evs)
      BY <1>1 DEF IInv, OrderInv
    <3>2. Len(chain[1].evs) \in Nat /\ \A i \in 1 .. n : i \in 1 .. Len(chain[1].evs)
      BY <1>1, LenProperties
    <3> QED BY <1>0, <3>1, <3>2 DEF Ordered
  <2>2. s \notin Hooks => Ordered(file[s])
    BY DEF IInv, FileInv
  <2> QED BY <1>0, <1>1, <1>2, <1>8, <2>1, <2>2, OrderedJoined
<1>10. s \notin Hooks =>
         \A i, j \in 1 .. Len(file'[s]) : i < j => file'[s][i].epoch <= file'[s][j].epoch
  <2> DEFINE u == file'[s]
             a == file[s]
  <2>1. /\ Len(a) \in Nat /\ Len(r) \in Nat
        /\ \A k \in 1 .. Len(a) : u[k] = a[k] /\ a[k] \in ToSet(a)
        /\ \A k \in 1 .. Len(u) :
             k \in 1 .. Len(a) \/ (k - Len(a) \in 1 .. Len(r) /\ u[k] = r[k - Len(a)])
        /\ \A k \in 1 .. Len(r) : r[k] \in Q(1)
    <3>1. \A k \in 1 .. Len(r) : r[k] \in ToSet(r)
      BY <1>0, Entries
    <3> QED BY <1>0, <1>1, <1>2, <3>1, Joined, Entries
  <2>2. s \notin Hooks => \A i, j \in 1 .. Len(a) : i < j => a[i].epoch <= a[j].epoch
    BY DEF IInv, FileInv
  <2>3. \A e \in ToSet(a) : e.epoch <= epoch
    BY DEF IInv, SinkInv, Logged
  <2>4. \A e \in Q(1) : e.epoch = epoch
    BY <1>1, <1>5 DEF Mine
  <2>5. epoch \in Nat
    BY <1>1 DEF TypeOK
  <2> HIDE DEF u, a
  <2>6. ASSUME s \notin Hooks, NEW i \in 1 .. Len(u), NEW j \in 1 .. Len(u), i < j
        PROVE  u[i].epoch <= u[j].epoch
    <3>1. CASE j \in 1 .. Len(a)
      <4>1. i \in 1 .. Len(a)
        BY <2>1, <2>6, <3>1
      <4> QED BY <2>1, <2>2, <2>6, <3>1, <4>1
    <3>2. CASE j \notin 1 .. Len(a)
      <4>1. u[j].epoch = epoch
        BY <2>1, <2>4, <3>2
      <4>2. u[i].epoch <= epoch
        <5>1. CASE i \in 1 .. Len(a)
          BY <2>1, <2>3, <5>1
        <5>2. CASE i \notin 1 .. Len(a)
          <6>1. u[i].epoch = epoch
            BY <2>1, <2>4, <5>2
          <6> QED BY <2>5, <6>1
        <5> QED BY <5>1, <5>2
      <4> QED BY <4>1, <4>2
    <3> QED BY <3>1, <3>2
  <2> QED BY <2>6 DEF u
<1>11. FileInv'
  <2>1. ASSUME NEW z \in Sinks \ Hooks, z # s
        PROVE  /\ \A k \in 1 .. Len(chain') : ~Written(z, k)' =>
                    \A e \in ToSet(file'[z]), f \in Q(k)' : Before(e, f)
               /\ Ordered(file'[z])
               /\ \A i, j \in 1 .. Len(file'[z]) : i < j => file'[z][i].epoch <= file'[z][j].epoch
               /\ \A e \in ToSet(file'[z]), f \in (ToSet(pending) \cup Waiters)' : Before(e, f)
    <3>1. file'[z] = file[z] /\ progress'[z] = progress[z]
      BY <1>2, <2>1
    <3>2. \A k \in 1 .. Len(chain') : ~Written(z, k)' =>
            \A e \in ToSet(file'[z]), f \in Q(k)' : Before(e, f)
      BY <1>4, <3>1 DEF IInv, FileInv, Written
    <3> QED BY <1>4, <3>1, <3>2 DEF IInv, FileInv
  <2>2. ASSUME s \notin Hooks, NEW k \in 1 .. Len(chain'), ~Written(s, k)'
        PROVE  \A e \in ToSet(file'[s]), f \in Q(k)' : Before(e, f)
    <3>1. k \in 1 .. Len(chain) /\ k # 1 /\ ~Written(s, k) /\ Q(k)' = Q(k)
      BY <1>2, <1>4, <2>2 DEF Written
    <3>2. \A e \in ToSet(file[s]), f \in Q(k) : Before(e, f)
      BY <2>2, <3>1 DEF IInv, FileInv
    <3>3. 1 < k
      BY <3>1
    <3>4. \A e \in Q(1), f \in Q(k) : Before(e, f)
      BY <1>1, <3>1, <3>3 DEF IInv, OrderInv
    <3> QED BY <1>0, <1>2, <3>1, <3>2, <3>4
  <2>3. ASSUME s \notin Hooks
        PROVE  \A e \in ToSet(file'[s]), f \in (ToSet(pending) \cup Waiters)' : Before(e, f)
    <3>1. \A e \in ToSet(file[s]), f \in ToSet(pending) \cup Waiters : Before(e, f)
      BY <2>3 DEF IInv, FileInv
    <3>2. \A e \in Q(1), f \in ToSet(pending) \cup Waiters : Before(e, f)
      BY <1>1 DEF IInv, OrderInv
    <3> QED BY <1>0, <1>2, <1>4, <3>1, <3>2
  <2> QED BY <1>9, <1>10, <2>1, <2>2, <2>3 DEF FileInv
<1>12. \A z \in Sinks : Whole(z) \subseteq Whole(z)'
  <2>1. \A z \in Sinks : z # s => Whole(z)' = Whole(z)
    BY <1>2 DEF Whole
  <2>2. ASSUME NEW i \in 1 .. Len(file[s]), i \notin cut[s]
        PROVE  i \in 1 .. Len(file'[s]) /\ i \notin cut'[s] /\ file'[s][i] = file[s][i]
    <3>1. i \in 1 .. Len(file'[s])
      BY <1>0, <1>2
    <3>2. torn => i # Len(file[s]) + n
      BY <1>0, <1>2
    <3> QED BY <1>2, <2>2, <3>1, <3>2
  <2>3. Whole(s) \subseteq Whole(s)'
    BY <2>2 DEF Whole
  <2> QED BY <2>1, <2>3
<1>13. SinkInv'
  <2>1. ASSUME NEW z \in Sinks
        PROVE  \A e \in ToSet(file'[z]) : Logged(e)'
    BY <1>0, <1>1, <1>2, <1>5 DEF IInv, SinkInv
  <2>2. ASSUME NEW z \in Sinks
        PROVE  cut'[z] \subseteq 1 .. Len(file'[z])
    <3>1. CASE z # s
      BY <1>2, <3>1 DEF IInv, SinkInv
    <3>2. CASE z = s
      <4>1. cut[s] \subseteq 1 .. Len(file[s])
        BY DEF IInv, SinkInv
      <4>2. torn => Len(file[s]) + n \in 1 .. Len(file'[s])
        BY <1>0, <1>2
      <4>3. 1 .. Len(file[s]) \subseteq 1 .. Len(file'[s])
        BY <1>0, <1>2
      <4> QED BY <1>2, <3>2, <4>1, <4>2, <4>3
    <3> QED BY <3>1, <3>2
  <2>3. \A z \in Sinks : progress'[z] # "idle" => chain' # << >>
    OBVIOUS
  <2>4. Q(1)' = Q(1)
    BY DEF Q
  <2>5. ASSUME NEW z \in Sinks, progress'[z] = "ok"
        PROVE  Q(1) \subseteq Whole(z)'
    <3>1. CASE z # s
      <4>1. Q(1) \subseteq Whole(z)
        BY <1>2, <2>5, <3>1 DEF IInv, SinkInv
      <4> QED BY <1>12, <4>1
    <3>2. CASE z = s
      <4>1. p = "ok" /\ ~torn /\ ToSet(r) = Q(1) /\ cut'[s] = cut[s]
        BY <1>0, <1>2, <2>5, <3>2
      <4>2. ASSUME NEW e \in Q(1)
            PROVE  e \in Whole(s)'
        <5>1. PICK i \in 1 .. n : e = r[i]
          BY <1>0, <4>1, Entries
        <5> DEFINE g == Len(file[s]) + i
        <5>2. g \in 1 .. Len(file'[s]) /\ g \notin 1 .. Len(file[s]) /\ file'[s][g] = e
          BY <1>0, <1>2, <5>1
        <5> HIDE DEF g
        <5>3. g \notin cut'[s]
          BY <4>1, <5>2 DEF IInv, SinkInv
        <5> QED BY <5>2, <5>3 DEF Whole
      <4> QED BY <3>2, <4>2
    <3> QED BY <3>1, <3>2
  <2> QED BY <2>1, <2>2, <2>3, <2>4, <2>5 DEF SinkInv
<1>14. AckedIsDurable' /\ NoSilentLoss'
  <2>1. AckedIsDurable'
    BY <1>12 DEF IInv, AckedIsDurable
  <2>2. ASSUME NEW m \in 1 .. seq' - 1
        PROVE  \E c \in load' :
                 LET e == [epoch |-> epoch', seq |-> m, cat |-> c] IN
                   \/ e \in (InTransit \cup lost \cup refused)'
                   \/ \A z \in Sinks : e \in Whole(z)'
    <3>1. PICK c \in load :
            LET e == [epoch |-> epoch, seq |-> m, cat |-> c] IN
              \/ e \in InTransit \cup lost \cup refused
              \/ \A z \in Sinks : e \in Whole(z)
      BY <2>2 DEF IInv, NoSilentLoss
    <3> QED BY <1>4, <1>12, <3>1
  <2> QED BY <2>1, <2>2 DEF NoSilentLoss
<1>15. AppFileVerifies'
  <2>1. SUFFICES ASSUME load = {"app"}, lost = {}, refused = {}, s \in Files
                 PROVE  ChainValid(file'[s])
    <3>1. \A z \in Files : z \in Sinks
      BY DEF ConstantsAssumption
    <3> QED BY <1>2, <3>1 DEF IInv, AppFileVerifies, FileVerifies
  <2>2. ChainValid(file[s]) /\ s \notin Hooks
    BY <2>1 DEF IInv, AppFileVerifies, FileVerifies, ConstantsAssumption
  <2>3. PICK u \in Seq(Event) : u = file'[s]
    BY <1>2
  <2>4. \A e \in ToSet(u) : e \in Event /\ e.cat = "app"
    BY <1>0, <1>1, <1>2, <1>5, <2>1, <2>3 DEF IInv, SinkInv, Logged
  <2>5. ASSUME NEW i \in 1 .. Len(u)
        PROVE  \/ u[i].seq = 1
               \/ i > 1 /\ u[i - 1].epoch = u[i].epoch /\ u[i - 1].seq = u[i].seq - 1
    <3> DEFINE a == file[s]
               b == chain[1].evs
    <3>1. /\ Len(a) \in Nat
          /\ \A k \in 1 .. Len(a) : u[k] = a[k]
          /\ i \in 1 .. Len(a) \/ (i - Len(a) \in 1 .. Len(r) /\ u[i] = r[i - Len(a)])
      <4>1. a \in Seq(Event) /\ r \in Seq(Event) /\ u = a \o r
        BY <1>0, <1>1, <1>2, <2>3
      <4> HIDE DEF a, b
      <4>2. /\ Len(a) \in Nat /\ i \in 1 .. Len(a \o r)
            /\ \A k \in 1 .. Len(a) : (a \o r)[k] = a[k]
            /\ \A k \in 1 .. Len(a \o r) :
                 k \in 1 .. Len(a) \/ (k - Len(a) \in 1 .. Len(r) /\ (a \o r)[k] = r[k - Len(a)])
        BY <4>1, <2>5, Joined, LenProperties
      <4> QED BY <4>1, <4>2
    <3>0. \A k \in 1 .. Len(r) : r[k] \in Q(1)
      BY <1>0, Entries
    <3> HIDE DEF a, b
    <3>2. CASE i \in 1 .. Len(a)
      <4>1. i > 1 => i - 1 \in 1 .. Len(a)
        BY <3>1, <3>2
      <4>2. \/ a[i].seq = 1
            \/ i > 1 /\ a[i - 1].epoch = a[i].epoch /\ a[i - 1].seq = a[i].seq - 1
        BY <2>2, <3>2 DEF ChainValid, a
      <4> QED BY <3>1, <3>2, <4>1, <4>2
    <3>3. CASE i \notin 1 .. Len(a)
      <4>1. u[i] \in Q(1) /\ u[i] \in Queued /\ u[i] \in Event
        BY <1>1, <3>0, <3>1, <3>3
      <4>2. /\ u[i].epoch = epoch /\ u[i].seq \in Nat /\ u[i].seq >= 1 /\ u[i].seq < seq
            /\ seq \in Nat /\ epoch \in Nat /\ u[i].cat = "app"
        <5>1. Mine(u[i]) /\ seq \in Nat /\ epoch \in Nat
          BY <1>1, <1>5, <4>1 DEF TypeOK
        <5>2. u[i].seq \in Nat
          BY <4>1 DEF Event
        <5> QED BY <2>1, <5>1, <5>2 DEF Mine, Logged
      <4>3. CASE u[i].seq = 1
        BY <4>3
      <4>4. CASE u[i].seq # 1
        <5> DEFINE m == u[i].seq - 1
                   prev == [epoch |-> epoch, seq |-> m, cat |-> "app"]
        <5>1. m \in 1 .. seq - 1
          BY <4>2, <4>4
        <5>2. prev \in InTransit \/ \A z \in Sinks : prev \in Whole(z)
          <6>1. PICK c \in load :
                  LET e == [epoch |-> epoch, seq |-> m, cat |-> c] IN
                    \/ e \in InTransit \cup lost \cup refused
                    \/ \A z \in Sinks : e \in Whole(z)
            BY <5>1 DEF IInv, NoSilentLoss
          <6>2. c = "app"
            BY <2>1, <6>1
          <6> QED BY <2>1, <6>1, <6>2
        <5>3. ~Before(u[i], prev)
          BY <4>2 DEF Before
        <5>4. prev \in ToSet(u)
          <6>1. CASE prev \in InTransit
            <7>1. prev \in Queued
              <8>1. InTransit = ToSet(pending) \cup Queued \cup Waiters
                BY <1>1, EventTypes
              <8>2. \A f \in ToSet(pending) \cup Waiters : Before(u[i], f)
                BY <4>1 DEF IInv, OrderInv
              <8> QED BY <5>3, <6>1, <8>1, <8>2
            <7>2. PICK k \in 1 .. Len(chain) : prev \in Q(k)
              BY <1>1, <7>1, EventTypes
            <7>3. k = 1
              <8>1. 1 < k => \A f \in Q(k) : Before(u[i], f)
                BY <1>1, <4>1 DEF IInv, OrderInv
              <8> QED BY <5>3, <7>2, <8>1
            <7>4. prev \in ToSet(r)
              <8> DEFINE g == i - Len(file[s])
              <8>1. g \in 1 .. n /\ u[i] = b[g] /\ g \in 1 .. Len(b) /\ Len(b) \in Nat
                <9>1. g \in 1 .. n /\ u[i] = r[g]
                  BY <1>0, <3>1, <3>3 DEF a
                <9>2. Len(b) \in Nat
                  BY <1>1, LenProperties DEF b
                <9> HIDE DEF g
                <9>3. g \in 1 .. Len(b)
                  BY <9>1, <9>2 DEF b
                <9> QED BY <1>0, <9>1, <9>2, <9>3 DEF b
              <8>2. PICK j \in 1 .. Len(b) : prev = b[j]
                <9>1. b \in Seq(Event) /\ prev \in ToSet(b)
                  BY <1>1, <7>2, <7>3 DEF Q, b
                <9> QED BY <9>1, Entries
              <8> HIDE DEF g, prev
              <8>3. ~(g < j) /\ g # j
                <9>1. Ordered(b)
                  BY <1>1 DEF IInv, OrderInv, b
                <9>2. g < j => Before(b[g], b[j])
                  BY <8>1, <9>1 DEF Ordered
                <9>3. prev # u[i]
                  BY <4>2 DEF prev
                <9> QED BY <5>3, <8>1, <8>2, <9>2, <9>3
              <8>4. j \in 1 .. n /\ r[j] = prev
                <9>1. j \in 1 .. n
                  BY <8>1, <8>3
                <9> QED BY <1>0, <8>2, <9>1 DEF b
              <8> QED BY <1>0, <8>4, Entries
            <7> QED BY <1>2, <2>3, <7>4
          <6>2. CASE \A z \in Sinks : prev \in Whole(z)
            <7>1. prev \in Whole(s)
              BY <6>2
            <7>2. prev \in ToSet(file[s])
              BY <1>1, <7>1, Entries DEF Whole
            <7> QED BY <1>2, <2>3, <7>2
          <6> QED BY <5>2, <6>1, <6>2
        <5>5. prev.epoch = u[i].epoch /\ prev.seq = u[i].seq - 1
          BY <4>2
        <5> HIDE DEF prev
        <5>6. i > 1 /\ u[i - 1] = prev
          BY <1>9, <1>10, <2>2, <2>3, <2>4, <2>5, <5>4, <5>5, LinkBefore
        <5> QED BY <5>5, <5>6
      <4> QED BY <4>3, <4>4
    <3> QED BY <3>2, <3>3
  <2> QED BY <2>3, <2>5 DEF ChainValid
<1> QED BY <1>3, <1>6, <1>7, <1>11, <1>13, <1>14, <1>15 DEF IInv

LEMMA SinkWriteKeeps ==
  ASSUME ConstantsAssumption, IInv, NEW s \in Sinks, SinkWrite(s) PROVE IInv'
<1> DEFINE all == Len(chain[1].evs)
<1>1. /\ chain # << >> /\ progress[s] = "writing" /\ s \notin Hooks
      /\ UNCHANGED <<load, epoch, seq, pending, waiting, chain, tries, lost, acked, refused,
                     life, lastBatch>>
  BY DEF SinkWrite
<1>2. all \in Nat /\ all \in 0 .. all /\ tries' \in [Sinks -> 0 .. MaxTries]
  <2>1. chain[1].evs \in Seq(Event)
    BY <1>1, Head1 DEF IInv
  <2> QED BY <1>1, <2>1, LenProperties DEF IInv, TypeOK
<1>3. CASE progress' = [progress EXCEPT ![s] = "ok"] /\ Gets(s, all, FALSE)
  BY <1>1, <1>2, <1>3, SinkGets
<1>4. ASSUME progress' = [progress EXCEPT ![s] = "failed"],
             NEW n \in 0 .. all, NEW torn \in BOOLEAN,
             torn => s \in Files /\ n > 0, Gets(s, n, torn)
      PROVE  IInv'
  BY <1>1, <1>2, <1>4, SinkGets
<1>5. \/ progress' = [progress EXCEPT ![s] = "ok"] /\ Gets(s, all, FALSE)
      \/ /\ progress' = [progress EXCEPT ![s] = "failed"]
         /\ \E n \in 0 .. all, torn \in BOOLEAN :
              /\ torn => s \in Files /\ n > 0
              /\ s \notin Files => n \in {0, all}
              /\ Gets(s, n, torn)
  BY DEF SinkWrite
<1>6. CASE progress' = [progress EXCEPT ![s] = "failed"]
  <2>1. CASE progress' = [progress EXCEPT ![s] = "ok"] /\ Gets(s, all, FALSE)
    BY <1>3, <2>1
  <2>2. CASE \E n \in 0 .. all, torn \in BOOLEAN :
               /\ torn => s \in Files /\ n > 0
               /\ s \notin Files => n \in {0, all}
               /\ Gets(s, n, torn)
    <3>1. PICK n \in 0 .. all, torn \in BOOLEAN :
                 (torn => s \in Files /\ n > 0) /\ Gets(s, n, torn)
      BY <2>2
    <3> QED BY <1>4, <1>6, <3>1
  <2> QED BY <1>5, <2>1, <2>2
<1> QED BY <1>3, <1>5, <1>6

LEMMA HookTryKeeps ==
  ASSUME ConstantsAssumption, IInv, NEW s \in Sinks, HookTry(s) PROVE IInv'
<1> DEFINE all == Len(chain[1].evs)
<1>1. /\ chain # << >> /\ progress[s] = "writing" /\ s \in Hooks
      /\ UNCHANGED <<load, epoch, seq, pending, waiting, chain, lost, acked, refused,
                     life, lastBatch>>
  BY DEF HookTry
<1>2. /\ all \in Nat /\ all \in 0 .. all /\ 0 \in 0 .. all
      /\ tries \in [Sinks -> 0 .. MaxTries] /\ MaxTries \in Nat
      /\ progress \in [Sinks -> {"idle", "writing", "ok", "failed"}]
  <2>1. chain[1].evs \in Seq(Event)
    BY <1>1, Head1 DEF IInv
  <2> QED BY <2>1, LenProperties DEF IInv, TypeOK, ConstantsAssumption
<1>3. CASE /\ progress' = [progress EXCEPT ![s] = "ok"] /\ Gets(s, all, FALSE)
           /\ UNCHANGED tries
  <2>1. tries' \in [Sinks -> 0 .. MaxTries]
    BY <1>2, <1>3
  <2> QED BY <1>1, <1>2, <1>3, <2>1, SinkGets
<1>4. ASSUME tries[s] < MaxTries, tries' = [tries EXCEPT ![s] = @ + 1],
             progress' = IF tries[s] + 1 = MaxTries
                         THEN [progress EXCEPT ![s] = "failed"] ELSE progress,
             NEW n \in {0, all}, Gets(s, n, FALSE)
      PROVE  IInv'
  <2>1. tries' \in [Sinks -> 0 .. MaxTries]
    BY <1>2, <1>4
  <2>2. n \in 0 .. all
    BY <1>2
  <2>3. PICK q \in {"writing", "failed"} : progress' = [progress EXCEPT ![s] = q]
    <3>1. progress = [progress EXCEPT ![s] = "writing"]
      BY <1>1, <1>2
    <3> QED BY <1>4, <3>1
  <2> QED BY <1>1, <1>4, <2>1, <2>2, <2>3, SinkGets
<1> QED BY <1>3, <1>4 DEF HookTry

(* The writes begin: nothing has moved.                                    *)
LEMMA DeliverKeeps == ASSUME ConstantsAssumption, IInv, Deliver PROVE IInv'
<1>1. /\ chain # << >> /\ \A s \in Sinks : progress[s] = "idle"
      /\ progress' \in [Sinks -> {"writing", "failed"}]
      /\ UNCHANGED <<load, epoch, seq, pending, waiting, chain, tries, file, cut, lost,
                     acked, refused, life, lastBatch>>
  BY DEF Deliver
<1>2. TypeOK'
  BY <1>1 DEF IInv, TypeOK
<1>3. /\ ToSet(pending)' = ToSet(pending) /\ Waiters' = Waiters /\ InTransit' = InTransit
      /\ Queued' = Queued /\ \A k \in 1 .. Len(chain) : Q(k)' = Q(k)
      /\ \A s \in Sinks : Whole(s)' = Whole(s)
  BY <1>1 DEF Waiters, InTransit, Queued, Q, Whole
<1>4. \A e : (Logged(e)' <=> Logged(e)) /\ (Mine(e)' <=> Mine(e))
  BY <1>1 DEF Logged, Mine
<1>5. PlaceInv' /\ OrderInv'
  BY <1>1, <1>3, <1>4 DEF IInv, PlaceInv, OrderInv
<1>6. SinkInv'
  <2>1. \A s \in Sinks : progress'[s] # "ok"
    BY <1>1
  <2> QED BY <1>1, <1>4, <2>1 DEF IInv, SinkInv
<1>7. FileInv'
  <2>1. \A s \in Sinks, k \in 1 .. Len(chain) : ~Written(s, k)
    BY <1>1 DEF Written
  <2>2. ASSUME NEW s \in Sinks \ Hooks
        PROVE  \A k \in 1 .. Len(chain') :
                 \A e \in ToSet(file'[s]), f \in Q(k)' : Before(e, f)
    BY <1>1, <1>3, <2>1 DEF IInv, FileInv
  <2>3. ASSUME NEW s \in Sinks \ Hooks
        PROVE  /\ Ordered(file'[s])
               /\ \A i, j \in 1 .. Len(file'[s]) : i < j => file'[s][i].epoch <= file'[s][j].epoch
               /\ \A e \in ToSet(file'[s]), f \in (ToSet(pending) \cup Waiters)' : Before(e, f)
    BY <1>1, <1>3 DEF IInv, FileInv
  <2> QED BY <2>2, <2>3 DEF FileInv
<1>8. AckedIsDurable' /\ AppFileVerifies' /\ NoSilentLoss'
  BY <1>1, <1>3 DEF IInv, AckedIsDurable, AppFileVerifies, FileVerifies, ChainValid, NoSilentLoss
<1> QED BY <1>2, <1>5, <1>6, <1>7, <1>8 DEF IInv

-----------------------------------------------------------------------------
(* The rest of the chain when its first task is through.                   *)
LEMMA Shorter ==
  ASSUME TypeOK, chain # << >>, chain' = Tail(chain)
  PROVE  /\ chain' \in Seq(Task) /\ Len(chain) \in Nat
         /\ \A k \in 1 .. Len(chain') :
              k + 1 \in 1 .. Len(chain) /\ k + 1 # 1 /\ chain'[k] = chain[k + 1] /\ Q(k)' = Q(k + 1)
         /\ \A e \in Event : e \in Queued <=> e \in Q(1) \/ e \in Queued'
<1>1. /\ chain' \in Seq(Task) /\ Len(chain') = Len(chain) - 1 /\ Len(chain) \in Nat
      /\ \A k \in 1 .. Len(chain') : chain'[k] = chain[k + 1]
  BY HeadTailProperties, LenProperties DEF TypeOK
<1>2. 1 \in 1 .. Len(chain)
  BY Head1
<1>3. /\ \A k \in 1 .. Len(chain') : k + 1 \in 1 .. Len(chain) /\ k + 1 # 1
      /\ \A k \in 1 .. Len(chain) : k # 1 => k - 1 \in 1 .. Len(chain') /\ (k - 1) + 1 = k
  BY <1>1
<1>4. /\ \A e : e \in Queued <=> \E k \in 1 .. Len(chain) : e \in ToSet(chain[k].evs)
      /\ \A e : e \in Queued' <=> \E k \in 1 .. Len(chain') : e \in ToSet(chain'[k].evs)
  BY DEF Queued
<1>5. \A k \in 1 .. Len(chain) : k # 1 => ToSet(chain[k].evs) = ToSet(chain'[k - 1].evs)
  BY <1>1, <1>3
<1>6. \A e \in Event : e \in Queued => e \in Q(1) \/ e \in Queued'
  BY <1>3, <1>4, <1>5 DEF Q
<1>7. \A e \in Event : e \in Queued' => e \in Queued
  BY <1>1, <1>3, <1>4
<1>8. \A e \in Event : e \in Q(1) => e \in Queued
  BY <1>2, <1>4 DEF Q
<1>9. ASSUME NEW k \in 1 .. Len(chain')
      PROVE  Q(k)' = Q(k + 1)
  <2>1. chain'[k] = chain[k + 1]
    BY <1>1
  <2> QED BY <2>1 DEF Q
<1> QED BY <1>1, <1>3, <1>6, <1>7, <1>8, <1>9

LEMMA SettleKeeps == ASSUME ConstantsAssumption, IInv, Settle PROVE IInv'
<1>1. /\ chain # << >> /\ Delivered /\ chain' = Tail(chain)
      /\ progress' = [s \in Sinks |-> "idle"] /\ tries' = [s \in Sinks |-> 0]
      /\ UNCHANGED <<load, epoch, seq, pending, waiting, file, cut, life, lastBatch>>
  BY DEF Settle
<1>2. \/ /\ Failed /\ acked' = acked
         /\ \/ lost' = lost \cup Q(1) /\ refused' = refused
            \/ refused' = refused \cup Q(1) /\ lost' = lost
      \/ /\ ~Failed /\ lost' = lost /\ refused' = refused
         /\ acked' \in {acked, acked \cup Q(1)}
  <2>1. CASE chain[1].audit
    BY <2>1 DEF Settle, Q
  <2>2. CASE ~chain[1].audit
    BY <2>2 DEF Settle, Q
  <2> QED BY <2>1, <2>2
<1>3. /\ TypeOK /\ 1 \in 1 .. Len(chain) /\ Q(1) \subseteq Queued /\ Queued \subseteq Event
      /\ InTransit = ToSet(pending) \cup Queued \cup Waiters
  BY <1>1, Head1, EventTypes DEF IInv
<1>4. /\ chain' \in Seq(Task)
      /\ \A k \in 1 .. Len(chain') :
           k + 1 \in 1 .. Len(chain) /\ k + 1 # 1 /\ chain'[k] = chain[k + 1] /\ Q(k)' = Q(k + 1)
      /\ \A e \in Event : e \in Queued <=> e \in Q(1) \/ e \in Queued'
  BY <1>1, <1>3, Shorter
<1>5. TypeOK'
  <2>1. 0 \in 0 .. MaxTries
    BY DEF ConstantsAssumption
  <2> QED BY <1>1, <1>2, <1>3, <1>4, <2>1 DEF TypeOK
<1>6. /\ ToSet(pending)' = ToSet(pending) /\ Waiters' = Waiters
      /\ InTransit' = ToSet(pending) \cup Queued' \cup Waiters
  BY <1>1 DEF Waiters, InTransit
<1>7. Queued' \subseteq Queued
  <2>1. Queued' \subseteq Event
    <3>1. \A k \in 1 .. Len(chain') : Q(k)' \subseteq Event
      BY <1>3, <1>4, EventTypes
    <3>2. \A e : e \in Queued' <=> \E k \in 1 .. Len(chain') : e \in Q(k)'
      BY DEF Queued, Q
    <3> QED BY <3>1, <3>2
  <2> QED BY <1>4, <2>1
<1>8. \A e \in Q(1) : e \notin InTransit'
  <2>1. \A e \in Q(1) : e \notin Queued'
    <3>1. SUFFICES ASSUME NEW e \in Q(1), NEW k \in 1 .. Len(chain'), e \in Q(k)' PROVE FALSE
      BY DEF Queued, Q
    <3>2. k + 1 \in 1 .. Len(chain) /\ e \in Q(k + 1) /\ 1 < k + 1
      BY <1>4, <3>1
    <3>3. Before(e, e)
      BY <1>3, <3>1, <3>2 DEF IInv, OrderInv
    <3> QED BY <3>3 DEF Before
  <2>2. \A e \in Q(1) : e \notin ToSet(pending) \cup Waiters
    BY <1>3 DEF IInv, OrderInv, Before
  <2> QED BY <1>6, <2>1, <2>2
<1>9. \A e : (Logged(e)' <=> Logged(e)) /\ (Mine(e)' <=> Mine(e))
  BY <1>1 DEF Logged, Mine
<1>10. PlaceInv'
  BY <1>6, <1>7, <1>9 DEF IInv, PlaceInv
<1>11. OrderInv'
  <2>1. \A k \in 1 .. Len(chain') : Ordered(chain'[k].evs)
    BY <1>4 DEF IInv, OrderInv
  <2>2. ASSUME NEW k \in 1 .. Len(chain'), NEW l \in 1 .. Len(chain'), k < l
        PROVE  \A e \in Q(k)', f \in Q(l)' : Before(e, f)
    <3>1. k + 1 < l + 1
      BY <2>2
    <3>2. \A e \in Q(k + 1), f \in Q(l + 1) : Before(e, f)
      BY <1>4, <3>1 DEF IInv, OrderInv
    <3> QED BY <1>4, <3>2
  <2>3. /\ Ordered(pending)'
        /\ \A e \in Queued', f \in (ToSet(pending) \cup Waiters)' : Before(e, f)
        /\ \A i, j \in 1 .. Len(waiting') : waiting'[i].ev = waiting'[j].ev => i = j
    BY <1>1, <1>6, <1>7 DEF IInv, OrderInv
  <2> QED BY <2>1, <2>2, <2>3 DEF OrderInv
<1>12. FileInv' /\ SinkInv'
  <2>1. ASSUME NEW s \in Sinks \ Hooks, NEW k \in 1 .. Len(chain')
        PROVE  \A e \in ToSet(file'[s]), f \in Q(k)' : Before(e, f)
    <3>1. ~Written(s, k + 1) /\ k + 1 \in 1 .. Len(chain) /\ Q(k)' = Q(k + 1)
      BY <1>4 DEF Written
    <3> QED BY <1>1, <3>1 DEF IInv, FileInv
  <2>2. ASSUME NEW s \in Sinks \ Hooks
        PROVE  /\ Ordered(file'[s])
               /\ \A i, j \in 1 .. Len(file'[s]) : i < j => file'[s][i].epoch <= file'[s][j].epoch
               /\ \A e \in ToSet(file'[s]), f \in (ToSet(pending) \cup Waiters)' : Before(e, f)
    BY <1>1, <1>6 DEF IInv, FileInv
  <2>3. SinkInv'
    <3>1. \A s \in Sinks : progress'[s] = "idle"
      BY <1>1
    <3> QED BY <1>1, <1>9, <3>1 DEF IInv, SinkInv
  <2> QED BY <2>1, <2>2, <2>3 DEF FileInv
<1>13. ~Failed => \A s \in Sinks : Q(1) \subseteq Whole(s)
  <2>1. ~Failed => \A s \in Sinks : progress[s] = "ok"
    BY <1>1 DEF Failed, Delivered
  <2> QED BY <2>1 DEF IInv, SinkInv
<1>w. \A s \in Sinks : Whole(s)' = Whole(s)
  BY <1>1 DEF Whole
<1>14. AckedIsDurable'
  BY <1>2, <1>13, <1>w DEF IInv, AckedIsDurable
<1>15. NoSilentLoss'
  <2>1. ASSUME NEW e \in Event,
               \/ e \in InTransit \cup lost \cup refused
               \/ \A s \in Sinks : e \in Whole(s)
        PROVE  \/ e \in (InTransit \cup lost \cup refused)'
               \/ \A s \in Sinks : e \in Whole(s)'
    <3>1. CASE e \in Q(1)
      BY <1>1, <1>2, <1>13, <1>w, <3>1
    <3>2. CASE e \notin Q(1)
      <4>1. e \in InTransit => e \in InTransit'
        BY <1>3, <1>4, <1>6, <3>2
      <4> QED BY <1>1, <1>2, <1>w, <2>1, <4>1
    <3> QED BY <3>1, <3>2
  <2>2. ASSUME NEW n \in 1 .. seq' - 1
        PROVE  \E c \in load' :
                 LET e == [epoch |-> epoch', seq |-> n, cat |-> c] IN
                   \/ e \in (InTransit \cup lost \cup refused)'
                   \/ \A s \in Sinks : e \in Whole(s)'
    <3>1. PICK c \in load :
            LET e == [epoch |-> epoch, seq |-> n, cat |-> c] IN
              \/ e \in InTransit \cup lost \cup refused
              \/ \A s \in Sinks : e \in Whole(s)
      BY <1>1, <2>2 DEF IInv, NoSilentLoss
    <3> DEFINE e == [epoch |-> epoch, seq |-> n, cat |-> c]
    <3>2. e \in InTransit \cup lost \cup refused \/ \A s \in Sinks : e \in Whole(s)
      BY <3>1
    <3>3. e \in Event
      <4>1. lost \cup refused \subseteq Event /\ InTransit \subseteq Event
        BY <1>3, EventTypes DEF TypeOK
      <4>2. (\A s \in Sinks : e \in Whole(s)) => e \in Event
        <5>1. PICK s \in Sinks : TRUE
          BY DEF ConstantsAssumption
        <5>2. \A i \in 1 .. Len(file[s]) : file[s][i] \in Event
          BY <1>3, ElementOfSeq DEF TypeOK
        <5>3. Whole(s) \subseteq Event
          BY <5>2 DEF Whole
        <5> QED BY <5>3
      <4> HIDE DEF e
      <4> QED BY <3>2, <4>1, <4>2
    <3> HIDE DEF e
    <3>4. \/ e \in (InTransit \cup lost \cup refused)'
          \/ \A s \in Sinks : e \in Whole(s)'
      BY <2>1, <3>2, <3>3
    <3> QED BY <1>1, <3>1, <3>4 DEF e
  <2> QED BY <2>2 DEF NoSilentLoss
<1>16. AppFileVerifies'
  <2>1. lost \subseteq lost' /\ refused \subseteq refused'
    BY <1>2
  <2> QED BY <1>1, <2>1 DEF IInv, AppFileVerifies, FileVerifies, ChainValid
<1> QED BY <1>5, <1>10, <1>11, <1>12, <1>14, <1>15, <1>16 DEF IInv

LEMMA RestartKeeps == ASSUME ConstantsAssumption, IInv, Restart PROVE IInv'
<1>1. /\ epoch' = epoch + 1 /\ epoch < MaxEpochs /\ seq' = 1
      /\ pending' = << >> /\ waiting' = << >> /\ chain' = << >>
      /\ progress' = [s \in Sinks |-> "idle"] /\ tries' = [s \in Sinks |-> 0]
      /\ life' = "open" /\ lastBatch' = None
      /\ UNCHANGED <<load, file, cut, lost, acked, refused>>
  BY DEF Restart
<1>2. /\ TypeOK /\ epoch \in Nat /\ MaxEpochs \in Nat /\ MaxEvents \in Nat
      /\ 0 \in 0 .. MaxTries
  BY DEF IInv, TypeOK, ConstantsAssumption
<1>3. epoch' \in 1 .. MaxEpochs + 1 /\ seq' \in 1 .. MaxEvents + 1
  BY <1>1, <1>2 DEF TypeOK
<1>4. /\ waiting' \in Seq(Waiter) /\ chain' \in Seq(Task) /\ pending' \in Seq(Event)
      /\ Len(waiting') = 0 /\ Len(chain') = 0
      /\ ToSet(pending)' = {} /\ Ordered(pending)'
  BY <1>1, Nothing, EmptySeq
<1>5. TypeOK'
  BY <1>1, <1>2, <1>3, <1>4 DEF TypeOK, None, Event
<1>6. Waiters' = {} /\ Queued' = {} /\ InTransit' = {}
  <2>1. Waiters' = {} /\ Queued' = {}
    BY <1>4 DEF Waiters, Queued
  <2>2. InTransit' = ToSet(pending)' \cup Queued' \cup Waiters'
    BY DEF InTransit, Waiters
  <2> QED BY <1>4, <2>1, <2>2
<1>7. \A e \in Event : Logged(e) => Logged(e)'
  BY <1>1, <1>2 DEF Logged, Event
<1>8. PlaceInv'
  BY <1>4, <1>6 DEF PlaceInv
<1>9. OrderInv'
  BY <1>4, <1>6 DEF OrderInv
<1>10. FileInv' /\ SinkInv'
  <2>1. \A s \in Sinks : \A e \in ToSet(file[s]) : e \in Event /\ Logged(e)
    BY <1>2, EventTypes DEF IInv, SinkInv
  <2>2. ASSUME NEW s \in Sinks \ Hooks
        PROVE  /\ Ordered(file'[s])
               /\ \A i, j \in 1 .. Len(file'[s]) : i < j => file'[s][i].epoch <= file'[s][j].epoch
    BY <1>1 DEF IInv, FileInv
  <2>3. ASSUME NEW s \in Sinks
        PROVE  /\ \A e \in ToSet(file'[s]) : Logged(e)'
               /\ cut'[s] \subseteq 1 .. Len(file'[s])
               /\ progress'[s] = "idle"
    BY <1>1, <1>7, <2>1 DEF IInv, SinkInv
  <2>4. SinkInv'
    BY <2>3 DEF SinkInv
  <2> QED BY <1>4, <1>6, <2>2, <2>4 DEF FileInv
<1>11. AckedIsDurable' /\ AppFileVerifies'
  <2>1. \A s \in Sinks : Whole(s)' = Whole(s)
    BY <1>1 DEF Whole
  <2> QED BY <1>1, <2>1 DEF IInv, AckedIsDurable, AppFileVerifies, FileVerifies, ChainValid
<1>12. NoSilentLoss'
  <2>1. 1 .. seq' - 1 = {}
    BY <1>1
  <2> QED BY <2>1 DEF NoSilentLoss
<1> QED BY <1>5, <1>8, <1>9, <1>10, <1>11, <1>12 DEF IInv

LEMMA InitHolds == ASSUME ConstantsAssumption, Init PROVE IInv
<1>1. /\ load \in Loads /\ epoch = 1 /\ seq = 1
      /\ pending = << >> /\ waiting = << >> /\ chain = << >>
      /\ progress = [s \in Sinks |-> "idle"] /\ tries = [s \in Sinks |-> 0]
      /\ file = [s \in Sinks |-> << >>] /\ cut = [s \in Sinks |-> {}]
      /\ lost = {} /\ acked = {} /\ refused = {} /\ life = "open" /\ lastBatch = None
      /\ MaxEpochs \in Nat /\ MaxEvents \in Nat /\ 0 \in 0 .. MaxTries
      /\ \A s \in Files : s \in Sinks
  BY DEF Init, ConstantsAssumption
<1>2. /\ waiting \in Seq(Waiter) /\ chain \in Seq(Task) /\ pending \in Seq(Event)
      /\ Len(waiting) = 0 /\ Len(chain) = 0 /\ ToSet(pending) = {} /\ Ordered(pending)
      /\ \A s \in Sinks : /\ file[s] \in Seq(Event) /\ Len(file[s]) = 0
                          /\ ToSet(file[s]) = {} /\ Ordered(file[s])
  BY <1>1, Nothing, EmptySeq
<1>3. epoch \in 1 .. MaxEpochs + 1 /\ seq \in 1 .. MaxEvents + 1
  BY <1>1
<1>4. TypeOK
  BY <1>1, <1>2, <1>3, Nothing DEF TypeOK, None, Event
<1>5. Waiters = {} /\ Queued = {}
  BY <1>2 DEF Waiters, Queued
<1>6. PlaceInv /\ OrderInv /\ SinkInv /\ FileInv
  BY <1>1, <1>2, <1>5 DEF PlaceInv, OrderInv, SinkInv, FileInv
<1>7. AckedIsDurable /\ AppFileVerifies
  BY <1>1, <1>2 DEF AckedIsDurable, AppFileVerifies, FileVerifies, ChainValid
<1>8. NoSilentLoss
  <2>1. 1 .. seq - 1 = {}
    BY <1>1
  <2> QED BY <2>1 DEF NoSilentLoss
<1> QED BY <1>4, <1>6, <1>7, <1>8 DEF IInv

LEMMA CloseSinksKeeps == ASSUME IInv, CloseSinks PROVE IInv'
<1>1. /\ UNCHANGED <<load, epoch, seq, pending, waiting, chain, progress, tries, file, cut, lost, acked,
                     refused, lastBatch>>
      /\ life' = "closed"
  BY DEF CloseSinks
<1>2. TypeOK'
  BY <1>1 DEF IInv, TypeOK
<1> QED BY <1>1, <1>2, StillKeeps

LEMMA Preserved == ASSUME ConstantsAssumption, IInv, [Next]_vars PROVE IInv'
<1>1. CASE LogApp
  BY <1>1, LogAppKeeps
<1>2. CASE LogAudit
  BY <1>2, LogAuditKeeps
<1>3. CASE TimerFlush
  BY <1>3, TimerFlushKeeps
<1>4. ASSUME NEW k \in 1 .. Len(waiting), WriteImmediate(k) PROVE IInv'
  BY <1>4, WriteImmediateKeeps
<1>d. CASE Deliver
  BY <1>d, DeliverKeeps
<1>5. ASSUME NEW s \in Sinks, SinkWrite(s) \/ HookTry(s) PROVE IInv'
  BY <1>5, SinkWriteKeeps, HookTryKeeps
<1>6. CASE Settle
  BY <1>6, SettleKeeps
<1>7. CASE Close
  BY <1>7, CloseKeeps
<1>8. CASE CloseSinks
  BY <1>8, CloseSinksKeeps
<1>9. CASE Restart
  BY <1>9, RestartKeeps
<1>10. CASE UNCHANGED vars
  <2>1. TypeOK'
    BY <1>10 DEF IInv, TypeOK, vars
  <2> QED BY <1>10, <2>1, StillKeeps DEF vars
<1> QED BY <1>1, <1>2, <1>3, <1>4, <1>d, <1>5, <1>6, <1>7, <1>8, <1>9, <1>10 DEF Next

-----------------------------------------------------------------------------
(* Results.                                                                *)

(* Whatever log(), flush(), the batch timer, deliver(), close() and a      *)
(* restart of the process do, and in whatever order sinks fail, events are *)
(* where the invariant says.                                               *)
THEOREM Invariance == Spec => []IInv
<1>1. ConstantsAssumption
  BY ConstantsAssumption
<1>2. Init => IInv
  BY <1>1, InitHolds
<1>3. IInv /\ [Next]_vars => IInv'
  BY <1>1, Preserved
<1> QED BY <1>2, <1>3, PTL DEF Spec

(* The state of the logger keeps its types: sequence numbers within one    *)
(* process, tasks and files made of events of the logger.                  *)
THEOREM TypeCorrect == Spec => []TypeOK
<1>1. IInv => TypeOK
  BY DEF IInv
<1> QED BY <1>1, Invariance, PTL

(* log() tells the truth about an audit event, and no event of the live    *)
(* process disappears or is written twice, for any number of sinks and any *)
(* pattern of their failures (deliver() and writeImmediate() of            *)
(* tamper-logger.ts).                                                      *)
THEOREM NothingLostHolds == Spec => []NothingLost
<1>1. IInv => NoDuplicates
  <2>1. SUFFICES ASSUME IInv, NEW s \in Sinks \ Hooks, NEW i \in 1 .. Len(file[s]),
                        NEW j \in 1 .. Len(file[s]), file[s][i] = file[s][j]
                 PROVE  i = j
    BY DEF NoDuplicates
  <2>2. Ordered(file[s])
    BY <2>1 DEF IInv, FileInv
  <2>3. ~(i < j) /\ ~(j < i)
    BY <2>1, <2>2 DEF Ordered, Before
  <2>4. i \in Int /\ j \in Int
    OBVIOUS
  <2> QED BY <2>3, <2>4
<1>2. IInv => NothingLost
  BY <1>1 DEF IInv, NothingLost
<1> QED BY <1>2, Invariance, PTL

(* Batches and the write chain keep the application events of a process in *)
(* the order of log() in every sink; and a logger that has only such       *)
(* events leaves files that verifyChain accepts, whatever a crash or a     *)
(* close cut off, as long as no write failed.                              *)
THEOREM AppFilesSoundHolds == Spec => []AppFilesSound
<1>1. IInv => AppOrder
  BY DEF IInv, FileInv, Ordered, Before, AppOrder
<1>2. IInv => AppFilesSound
  BY <1>1 DEF IInv, AppFilesSound
<1> QED BY <1>2, Invariance, PTL
=============================================================================
