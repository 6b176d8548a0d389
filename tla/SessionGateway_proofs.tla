------------------------ MODULE SessionGateway_proofs ------------------------
(***************************************************************************)
(* Proofs about SessionGateway, for any number of calls, sessions per peer *)
(* and faults.                                                             *)
(***************************************************************************)
EXTENDS SessionGateway, SequenceTheorems, TLAPS

Acks == {toHub[k] : k \in 1 .. Len(toHub)}

(* The store: an entry per session, entered once, with its record.         *)
HubInv ==
  /\ \A i, j \in 1 .. Len(hub) : hub[i] = hub[j] => i = j
  /\ \A s \in Known : call[s] = "opened"
  /\ \A s \in Ids : call[s] = "recorded" => record[s] = "open"
  /\ AuditAgrees

(* Without overlap there is one call at most, and room for its session.    *)
LimitInv ==
  ~overlap => /\ \A s, t \in Pending : s = t
              /\ Len(hub) <= MaxSessions
              /\ Pending # {} => Len(hub) < MaxSessions

(* What is on its way to the peer: ends of sessions that are over, opens   *)
(* that the peer has not answered, one for each.                           *)
FrameInv ==
  /\ \A k \in 1 .. Len(toPeer) : toPeer[k].type = "session-end" =>
       call[toPeer[k].id] = "opened" /\ toPeer[k].id \notin Known
  /\ \A k \in 1 .. Len(toPeer) : toPeer[k].type = "open-session" =>
       /\ call[toPeer[k].id] \in {"waiting", "failed"}
       /\ toPeer[k].id \notin signing \cup Acks
  /\ \A i, j \in 1 .. Len(toPeer) :
       /\ toPeer[i].type = "open-session" /\ toPeer[j].type = "open-session"
       /\ toPeer[i].id = toPeer[j].id
       => i = j

(* Nobody knows of an id before its call.                                  *)
FreshInv == \A s \in Ids : call[s] = "none" => s \notin signing \cup Acks \cup peer

(* From its signature on a session is at the peer, unless the peer was     *)
(* replaced under it.                                                      *)
LiveInv ==
  \A s \in Ids :
    \/ s \in Known \/ call[s] \in {"audit", "recorded"}
    \/ call[s] = "waiting" /\ s \in signing \cup Acks
    => s \in peer \cup raced

(* What is at the peer is known, under way, failed, or told to end.        *)
OrphanInv ==
  \A s \in peer : s \in Known \/ s \in Pending \/ call[s] = "failed" \/ s \in lost \cup Ending

IInv == TypeOK /\ HubInv /\ LimitInv /\ FrameInv /\ FreshInv /\ LiveInv /\ OrphanInv

-----------------------------------------------------------------------------
(* Sequences as they are used here.                                        *)

(* One entry taken out: the others stay, in their order.                   *)
LEMMA WithoutFacts ==
  ASSUME TypeOK, HubInv, NEW k \in Places
  PROVE  /\ Without(k) \in Seq(Ids)
         /\ Len(Without(k)) = IF k = 0 THEN Len(hub) ELSE Len(hub) - 1
         /\ \A i, j \in 1 .. Len(Without(k)) : Without(k)[i] = Without(k)[j] => i = j
         /\ \A s : s \in Known \ At(k) <=>
                    \E i \in 1 .. Len(Without(k)) : Without(k)[i] = s
         /\ At(k) \subseteq Known
<1>0. hub \in Seq(Ids) /\ Len(hub) \in Nat /\ Places = 0 .. Len(hub)
  BY DEF TypeOK, Places
<1>1. CASE k = 0
  BY <1>0, <1>1 DEF Without, At, Known, HubInv
<1>2. CASE k # 0
  <2> DEFINE a == SubSeq(hub, 1, k - 1)
             b == SubSeq(hub, k + 1, Len(hub))
             w == a \o b
  <2>0. k \in 1 .. Len(hub)
    BY <1>0, <1>2
  <2>1. a \in Seq(Ids) /\ Len(a) = k - 1 /\ \A i \in 1 .. k - 1 : a[i] = hub[i]
    <3>1. \A i \in 1 .. k - 1 : hub[i] \in Ids
      BY <1>0, <2>0, ElementOfSeq
    <3> QED BY <1>0, <2>0, <3>1, SubSeqProperties
  <2>2. b \in Seq(Ids) /\ Len(b) = Len(hub) - k /\ \A i \in 1 .. Len(hub) - k : b[i] = hub[k + i]
    <3>1. \A i \in k + 1 .. Len(hub) : hub[i] \in Ids
      BY <1>0, <2>0, ElementOfSeq
    <3> QED BY <1>0, <2>0, <3>1, SubSeqProperties
  <2>3. /\ w \in Seq(Ids) /\ Len(w) = Len(hub) - 1
        /\ \A i \in 1 .. Len(hub) - 1 : w[i] = IF i < k THEN hub[i] ELSE hub[i + 1]
    <3> HIDE DEF a, b
    <3>1. /\ w \in Seq(Ids) /\ Len(w) = Len(a) + Len(b)
          /\ \A i \in 1 .. Len(a) + Len(b) : w[i] = IF i <= Len(a) THEN a[i] ELSE b[i - Len(a)]
      BY <2>1, <2>2, ConcatProperties
    <3> HIDE DEF w
    <3>2. Len(w) = Len(hub) - 1
      BY <1>0, <2>0, <2>1, <2>2, <3>1
    <3>3. \A i \in 1 .. Len(hub) - 1 : i < k => w[i] = hub[i]
      BY <1>0, <2>0, <2>1, <2>2, <3>1
    <3>4. ASSUME NEW i \in 1 .. Len(hub) - 1, ~(i < k) PROVE w[i] = hub[i + 1]
      <4>1. i - Len(a) \in 1 .. Len(hub) - k /\ k + (i - Len(a)) = i + 1
        BY <1>0, <2>0, <2>1, <3>4
      <4>2. w[i] = b[i - Len(a)]
        <5>1. i \in 1 .. Len(a) + Len(b) /\ ~(i <= Len(a))
          BY <1>0, <2>0, <2>1, <2>2, <3>4
        <5> QED BY <3>1, <5>1
      <4> QED BY <2>2, <4>1, <4>2
    <3> QED BY <3>1, <3>2, <3>3, <3>4
  <2>4. Without(k) = w /\ At(k) = {hub[k]}
    BY <1>2 DEF Without, At
  <2> HIDE DEF a, b, w
  <2>5. \A i, j \in 1 .. Len(w) : w[i] = w[j] => i = j
    BY <1>0, <2>0, <2>3 DEF HubInv
  <2>6. \A i \in 1 .. Len(w) : w[i] \in Known \ At(k)
    BY <1>0, <2>0, <2>3, <2>4 DEF HubInv, Known
  <2>7. \A i \in 1 .. Len(hub) : i # k => \E j \in 1 .. Len(w) : w[j] = hub[i]
    <3> TAKE i \in 1 .. Len(hub)
    <3>1. CASE i < k
      BY <1>0, <2>0, <2>3, <3>1
    <3>2. CASE i > k
      <4>1. i - 1 \in 1 .. Len(w) /\ w[i - 1] = hub[i]
        BY <1>0, <2>0, <2>3, <3>2
      <4> QED BY <4>1
    <3> QED BY <1>0, <2>0, <3>1, <3>2
  <2>8. \A s : s \in Known \ At(k) <=> \E i \in 1 .. Len(w) : w[i] = s
    BY <2>4, <2>6, <2>7 DEF Known
  <2>9. At(k) \subseteq Known
    BY <2>0, <2>4 DEF Known
  <2> QED BY <1>2, <2>3, <2>4, <2>5, <2>8, <2>9
<1> QED BY <1>1, <1>2

(* The frames behind x have been sent.                                     *)
LEMMA SentFacts ==
  ASSUME TypeOK, NEW x \in Seq(Frames), toPeer' = toPeer \o x
  PROVE  /\ toPeer' \in Seq(Frames)
         /\ Len(toPeer) \in Nat /\ Len(x) \in Nat /\ Len(toPeer') = Len(toPeer) + Len(x)
         /\ \A i \in 1 .. Len(toPeer) : i \in 1 .. Len(toPeer') /\ toPeer'[i] = toPeer[i]
         /\ \A j \in 1 .. Len(x) :
              /\ Len(toPeer) + j \in 1 .. Len(toPeer') /\ toPeer'[Len(toPeer) + j] = x[j]
         /\ \A i \in 1 .. Len(toPeer') :
              i \in 1 .. Len(toPeer) \/ \E j \in 1 .. Len(x) : i = Len(toPeer) + j
<1>1. toPeer \in Seq(Frames)
  BY DEF TypeOK
<1>2. /\ toPeer' \in Seq(Frames) /\ Len(toPeer) \in Nat /\ Len(x) \in Nat
      /\ Len(toPeer') = Len(toPeer) + Len(x)
      /\ \A i \in 1 .. Len(toPeer) + Len(x) :
           toPeer'[i] = IF i <= Len(toPeer) THEN toPeer[i] ELSE x[i - Len(toPeer)]
  BY <1>1, ConcatProperties, LenProperties
<1>4. \A i \in 1 .. Len(toPeer) : i \in 1 .. Len(toPeer') /\ toPeer'[i] = toPeer[i]
  BY <1>2
<1>5. ASSUME NEW j \in 1 .. Len(x)
      PROVE  Len(toPeer) + j \in 1 .. Len(toPeer') /\ toPeer'[Len(toPeer) + j] = x[j]
  <2>1. Len(toPeer) + j \in 1 .. Len(toPeer) + Len(x) /\ ~(Len(toPeer) + j <= Len(toPeer))
    BY <1>2
  <2>2. (Len(toPeer) + j) - Len(toPeer) = j
    BY <1>2
  <2> QED BY <1>2, <2>1, <2>2
<1>3. \A i \in 1 .. Len(toPeer') :
        i \in 1 .. Len(toPeer) \/ \E j \in 1 .. Len(x) : i = Len(toPeer) + j
  <2> TAKE i \in 1 .. Len(toPeer')
  <2>1. i \notin 1 .. Len(toPeer) => i - Len(toPeer) \in 1 .. Len(x) /\ i = Len(toPeer) + (i - Len(toPeer))
    BY <1>2
  <2> QED BY <2>1
<1> QED BY <1>2, <1>3, <1>4, <1>5

LEMMA FrameIds ==
  ASSUME NEW q \in Seq(Frames), NEW i \in 1 .. Len(q)
  PROVE  q[i].id \in Ids /\ q[i].type \in {"open-session", "session-end"}
<1>1. q[i] \in Frames
  BY ElementOfSeq
<1> QED BY <1>1 DEF Frames

(* One session less, its record closed, its end sent or lost.              *)
LEMMA CloseFacts ==
  ASSUME TypeOK, HubInv, NEW k \in Places, NEW l, NEW more,
         CloseAndSend(k, l, more),
         more = << >> \/ \E s \in Ids : more = <<Frame("open-session", s)>>
  PROVE  /\ hub' \in Seq(Ids) /\ Len(hub) \in Nat
         /\ Len(hub') = IF k = 0 THEN Len(hub) ELSE Len(hub) - 1
         /\ \A i, j \in 1 .. Len(hub') : hub'[i] = hub'[j] => i = j
         /\ Known' = Known \ At(k) /\ At(k) \subseteq Known
         /\ record' \in [Ids -> RecordStates]
         /\ \A s \in Ids : record'[s] = IF s \in At(k) THEN "closing" ELSE record[s]
         /\ toPeer' \in Seq(Frames) /\ lost' \subseteq Ids
         /\ \A i \in 1 .. Len(toPeer') : toPeer'[i].type = "session-end" =>
              \/ i \in 1 .. Len(toPeer) /\ toPeer'[i] = toPeer[i]
              \/ toPeer'[i].id \in At(k)
         /\ \A i \in 1 .. Len(toPeer') : toPeer'[i].type = "open-session" =>
              \/ i \in 1 .. Len(toPeer) /\ toPeer'[i] = toPeer[i]
              \/ more = <<toPeer'[i]>> /\ i = Len(toPeer')
         /\ lost \subseteq lost' /\ Ending \subseteq Ending'
         /\ At(k) \subseteq lost' \cup Ending'
<1>0. hub \in Seq(Ids) /\ Len(hub) \in Nat /\ Known \subseteq Ids
  BY ElementOfSeq DEF TypeOK, Known
<1>1. /\ hub' \in Seq(Ids)
      /\ Len(hub') = IF k = 0 THEN Len(hub) ELSE Len(hub) - 1
      /\ \A i, j \in 1 .. Len(hub') : hub'[i] = hub'[j] => i = j
      /\ Known' = Known \ At(k) /\ At(k) \subseteq Known
  <2>1. hub' = Without(k)
    BY DEF CloseAndSend
  <2>2. \A s : s \in Known \ At(k) <=> \E i \in 1 .. Len(hub') : hub'[i] = s
    BY <2>1, WithoutFacts
  <2>3. Known' = Known \ At(k)
    BY <2>2 DEF Known
  <2> QED BY <2>1, <2>3, WithoutFacts
<1>2. /\ record' \in [Ids -> RecordStates]
      /\ \A s \in Ids : record'[s] = IF s \in At(k) THEN "closing" ELSE record[s]
  BY DEF CloseAndSend, TypeOK, RecordStates
<1>3. lost \subseteq lost' /\ lost' \subseteq Ids
  BY <1>0, <1>1 DEF CloseAndSend, TypeOK
<1>4. CASE l # "up"
  <2>1. toPeer' = toPeer /\ At(k) \subseteq lost'
    BY <1>4 DEF CloseAndSend
  <2> QED BY <1>0, <1>1, <1>2, <1>3, <2>1 DEF Ending, TypeOK
<1>5. CASE l = "up"
  <2> DEFINE e == EndFrames(k)
             x == e \o more
  <2>1. e \in Seq(Frames) /\ Len(e) \in {0, 1}
    <3>1. CASE k = 0
      BY <3>1 DEF EndFrames
    <3>2. CASE k # 0
      <4>1. hub[k] \in Ids
        BY <1>0, <1>1, <3>2 DEF At
      <4> QED BY <3>2, <4>1 DEF EndFrames, Frame, Frames
    <3> QED BY <3>1, <3>2
  <2>2. /\ more \in Seq(Frames) /\ Len(more) \in {0, 1}
        /\ \A i \in 1 .. Len(more) :
             i = Len(more) /\ more = <<more[i]>> /\ more[i].type = "open-session"
    <3>1. CASE more = << >>
      BY <3>1
    <3>2. CASE \E s \in Ids : more = <<Frame("open-session", s)>>
      <4>1. PICK f \in Frames : more = <<f>> /\ f.type = "open-session"
        BY <3>2 DEF Frame, Frames
      <4> QED BY <4>1
    <3> QED BY <3>1, <3>2
  <2>3. \A i \in 1 .. Len(e) : e[i].type = "session-end" /\ e[i].id \in At(k)
    BY DEF EndFrames, Frame, At
  <2>5. At(k) # {} => 1 \in 1 .. Len(e) /\ \A q \in At(k) : e[1].id = q
    BY DEF EndFrames, Frame, At
  <2> HIDE DEF e
  <2>6. /\ x \in Seq(Frames) /\ Len(x) = Len(e) + Len(more)
        /\ \A i \in 1 .. Len(e) + Len(more) : x[i] = IF i <= Len(e) THEN e[i] ELSE more[i - Len(e)]
    BY <2>1, <2>2, ConcatProperties
  <2>7. toPeer' = toPeer \o x
    <3>1. toPeer' = (toPeer \o e) \o more /\ toPeer \in Seq(Frames)
      BY <1>5 DEF CloseAndSend, TypeOK, e
    <3> QED BY <2>1, <2>2, <3>1, ConcatAssociative
  <2> HIDE DEF x
  <2>8. \A j \in 1 .. Len(x) :
          \/ x[j].type = "session-end" /\ x[j].id \in At(k)
          \/ x[j].type = "open-session" /\ more = <<x[j]>> /\ j = Len(x)
    <3> TAKE j \in 1 .. Len(x)
    <3>1. CASE j <= Len(e)
      <4>1. j \in 1 .. Len(e) /\ x[j] = e[j]
        BY <2>1, <2>2, <2>6, <3>1
      <4> QED BY <2>3, <4>1
    <3>2. CASE ~(j <= Len(e))
      <4>1. j - Len(e) \in 1 .. Len(more) /\ x[j] = more[j - Len(e)]
        BY <2>1, <2>2, <2>6, <3>2
      <4>2. j = Len(x)
        BY <2>1, <2>2, <2>6, <4>1
      <4> QED BY <2>2, <4>1, <4>2
    <3> QED BY <3>1, <3>2
  <2>9. /\ toPeer' \in Seq(Frames)
        /\ Len(toPeer) \in Nat /\ Len(x) \in Nat /\ Len(toPeer') = Len(toPeer) + Len(x)
        /\ \A i \in 1 .. Len(toPeer) : i \in 1 .. Len(toPeer') /\ toPeer'[i] = toPeer[i]
        /\ \A j \in 1 .. Len(x) :
              /\ Len(toPeer) + j \in 1 .. Len(toPeer') /\ toPeer'[Len(toPeer) + j] = x[j]
        /\ \A i \in 1 .. Len(toPeer') :
              i \in 1 .. Len(toPeer) \/ \E j \in 1 .. Len(x) : i = Len(toPeer) + j
    BY <2>6, <2>7, SentFacts
  <2>10. Ending \subseteq Ending'
    BY <2>9 DEF Ending
  <2>11. At(k) \subseteq Ending'
    <3> SUFFICES ASSUME NEW q \in At(k) PROVE q \in Ending'
      OBVIOUS
    <3>1. 1 \in 1 .. Len(e) /\ e[1].id = q
      BY <2>5
    <3>2. 1 \in 1 .. Len(x) /\ x[1] = e[1]
      BY <2>1, <2>2, <2>6, <3>1
    <3>3. /\ Len(toPeer) + 1 \in 1 .. Len(toPeer') /\ toPeer'[Len(toPeer) + 1].id = q
          /\ toPeer'[Len(toPeer) + 1].type = "session-end"
      <4>1. e[1].type = "session-end"
        BY <2>3, <3>1
      <4>2. Len(toPeer) + 1 \in 1 .. Len(toPeer') /\ toPeer'[Len(toPeer) + 1] = x[1]
        BY <2>9, <3>2
      <4> QED BY <3>1, <3>2, <4>1, <4>2
    <3> QED BY <3>3 DEF Ending
  <2>12. \A i \in 1 .. Len(toPeer') : toPeer'[i].type = "session-end" =>
           \/ i \in 1 .. Len(toPeer) /\ toPeer'[i] = toPeer[i]
           \/ toPeer'[i].id \in At(k)
    BY <2>8, <2>9
  <2>13. \A i \in 1 .. Len(toPeer') : toPeer'[i].type = "open-session" =>
           \/ i \in 1 .. Len(toPeer) /\ toPeer'[i] = toPeer[i]
           \/ more = <<toPeer'[i]>> /\ i = Len(toPeer')
    BY <2>8, <2>9
  <2> QED BY <1>0, <1>1, <1>2, <1>3, <2>9, <2>10, <2>11, <2>12, <2>13
<1> QED BY <1>4, <1>5

(* The first frame has been received.                                      *)
LEMMA ReceiveFacts ==
  ASSUME TypeOK, toPeer # << >>, toPeer' = Tail(toPeer)
  PROVE  /\ toPeer' \in Seq(Frames) /\ Head(toPeer) \in Frames
         /\ 1 \in 1 .. Len(toPeer) /\ Head(toPeer) = toPeer[1]
         /\ \A i \in 1 .. Len(toPeer') :
              i + 1 \in 1 .. Len(toPeer) /\ i + 1 # 1 /\ toPeer'[i] = toPeer[i + 1]
         /\ \A i \in 1 .. Len(toPeer) : i # 1 => \E j \in 1 .. Len(toPeer') : toPeer'[j] = toPeer[i]
<1>1. toPeer \in Seq(Frames)
  BY DEF TypeOK
<1>2. /\ toPeer' \in Seq(Frames) /\ Head(toPeer) \in Frames
      /\ Len(toPeer) \in Nat /\ Len(toPeer) # 0 /\ Len(toPeer') = Len(toPeer) - 1
      /\ \A i \in 1 .. Len(toPeer') : toPeer'[i] = toPeer[i + 1]
      /\ Head(toPeer) = toPeer[1]
  BY <1>1, HeadTailProperties, EmptySeq, LenProperties
<1>3. \A i \in 1 .. Len(toPeer') : i + 1 \in 1 .. Len(toPeer) /\ i + 1 # 1
  BY <1>2
<1>4. ASSUME NEW i \in 1 .. Len(toPeer), i # 1
      PROVE  \E j \in 1 .. Len(toPeer') : toPeer'[j] = toPeer[i]
  <2>1. i - 1 \in 1 .. Len(toPeer') /\ (i - 1) + 1 = i
    BY <1>2, <1>4
  <2> QED BY <1>2, <2>1
<1> QED BY <1>2, <1>3, <1>4

LEMMA AckFacts ==
  ASSUME TypeOK
  PROVE  /\ Acks \subseteq Ids
         /\ toHub' = toHub => Acks' = Acks
         /\ toHub' = << >> => toHub' \in Seq(Ids) /\ Acks' = {}
         /\ toHub # << >> => Head(toHub) \in Acks
         /\ toHub # << >> /\ toHub' = Tail(toHub) => toHub' \in Seq(Ids) /\ Acks' \subseteq Acks
         /\ \A s \in Ids : toHub' = Append(toHub, s) =>
              toHub' \in Seq(Ids) /\ Acks' = Acks \cup {s}
<1>1. toHub \in Seq(Ids) /\ Len(toHub) \in Nat
  BY DEF TypeOK
<1>2. Acks \subseteq Ids
  BY <1>1, ElementOfSeq DEF Acks
<1>3. toHub' = toHub => Acks' = Acks
  BY DEF Acks
<1>4. toHub' = << >> => toHub' \in Seq(Ids) /\ Acks' = {}
  BY DEF Acks
<1>5. ASSUME toHub # << >>, toHub' = Tail(toHub)
      PROVE  toHub' \in Seq(Ids) /\ Acks' \subseteq Acks
  <2>1. /\ toHub' \in Seq(Ids) /\ Len(toHub') = Len(toHub) - 1
        /\ \A i \in 1 .. Len(toHub') : toHub'[i] = toHub[i + 1]
    BY <1>1, <1>5, HeadTailProperties
  <2>2. \A i \in 1 .. Len(toHub') : i + 1 \in 1 .. Len(toHub)
    BY <1>1, <2>1
  <2> QED BY <2>1, <2>2 DEF Acks
<1>6. toHub # << >> => Head(toHub) \in Acks
  <2>1. toHub # << >> => 1 \in 1 .. Len(toHub) /\ Head(toHub) = toHub[1]
    BY <1>1, EmptySeq
  <2> QED BY <2>1 DEF Acks
<1>7. ASSUME NEW s \in Ids, toHub' = Append(toHub, s)
      PROVE  toHub' \in Seq(Ids) /\ Acks' = Acks \cup {s}
  <2>1. /\ toHub' \in Seq(Ids) /\ Len(toHub') = Len(toHub) + 1
        /\ \A i \in 1 .. Len(toHub) : toHub'[i] = toHub[i]
        /\ toHub'[Len(toHub) + 1] = s
    BY <1>1, <1>7, AppendProperties
  <2>2. /\ \A i \in 1 .. Len(toHub') : i \in 1 .. Len(toHub) \/ i = Len(toHub) + 1
        /\ \A i \in 1 .. Len(toHub) : i \in 1 .. Len(toHub')
        /\ Len(toHub) + 1 \in 1 .. Len(toHub')
    BY <1>1, <2>1
  <2>3. \A a \in Acks' : a \in Acks \/ a = s
    BY <2>1, <2>2 DEF Acks
  <2>4. s \in Acks' /\ \A a \in Acks : a \in Acks'
    BY <2>1, <2>2 DEF Acks
  <2>5. Acks' = Acks \cup {s}
    BY <2>3, <2>4
  <2> QED BY <2>1, <2>5
<1> QED BY <1>2, <1>3, <1>4, <1>5, <1>6, <1>7

LEMMA Stable ==
  /\ UNCHANGED hub => Known' = Known
  /\ UNCHANGED call => Pending' = Pending
  /\ UNCHANGED toPeer => Ending' = Ending
  /\ UNCHANGED <<call, hub, record>> => (AuditAgrees' <=> AuditAgrees)
  BY DEF Known, Pending, Ending, AuditAgrees

LEMMA FaultCounts == TypeOK /\ Fault => faults' \in 0 .. MaxFaults
  BY ConstantsAssumption DEF TypeOK, Fault

-----------------------------------------------------------------------------
(* No action breaks the invariant.                                         *)

LEMMA InitHolds == Init => IInv
<1> SUFFICES ASSUME Init PROVE IInv
  OBVIOUS
<1>1. TypeOK
  <2>1. 0 \in 0 .. MaxFaults
    BY ConstantsAssumption
  <2>2. /\ << >> \in Seq(Ids) /\ << >> \in Seq(Frames)
        /\ {} \subseteq Ids /\ FALSE \in BOOLEAN
    OBVIOUS
  <2> QED BY <2>1, <2>2 DEF Init, TypeOK, CallStates, RecordStates
<1>2. Len(hub) = 0 /\ Len(toPeer) = 0 /\ Len(toHub) = 0
  BY DEF Init
<1>3. Known = {} /\ Pending = {} /\ Acks = {}
  BY <1>2 DEF Known, Pending, Acks, Init
<1>4. HubInv /\ LimitInv
  BY <1>2, <1>3, ConstantsAssumption DEF Init, HubInv, LimitInv, AuditAgrees
<1>5. FrameInv
  BY <1>2 DEF FrameInv
<1>6. FreshInv /\ LiveInv /\ OrphanInv
  BY <1>3 DEF Init, FreshInv, LiveInv, OrphanInv
<1> QED BY <1>1, <1>4, <1>5, <1>6 DEF IInv

(* A call begins: it sends at most one frame, behind all others, for an id *)
(* that nobody knows.                                                      *)
LEMMA OpenKeeps ==
  ASSUME IInv, NEW s \in Ids, OpenSession(s)
  PROVE  IInv'
<1> DEFINE k == InTheWay
<1>0. TypeOK /\ HubInv /\ LimitInv /\ FrameInv /\ FreshInv /\ LiveInv /\ OrphanInv
  BY DEF IInv
<1>1. hub \in Seq(Ids) /\ Len(hub) \in Nat /\ k \in Places
  BY <1>0, ConstantsAssumption DEF TypeOK, InTheWay, Places
<1>2. PICK more :
        /\ CloseAndSend(k, link, more)
        /\ \/ more = << >> /\ call' = [call EXCEPT ![s] = "failed"] /\ overlap' = overlap
           \/ /\ more = <<Frame("open-session", s)>>
              /\ call' = [call EXCEPT ![s] = "waiting"]
              /\ overlap' = (overlap \/ Pending # {})
  BY DEF OpenSession
<1>3. /\ link' = link /\ toHub' = toHub /\ peer' = peer /\ signing' = signing
      /\ raced' = raced /\ faults' = faults
  BY DEF OpenSession, peerVars
<1>4. /\ hub' \in Seq(Ids)
      /\ Len(hub') = IF k = 0 THEN Len(hub) ELSE Len(hub) - 1
      /\ \A i, j \in 1 .. Len(hub') : hub'[i] = hub'[j] => i = j
      /\ Known' = Known \ At(k) /\ At(k) \subseteq Known
      /\ record' \in [Ids -> RecordStates]
      /\ \A q \in Ids : record'[q] = IF q \in At(k) THEN "closing" ELSE record[q]
      /\ toPeer' \in Seq(Frames) /\ lost' \subseteq Ids
      /\ \A i \in 1 .. Len(toPeer') : toPeer'[i].type = "session-end" =>
           \/ i \in 1 .. Len(toPeer) /\ toPeer'[i] = toPeer[i]
           \/ toPeer'[i].id \in At(k)
      /\ \A i \in 1 .. Len(toPeer') : toPeer'[i].type = "open-session" =>
           \/ i \in 1 .. Len(toPeer) /\ toPeer'[i] = toPeer[i]
           \/ more = <<toPeer'[i]>> /\ i = Len(toPeer')
      /\ lost \subseteq lost' /\ Ending \subseteq Ending'
      /\ At(k) \subseteq lost' \cup Ending'
  <2> HIDE DEF k
  <2>1. more = << >> \/ \E q \in Ids : more = <<Frame("open-session", q)>>
    BY <1>2
  <2> QED BY <1>0, <1>1, <1>2, <2>1, CloseFacts
<1>5. /\ call' \in [Ids -> CallStates]
      /\ \A q \in Ids : q # s => call'[q] = call[q]
      /\ call'[s] \in {"waiting", "failed"} /\ call[s] = "none"
      /\ more # << >> => call'[s] = "waiting"
  BY <1>0, <1>2 DEF TypeOK, CallStates, OpenSession
<1>6. s \notin Known /\ s \notin signing /\ s \notin Acks /\ s \notin peer /\ Acks' = Acks
      /\ Known \subseteq Ids
  <2>1. Acks' = Acks
    BY <1>3 DEF Acks
  <2>2. Known \subseteq Ids
    BY <1>1, ElementOfSeq DEF Known
  <2> QED BY <1>0, <1>5, <2>1, <2>2 DEF HubInv, FreshInv
<1> HIDE DEF k
<1>7. TypeOK'
  <2>1. overlap' \in BOOLEAN
    BY <1>0, <1>2 DEF TypeOK
  <2> QED BY <1>0, <1>3, <1>4, <1>5, <2>1 DEF TypeOK
<1>8. HubInv'
  <2>1. \A q \in Ids : call'[q] = "recorded" => record'[q] = "open"
    BY <1>0, <1>4, <1>5 DEF HubInv
  <2>2. AuditAgrees'
    BY <1>0, <1>4, <1>5, <1>6 DEF HubInv, AuditAgrees
  <2> QED BY <1>0, <1>4, <1>5, <1>6, <2>1, <2>2 DEF HubInv
<1>9. LimitInv'
  <2>1. Len(hub') <= Len(hub) /\ (Len(hub) <= MaxSessions => Len(hub') < MaxSessions)
    BY <1>1, <1>4, ConstantsAssumption DEF k, InTheWay
  <2>2. CASE more = << >> /\ call' = [call EXCEPT ![s] = "failed"] /\ overlap' = overlap
    <3>1. Pending' = Pending
      BY <1>5, <2>2, <1>0 DEF Pending, TypeOK
    <3> QED BY <1>0, <1>1, <1>4, <2>1, <2>2, <3>1, ConstantsAssumption DEF LimitInv
  <2>3. CASE /\ more = <<Frame("open-session", s)>>
             /\ call' = [call EXCEPT ![s] = "waiting"]
             /\ overlap' = (overlap \/ Pending # {})
    <3>1. ASSUME ~overlap' PROVE Pending' = {s} /\ Len(hub) <= MaxSessions
      BY <1>0, <1>5, <2>3, <3>1 DEF LimitInv, Pending
    <3>2. Len(hub') < MaxSessions => Len(hub') <= MaxSessions
      BY <1>1, <1>4, ConstantsAssumption
    <3> QED BY <2>1, <3>1, <3>2 DEF LimitInv
  <2> QED BY <1>2, <2>2, <2>3
<1>10. FrameInv'
  <2>1. ASSUME NEW i \in 1 .. Len(toPeer'), toPeer'[i].type = "session-end"
        PROVE  call'[toPeer'[i].id] = "opened" /\ toPeer'[i].id \notin Known'
    <3>1. toPeer'[i].id \in Ids
      BY <1>4, FrameIds
    <3>2. call[toPeer'[i].id] = "opened" /\ toPeer'[i].id \notin Known'
      BY <1>0, <1>4, <2>1 DEF FrameInv, HubInv
    <3> QED BY <1>5, <3>1, <3>2
  <2>2. \A i \in 1 .. Len(toPeer') : toPeer'[i].type = "open-session" =>
          \/ i \in 1 .. Len(toPeer) /\ toPeer'[i] = toPeer[i] /\ toPeer'[i].id # s
          \/ toPeer'[i].id = s /\ i = Len(toPeer') /\ call'[s] = "waiting"
    <3> TAKE i \in 1 .. Len(toPeer')
    <3>1. more = <<toPeer'[i]>> => toPeer'[i].id = s /\ call'[s] = "waiting"
      <4>1. more = <<toPeer'[i]>> => more # << >> /\ more[1] = toPeer'[i]
        OBVIOUS
      <4>2. more # << >> => more[1].id = s
        BY <1>2 DEF Frame
      <4> QED BY <1>5, <4>1, <4>2
    <3>2. i \in 1 .. Len(toPeer) /\ toPeer[i].type = "open-session" => toPeer[i].id # s
      BY <1>0, <1>5 DEF FrameInv
    <3> QED BY <1>4, <3>1, <3>2
  <2>3. ASSUME NEW i \in 1 .. Len(toPeer'), toPeer'[i].type = "open-session"
        PROVE  /\ call'[toPeer'[i].id] \in {"waiting", "failed"}
               /\ toPeer'[i].id \notin signing' \cup Acks'
    <3>1. toPeer'[i].id \in Ids
      BY <1>4, FrameIds
    <3> QED BY <1>0, <1>3, <1>5, <1>6, <2>2, <2>3, <3>1 DEF FrameInv
  <2>4. ASSUME NEW i \in 1 .. Len(toPeer'), NEW j \in 1 .. Len(toPeer'),
               toPeer'[i].type = "open-session", toPeer'[j].type = "open-session",
               toPeer'[i].id = toPeer'[j].id
        PROVE  i = j
    BY <1>0, <2>2, <2>4 DEF FrameInv
  <2> QED BY <2>1, <2>3, <2>4 DEF FrameInv
<1>11. FreshInv'
  BY <1>0, <1>3, <1>5, <1>6 DEF FreshInv
<1>12. LiveInv'
  BY <1>0, <1>3, <1>4, <1>5, <1>6 DEF LiveInv
<1>13. OrphanInv'
  <2> SUFFICES ASSUME NEW q \in peer
               PROVE  \/ q \in Known' \/ q \in Pending' \/ call'[q] = "failed"
                      \/ q \in lost' \cup Ending'
    BY <1>3 DEF OrphanInv
  <2>1. q # s /\ q \in Ids /\ call'[q] = call[q]
    BY <1>0, <1>5, <1>6 DEF TypeOK
  <2>2. q \in Pending => q \in Pending'
    BY <2>1 DEF Pending
  <2> QED BY <1>0, <1>4, <2>1, <2>2 DEF OrphanInv
<1> QED BY <1>7, <1>8, <1>9, <1>10, <1>11, <1>12, <1>13 DEF IInv

(* A call that is under way fails, before its session is registered.       *)
LEMMA FailKeeps ==
  ASSUME IInv, NEW s \in Pending, call[s] # "recorded",
         call' = [call EXCEPT ![s] = "failed"],
         record' \in {record, [record EXCEPT ![s] = "cut"]},
         faults' \in 0 .. MaxFaults,
         UNCHANGED <<hub, channelVars, peerVars, history>>
  PROVE  IInv'
<1>0. TypeOK /\ HubInv /\ LimitInv /\ FrameInv /\ FreshInv /\ LiveInv /\ OrphanInv
  BY DEF IInv
<1>1. /\ hub' = hub /\ link' = link /\ toPeer' = toPeer /\ toHub' = toHub
      /\ peer' = peer /\ signing' = signing /\ overlap' = overlap /\ raced' = raced
      /\ lost' = lost
  BY DEF channelVars, peerVars, history
<1>2. /\ s \in Ids /\ call[s] \in {"waiting", "audit"} /\ call'[s] = "failed"
      /\ call' \in [Ids -> CallStates]
      /\ \A q \in Ids : q # s => call'[q] = call[q]
  BY <1>0 DEF Pending, TypeOK, CallStates
<1>r. /\ record' \in [Ids -> RecordStates]
      /\ \A q \in Ids : record'[q] = record[q] \/ (q = s /\ record'[q] = "cut")
  BY <1>0, <1>2 DEF TypeOK, RecordStates
<1>3. /\ Known' = Known /\ Known \subseteq Ids /\ Ending' = Ending /\ Acks' = Acks
      /\ Pending' = Pending \ {s} /\ AuditAgrees'
  <2>1. Known \subseteq Ids
    BY <1>0, ElementOfSeq DEF Known, TypeOK
  <2>2. Known' = Known /\ Ending' = Ending /\ Acks' = Acks
    BY <1>1 DEF Known, Ending, Acks
  <2>3. Pending' = Pending \ {s}
    BY <1>2 DEF Pending
  <2>4. AuditAgrees'
    BY <1>0, <1>2, <1>r, <2>2 DEF HubInv, AuditAgrees
  <2> QED BY <2>1, <2>2, <2>3, <2>4
<1>4. TypeOK'
  BY <1>0, <1>1, <1>2, <1>r DEF TypeOK
<1>5. HubInv'
  BY <1>0, <1>1, <1>2, <1>r, <1>3 DEF HubInv
<1>6. LimitInv'
  BY <1>0, <1>1, <1>3 DEF LimitInv
<1>7. FrameInv'
  <2>1. \A i \in 1 .. Len(toPeer) : toPeer[i].id \in Ids
    BY <1>0, FrameIds DEF TypeOK
  <2> QED BY <1>0, <1>1, <1>2, <1>3, <2>1 DEF FrameInv
<1>8. FreshInv' /\ LiveInv'
  BY <1>0, <1>1, <1>2, <1>3 DEF FreshInv, LiveInv
<1>9. OrphanInv'
  BY <1>0, <1>1, <1>2, <1>3 DEF OrphanInv, TypeOK
<1> QED BY <1>4, <1>5, <1>6, <1>7, <1>8, <1>9 DEF IInv

(* An acknowledgement that counts is one whose session the peer has.       *)
LEMMA HubReceivesKeeps ==
  ASSUME IInv, HubReceives
  PROVE  IInv'
<1> DEFINE h == Head(toHub)
<1>0. TypeOK /\ HubInv /\ LimitInv /\ FrameInv /\ FreshInv /\ LiveInv /\ OrphanInv
  BY DEF IInv
<1>1. /\ hub' = hub /\ record' = record /\ link' = link /\ toPeer' = toPeer
      /\ peer' = peer /\ signing' = signing /\ overlap' = overlap /\ raced' = raced
      /\ lost' = lost /\ faults' = faults
  BY DEF HubReceives, peerVars, history
<1>2. Acks \subseteq Ids /\ h \in Acks /\ toHub' \in Seq(Ids) /\ Acks' \subseteq Acks
  <2>1. toHub # << >> /\ toHub' = Tail(toHub)
    BY DEF HubReceives
  <2>2. Acks \subseteq Ids /\ Head(toHub) \in Acks
    BY <1>0, <2>1, AckFacts
  <2>3. toHub' \in Seq(Ids) /\ Acks' \subseteq Acks
    BY <1>0, <2>1, AckFacts
  <2> QED BY <2>2, <2>3
<1>3. /\ call' \in [Ids -> CallStates]
      /\ \A q \in Ids : \/ call'[q] = call[q]
                        \/ q = h /\ call[q] = "waiting" /\ call'[q] = "audit"
  BY <1>0, <1>2 DEF HubReceives, Accepts, TypeOK, CallStates
<1> HIDE DEF h
<1>4. /\ Known' = Known /\ Known \subseteq Ids /\ Ending' = Ending
      /\ Pending' = Pending /\ AuditAgrees'
  <2>1. Known \subseteq Ids
    BY <1>0, ElementOfSeq DEF Known, TypeOK
  <2>2. Known' = Known /\ Ending' = Ending
    BY <1>1 DEF Known, Ending
  <2>3. Pending' = Pending
    BY <1>3 DEF Pending
  <2>4. AuditAgrees'
    BY <1>0, <1>1, <1>3, <2>2 DEF HubInv, AuditAgrees
  <2> QED BY <2>1, <2>2, <2>3, <2>4
<1>5. TypeOK'
  BY <1>0, <1>1, <1>2, <1>3 DEF TypeOK
<1>6. HubInv'
  BY <1>0, <1>1, <1>3, <1>4 DEF HubInv
<1>7. LimitInv'
  BY <1>0, <1>1, <1>4 DEF LimitInv
<1>8. FrameInv'
  <2>1. \A i \in 1 .. Len(toPeer) : toPeer[i].id \in Ids
    BY <1>0, FrameIds DEF TypeOK
  <2> QED BY <1>0, <1>1, <1>2, <1>3, <1>4, <2>1 DEF FrameInv
<1>9. FreshInv' /\ LiveInv'
  BY <1>0, <1>1, <1>2, <1>3, <1>4 DEF FreshInv, LiveInv
<1>10. OrphanInv'
  BY <1>0, <1>1, <1>2, <1>3, <1>4 DEF OrphanInv, TypeOK
<1> QED BY <1>5, <1>6, <1>7, <1>8, <1>9, <1>10 DEF IInv

(* A record is written, closed or left, of a session that is not in the    *)
(* store: it moves to audited calls, or it was waiting to be closed.       *)
LEMMA RecordKeeps ==
  ASSUME IInv, NEW s \in Ids, NEW r \in RecordStates, record' = [record EXCEPT ![s] = r],
         \/ call[s] = "audit" /\ call' = [call EXCEPT ![s] = "recorded"] /\ r = "open"
         \/ record[s] = "closing" /\ call' = call /\ r \in {"closed", "cut"},
         faults' \in 0 .. MaxFaults,
         UNCHANGED <<hub, channelVars, peerVars, history>>
  PROVE  IInv'
<1>0. TypeOK /\ HubInv /\ LimitInv /\ FrameInv /\ FreshInv /\ LiveInv /\ OrphanInv
  BY DEF IInv
<1>1. /\ hub' = hub /\ link' = link /\ toPeer' = toPeer /\ toHub' = toHub
      /\ peer' = peer /\ signing' = signing /\ overlap' = overlap /\ raced' = raced
      /\ lost' = lost
  BY DEF channelVars, peerVars, history
<1>2. /\ record' \in [Ids -> RecordStates] /\ record'[s] = r
      /\ \A q \in Ids : q # s => record'[q] = record[q]
  BY <1>0 DEF TypeOK
<1>3. /\ call' \in [Ids -> CallStates]
      /\ \A q \in Ids : \/ call'[q] = call[q]
                        \/ q = s /\ call[q] = "audit" /\ call'[q] = "recorded"
  BY <1>0 DEF TypeOK, CallStates
<1>4. /\ Known' = Known /\ Known \subseteq Ids /\ Ending' = Ending
      /\ Pending' = Pending /\ Acks' = Acks
  <2>1. Known \subseteq Ids
    BY <1>0, ElementOfSeq DEF Known, TypeOK
  <2>2. Known' = Known /\ Ending' = Ending /\ Acks' = Acks
    BY <1>1 DEF Known, Ending, Acks
  <2>3. Pending' = Pending
    BY <1>3 DEF Pending
  <2> QED BY <2>1, <2>2, <2>3
<1>5. s \notin Known
  BY <1>0 DEF HubInv, AuditAgrees
<1>6. HubInv'
  <2>1. CASE call[s] = "audit" /\ call' = [call EXCEPT ![s] = "recorded"] /\ r = "open"
    <3>1. call'[s] = "recorded" /\ record'[s] = "open"
      BY <1>0, <1>2, <2>1 DEF TypeOK
    <3>2. AuditAgrees'
      BY <1>0, <1>2, <1>3, <1>4, <1>5, <3>1 DEF HubInv, AuditAgrees
    <3> QED BY <1>0, <1>1, <1>2, <1>3, <1>4, <1>5, <3>1, <3>2 DEF HubInv
  <2>2. CASE record[s] = "closing" /\ call' = call /\ r \in {"closed", "cut"}
    <3>1. AuditAgrees'
      BY <1>0, <1>2, <1>4, <1>5, <2>2 DEF HubInv, AuditAgrees
    <3>2. \A q \in Ids : call'[q] = "recorded" => record'[q] = "open"
      BY <1>0, <1>2, <2>2 DEF HubInv
    <3> QED BY <1>0, <1>1, <1>4, <2>2, <3>1, <3>2 DEF HubInv
  <2> QED BY <2>1, <2>2
<1>7. TypeOK'
  BY <1>0, <1>1, <1>2, <1>3 DEF TypeOK
<1>8. LimitInv'
  BY <1>0, <1>1, <1>4 DEF LimitInv
<1>9. FrameInv'
  <2>1. \A i \in 1 .. Len(toPeer) : toPeer[i].id \in Ids
    BY <1>0, FrameIds DEF TypeOK
  <2> QED BY <1>0, <1>1, <1>3, <1>4, <2>1 DEF FrameInv
<1>10. FreshInv' /\ LiveInv'
  BY <1>0, <1>1, <1>3, <1>4 DEF FreshInv, LiveInv
<1>11. OrphanInv'
  BY <1>0, <1>1, <1>3, <1>4 DEF OrphanInv, TypeOK
<1> QED BY <1>6, <1>7, <1>8, <1>9, <1>10, <1>11 DEF IInv

(* A session is registered: it was not in the store, and there was room.   *)
LEMMA RegisterKeeps ==
  ASSUME IInv, NEW s \in Ids, Register(s)
  PROVE  IInv'
<1>0. TypeOK /\ HubInv /\ LimitInv /\ FrameInv /\ FreshInv /\ LiveInv /\ OrphanInv
  BY DEF IInv
<1>1. /\ link' = link /\ toPeer' = toPeer /\ toHub' = toHub
      /\ peer' = peer /\ signing' = signing /\ overlap' = overlap /\ raced' = raced
      /\ lost' = lost /\ faults' = faults
  BY DEF Register, channelVars, peerVars, history
<1>2. /\ call[s] = "recorded" /\ call'[s] = "opened" /\ record[s] = "open" /\ record' = record
      /\ call' \in [Ids -> CallStates]
      /\ \A q \in Ids : q # s => call'[q] = call[q]
  BY <1>0 DEF Register, TypeOK, CallStates, HubInv
<1>3. /\ hub \in Seq(Ids) /\ Len(hub) \in Nat
      /\ hub' \in Seq(Ids) /\ Len(hub') = Len(hub) + 1
      /\ \A i \in 1 .. Len(hub) : hub'[i] = hub[i]
      /\ hub'[Len(hub) + 1] = s
  BY <1>0, AppendProperties DEF Register, TypeOK
<1>4. /\ \A i \in 1 .. Len(hub') : i \in 1 .. Len(hub) \/ i = Len(hub) + 1
      /\ \A i \in 1 .. Len(hub) : i \in 1 .. Len(hub')
      /\ Len(hub) + 1 \in 1 .. Len(hub')
  BY <1>3
<1>5. s \notin Known /\ Known \subseteq Ids
  BY <1>0, <1>2, <1>3, ElementOfSeq DEF HubInv, Known
<1>6. Known' = Known \cup {s}
  <2>1. \A q \in Known' : q \in Known \/ q = s
    BY <1>3, <1>4 DEF Known
  <2>2. s \in Known' /\ \A q \in Known : q \in Known'
    BY <1>3, <1>4 DEF Known
  <2> QED BY <2>1, <2>2
<1>7. Ending' = Ending /\ Acks' = Acks /\ Pending' = Pending \ {s} /\ s \in Pending
  <2>1. Ending' = Ending /\ Acks' = Acks
    BY <1>1 DEF Ending, Acks
  <2> QED BY <1>2, <2>1 DEF Pending
<1>8. TypeOK'
  BY <1>0, <1>1, <1>2, <1>3 DEF TypeOK
<1>9. HubInv'
  <2>1. \A i \in 1 .. Len(hub) : hub[i] \in Known
    BY DEF Known
  <2>2. ASSUME NEW i \in 1 .. Len(hub'), NEW j \in 1 .. Len(hub'), hub'[i] = hub'[j]
        PROVE  i = j
    BY <1>0, <1>3, <1>4, <1>5, <2>1, <2>2 DEF HubInv
  <2>3. \A q \in Known' : call'[q] = "opened"
    BY <1>0, <1>2, <1>5, <1>6 DEF HubInv
  <2>4. AuditAgrees'
    BY <1>0, <1>2, <1>6 DEF HubInv, AuditAgrees
  <2>5. \A q \in Ids : call'[q] = "recorded" => record'[q] = "open"
    BY <1>0, <1>2 DEF HubInv
  <2> QED BY <2>2, <2>3, <2>4, <2>5 DEF HubInv
<1>10. LimitInv'
  <2>1. Len(hub) < MaxSessions => Len(hub') <= MaxSessions
    BY <1>3, ConstantsAssumption
  <2> QED BY <1>0, <1>1, <1>7, <2>1 DEF LimitInv
<1>11. FrameInv'
  <2>1. \A i \in 1 .. Len(toPeer) : toPeer[i].id \in Ids
    BY <1>0, FrameIds DEF TypeOK
  <2> QED BY <1>0, <1>1, <1>2, <1>6, <1>7, <2>1 DEF FrameInv
<1>12. FreshInv' /\ LiveInv'
  BY <1>0, <1>1, <1>2, <1>6, <1>7 DEF FreshInv, LiveInv
<1>13. OrphanInv'
  BY <1>0, <1>1, <1>2, <1>6, <1>7 DEF OrphanInv, TypeOK
<1> QED BY <1>8, <1>9, <1>10, <1>11, <1>12, <1>13 DEF IInv

(* An open that arrives is the only one of its session, so the peer has it *)
(* from then on; an end that arrives is of a session the hub has dropped.  *)
LEMMA PeerReceivesKeeps ==
  ASSUME IInv, PeerReceives
  PROVE  IInv'
<1>0. TypeOK /\ HubInv /\ LimitInv /\ FrameInv /\ FreshInv /\ LiveInv /\ OrphanInv
  BY DEF IInv
<1>1. /\ call' = call /\ hub' = hub /\ record' = record /\ link' = link /\ toHub' = toHub
      /\ overlap' = overlap /\ raced' = raced /\ lost' = lost /\ faults' = faults
  BY DEF PeerReceives, hubVars, history
<1>2. /\ toPeer' \in Seq(Frames) /\ 1 \in 1 .. Len(toPeer)
      /\ \A i \in 1 .. Len(toPeer') :
           i + 1 \in 1 .. Len(toPeer) /\ i + 1 # 1 /\ toPeer'[i] = toPeer[i + 1]
      /\ \A i \in 1 .. Len(toPeer) : i # 1 => \E j \in 1 .. Len(toPeer') : toPeer'[j] = toPeer[i]
      /\ Head(toPeer) = toPeer[1]
  BY <1>0, ReceiveFacts DEF PeerReceives
<1>3. PICK f \in Frames :
        /\ f = toPeer[1] /\ f.id \in Ids
        /\ \/ /\ f.type = "open-session"
              /\ peer' = peer \cup {f.id} /\ signing' = signing \cup {f.id}
           \/ /\ f.type = "session-end"
              /\ peer' = peer \ {f.id} /\ signing' = signing
  <2>1. toPeer[1] \in Frames
    BY <1>0, <1>2, ElementOfSeq DEF TypeOK
  <2> QED BY <1>2, <2>1 DEF PeerReceives, Frames
<1>4. /\ Known' = Known /\ Pending' = Pending /\ Acks' = Acks /\ Known \subseteq Ids
      /\ (AuditAgrees' <=> AuditAgrees)
  <2>1. Known \subseteq Ids
    BY <1>0, ElementOfSeq DEF Known, TypeOK
  <2>2. Known' = Known /\ Pending' = Pending /\ Acks' = Acks
    BY <1>1 DEF Known, Pending, Acks
  <2>3. AuditAgrees' <=> AuditAgrees
    BY <1>1, Stable
  <2> QED BY <2>1, <2>2, <2>3
<1>5. \A q \in Ending : q \in Ending' \/ (f.type = "session-end" /\ q = f.id)
  <2> TAKE q \in Ending
  <2>1. PICK i \in 1 .. Len(toPeer) : toPeer[i].type = "session-end" /\ toPeer[i].id = q
    BY DEF Ending
  <2>2. CASE i = 1
    BY <1>3, <2>1, <2>2
  <2>3. CASE i # 1
    <3>1. PICK j \in 1 .. Len(toPeer') : toPeer'[j] = toPeer[i]
      BY <1>2, <2>3
    <3>2. toPeer'[j].type = "session-end" /\ toPeer'[j].id = q
      BY <2>1, <3>1
    <3> QED BY <3>1, <3>2 DEF Ending
  <2> QED BY <2>2, <2>3
<1>6. f.type = "open-session" => /\ call[f.id] \in {"waiting", "failed"}
                                 /\ f.id \notin signing \cup Acks
  BY <1>0, <1>2, <1>3 DEF FrameInv
<1>7. f.type = "session-end" => call[f.id] = "opened" /\ f.id \notin Known
  BY <1>0, <1>2, <1>3 DEF FrameInv
<1>8. TypeOK'
  BY <1>0, <1>1, <1>2, <1>3 DEF TypeOK
<1>9. HubInv' /\ LimitInv'
  BY <1>0, <1>1, <1>4 DEF HubInv, LimitInv
<1>10. FrameInv'
  <2>1. ASSUME NEW i \in 1 .. Len(toPeer'), toPeer'[i].type = "session-end"
        PROVE  call'[toPeer'[i].id] = "opened" /\ toPeer'[i].id \notin Known'
    BY <1>0, <1>1, <1>2, <1>4, <2>1 DEF FrameInv
  <2>2. ASSUME NEW i \in 1 .. Len(toPeer'), toPeer'[i].type = "open-session"
        PROVE  /\ call'[toPeer'[i].id] \in {"waiting", "failed"}
               /\ toPeer'[i].id \notin signing' \cup Acks'
    <3>1. f.type = "open-session" => toPeer[i + 1].id # f.id
      BY <1>0, <1>2, <1>3, <2>2 DEF FrameInv
    <3> QED BY <1>0, <1>1, <1>2, <1>3, <1>4, <2>2, <3>1 DEF FrameInv
  <2>3. ASSUME NEW i \in 1 .. Len(toPeer'), NEW j \in 1 .. Len(toPeer'),
               toPeer'[i].type = "open-session", toPeer'[j].type = "open-session",
               toPeer'[i].id = toPeer'[j].id
        PROVE  i = j
    <3>1. /\ toPeer[i + 1].type = "open-session" /\ toPeer[j + 1].type = "open-session"
          /\ toPeer[i + 1].id = toPeer[j + 1].id
          /\ i + 1 \in 1 .. Len(toPeer) /\ j + 1 \in 1 .. Len(toPeer)
      BY <1>2, <2>3
    <3>2. i + 1 = j + 1
      BY <1>0, <3>1 DEF FrameInv
    <3> QED BY <3>2
  <2> QED BY <2>1, <2>2, <2>3 DEF FrameInv
<1>11. FreshInv'
  BY <1>0, <1>1, <1>3, <1>4, <1>6 DEF FreshInv
<1>12. LiveInv'
  BY <1>0, <1>1, <1>3, <1>4, <1>7 DEF LiveInv
<1>13. OrphanInv'
  <2> SUFFICES ASSUME NEW q \in peer'
               PROVE  \/ q \in Known \/ q \in Pending \/ call[q] = "failed"
                      \/ q \in lost \cup Ending'
    BY <1>1, <1>4 DEF OrphanInv
  <2>1. CASE f.type = "open-session" /\ q = f.id
    BY <1>3, <1>6, <2>1 DEF Pending
  <2>2. CASE ~(f.type = "open-session" /\ q = f.id)
    <3>1. q \in peer /\ ~(f.type = "session-end" /\ q = f.id)
      BY <1>3, <2>2
    <3> QED BY <1>0, <1>5, <3>1 DEF OrphanInv
  <2> QED BY <2>1, <2>2
<1> QED BY <1>8, <1>9, <1>10, <1>11, <1>12, <1>13 DEF IInv

(* The peer answers, or fails to: a session moves from the signatures to   *)
(* the acknowledgements at most.                                           *)
LEMMA AnswerKeeps ==
  ASSUME IInv, NEW s \in signing, signing' = signing \ {s},
         toHub' = toHub \/ toHub' = Append(toHub, s),
         faults' \in 0 .. MaxFaults,
         UNCHANGED <<hubVars, link, toPeer, peer, history>>
  PROVE  IInv'
<1>0. TypeOK /\ HubInv /\ LimitInv /\ FrameInv /\ FreshInv /\ LiveInv /\ OrphanInv
  BY DEF IInv
<1>1. /\ call' = call /\ hub' = hub /\ record' = record /\ link' = link /\ toPeer' = toPeer
      /\ peer' = peer /\ overlap' = overlap /\ raced' = raced /\ lost' = lost
  BY DEF hubVars, history
<1>2. s \in Ids /\ toHub' \in Seq(Ids) /\ signing' \cup Acks' \subseteq signing \cup Acks
  <2>1. s \in Ids /\ toHub \in Seq(Ids)
    BY <1>0 DEF TypeOK
  <2>2. toHub' \in Seq(Ids) /\ (Acks' = Acks \/ Acks' = Acks \cup {s})
    BY <1>0, <2>1, AckFacts
  <2> QED BY <2>1, <2>2
<1>3. /\ Known' = Known /\ Pending' = Pending /\ Ending' = Ending
      /\ (AuditAgrees' <=> AuditAgrees)
  BY <1>1, Stable
<1>4. TypeOK'
  BY <1>0, <1>1, <1>2 DEF TypeOK
<1>5. HubInv' /\ LimitInv'
  BY <1>0, <1>1, <1>3 DEF HubInv, LimitInv
<1>6. FrameInv'
  BY <1>0, <1>1, <1>2, <1>3 DEF FrameInv
<1>7. FreshInv' /\ LiveInv' /\ OrphanInv'
  BY <1>0, <1>1, <1>2, <1>3 DEF FreshInv, LiveInv, OrphanInv
<1> QED BY <1>4, <1>5, <1>6, <1>7 DEF IInv

(* A session is closed, by the sweep or because the peer registers again,  *)
(* then perhaps as a process that knows nothing.                           *)
LEMMA CloseKeeps ==
  ASSUME IInv, NEW k \in Places, NEW l, CloseAndSend(k, l, << >>),
         UNCHANGED <<call, overlap, faults>>,
         link' \in {"up", "dead", "down"}, toHub' \in {toHub, << >>},
         \/ UNCHANGED <<peerVars, raced>>
         \/ /\ peer' = {} /\ signing' = {}
            /\ raced' \subseteq Ids /\ raced \cup Pending \cup (Known \ At(k)) \subseteq raced'
  PROVE  IInv'
<1>0. TypeOK /\ HubInv /\ LimitInv /\ FrameInv /\ FreshInv /\ LiveInv /\ OrphanInv
  BY DEF IInv
<1>1. /\ hub' \in Seq(Ids) /\ Len(hub) \in Nat
      /\ Len(hub') = IF k = 0 THEN Len(hub) ELSE Len(hub) - 1
      /\ \A i, j \in 1 .. Len(hub') : hub'[i] = hub'[j] => i = j
      /\ Known' = Known \ At(k) /\ At(k) \subseteq Known
      /\ record' \in [Ids -> RecordStates]
      /\ \A q \in Ids : record'[q] = IF q \in At(k) THEN "closing" ELSE record[q]
      /\ toPeer' \in Seq(Frames) /\ lost' \subseteq Ids
      /\ \A i \in 1 .. Len(toPeer') : toPeer'[i].type = "session-end" =>
           \/ i \in 1 .. Len(toPeer) /\ toPeer'[i] = toPeer[i]
           \/ toPeer'[i].id \in At(k)
      /\ \A i \in 1 .. Len(toPeer') : toPeer'[i].type = "open-session" =>
           i \in 1 .. Len(toPeer) /\ toPeer'[i] = toPeer[i]
      /\ lost \subseteq lost' /\ Ending \subseteq Ending'
      /\ At(k) \subseteq lost' \cup Ending'
  <2> DEFINE more == << >>
  <2>1. \A x : more # <<x>>
    OBVIOUS
  <2>2. CloseAndSend(k, l, more)
        /\ (more = << >> \/ \E s \in Ids : more = <<Frame("open-session", s)>>)
    OBVIOUS
  <2> HIDE DEF more
  <2> QED BY <1>0, <2>1, <2>2, CloseFacts
<1>2. /\ call' = call /\ overlap' = overlap /\ faults' = faults
      /\ peer' \subseteq peer /\ signing' \subseteq signing
      /\ peer' \in {peer, {}} /\ raced \subseteq raced' /\ raced' \subseteq Ids
      /\ peer' # peer => Pending \cup Known' \subseteq raced'
  BY <1>0, <1>1 DEF peerVars, TypeOK
<1>3. Acks' \subseteq Acks /\ toHub' \in Seq(Ids)
  BY <1>0, AckFacts DEF TypeOK
<1>4. Pending' = Pending /\ Known \subseteq Ids
  <2>1. Known \subseteq Ids
    BY <1>0, ElementOfSeq DEF Known, TypeOK
  <2> QED BY <1>2, <2>1 DEF Pending
<1>5. TypeOK'
  BY <1>0, <1>1, <1>2, <1>3 DEF TypeOK
<1>6. HubInv'
  <2>1. \A q \in Ids : call'[q] = "recorded" => record'[q] = "open"
    BY <1>0, <1>1, <1>2 DEF HubInv
  <2>2. AuditAgrees'
    BY <1>0, <1>1, <1>2 DEF HubInv, AuditAgrees
  <2> QED BY <1>0, <1>1, <1>2, <2>1, <2>2 DEF HubInv
<1>7. LimitInv'
  <2>1. /\ Len(hub) <= MaxSessions => Len(hub') <= MaxSessions
        /\ Len(hub) < MaxSessions => Len(hub') < MaxSessions
    BY <1>1, ConstantsAssumption
  <2> QED BY <1>0, <1>2, <1>4, <2>1 DEF LimitInv
<1>8. FrameInv'
  <2>1. ASSUME NEW i \in 1 .. Len(toPeer'), toPeer'[i].type = "session-end"
        PROVE  call'[toPeer'[i].id] = "opened" /\ toPeer'[i].id \notin Known'
    BY <1>0, <1>1, <1>2, <2>1 DEF FrameInv, HubInv
  <2>2. ASSUME NEW i \in 1 .. Len(toPeer'), toPeer'[i].type = "open-session"
        PROVE  /\ call'[toPeer'[i].id] \in {"waiting", "failed"}
               /\ toPeer'[i].id \notin signing' \cup Acks'
    BY <1>0, <1>1, <1>2, <1>3, <2>2 DEF FrameInv
  <2>3. ASSUME NEW i \in 1 .. Len(toPeer'), NEW j \in 1 .. Len(toPeer'),
               toPeer'[i].type = "open-session", toPeer'[j].type = "open-session",
               toPeer'[i].id = toPeer'[j].id
        PROVE  i = j
    BY <1>0, <1>1, <2>3 DEF FrameInv
  <2> QED BY <2>1, <2>2, <2>3 DEF FrameInv
<1>9. FreshInv'
  BY <1>0, <1>2, <1>3 DEF FreshInv
<1>10. LiveInv'
  <2> SUFFICES ASSUME NEW s \in Ids,
                      \/ s \in Known' \/ call[s] \in {"audit", "recorded"}
                      \/ call[s] = "waiting" /\ s \in signing \cup Acks
               PROVE  s \in peer' \cup raced'
    BY <1>2, <1>3 DEF LiveInv
  <2>1. s \in peer \cup raced
    BY <1>0, <1>1 DEF LiveInv
  <2>2. s \in Pending \cup Known'
    BY DEF Pending
  <2> QED BY <1>2, <2>1, <2>2
<1>11. OrphanInv'
  BY <1>0, <1>1, <1>2, <1>4 DEF OrphanInv
<1> QED BY <1>5, <1>6, <1>7, <1>8, <1>9, <1>10, <1>11 DEF IInv

(* The channel goes down: what was on its way to the peer is lost.         *)
LEMMA DropKeeps ==
  ASSUME IInv, Drop
  PROVE  IInv'
<1>0. TypeOK /\ HubInv /\ LimitInv /\ FrameInv /\ FreshInv /\ LiveInv /\ OrphanInv
  BY DEF IInv
<1>1. /\ call' = call /\ hub' = hub /\ record' = record /\ toHub' = toHub
      /\ link' = "dead" /\ toPeer' = << >>
      /\ peer' = peer /\ signing' = signing /\ overlap' = overlap /\ raced' = raced
      /\ lost' = lost \cup Ending /\ faults' \in 0 .. MaxFaults
  BY <1>0, FaultCounts DEF Drop, hubVars, peerVars
<1>2. /\ Known' = Known /\ Pending' = Pending /\ Acks' = Acks
      /\ (AuditAgrees' <=> AuditAgrees)
  <2>1. Acks' = Acks
    BY <1>1 DEF Acks
  <2> QED BY <1>1, <2>1, Stable
<1>3. Ending \subseteq Ids
  BY <1>0, FrameIds DEF Ending, TypeOK
<1>4. TypeOK'
  BY <1>0, <1>1, <1>3 DEF TypeOK
<1>5. HubInv' /\ LimitInv'
  BY <1>0, <1>1, <1>2 DEF HubInv, LimitInv
<1>6. FrameInv'
  BY <1>1 DEF FrameInv
<1>7. FreshInv' /\ LiveInv' /\ OrphanInv'
  BY <1>0, <1>1, <1>2 DEF FreshInv, LiveInv, OrphanInv
<1> QED BY <1>4, <1>5, <1>6, <1>7 DEF IInv

(* A hub that starts knows no session; all of them are cut or lost.        *)
LEMMA HubRestartKeeps ==
  ASSUME IInv, HubRestart
  PROVE  IInv'
<1>0. TypeOK /\ HubInv /\ LimitInv /\ FrameInv /\ FreshInv /\ LiveInv /\ OrphanInv
  BY DEF IInv
<1>1. /\ hub' = << >> /\ toHub' = << >> /\ toPeer' = << >> /\ link' = "down"
      /\ peer' = peer /\ signing' = signing /\ overlap' = overlap /\ raced' = raced
      /\ lost' = lost \cup Known \cup Ending /\ faults' \in 0 .. MaxFaults
  BY <1>0, FaultCounts DEF HubRestart, peerVars
<1>2. /\ call' \in [Ids -> CallStates]
      /\ \A s \in Ids : call'[s] = IF s \in Pending THEN "failed" ELSE call[s]
  BY <1>0 DEF HubRestart, TypeOK, CallStates
<1>3. /\ record' \in [Ids -> RecordStates]
      /\ \A s \in Ids : record'[s] = IF record[s] \in {"open", "closing"} THEN "cut" ELSE record[s]
  BY <1>0 DEF HubRestart, TypeOK, RecordStates
<1>4. Known' = {} /\ Acks' = {} /\ Len(hub') = 0
  BY <1>1 DEF Known, Acks
<1>5. Pending' = {}
  BY <1>2 DEF Pending
<1>6. Ending \subseteq Ids /\ Known \subseteq Ids
  BY <1>0, FrameIds, ElementOfSeq DEF Ending, Known, TypeOK
<1>7. TypeOK'
  BY <1>0, <1>1, <1>2, <1>3, <1>6 DEF TypeOK
<1>8. HubInv'
  <2>1. \A s \in Ids : call'[s] # "recorded" /\ record'[s] # "open"
    BY <1>2, <1>3 DEF Pending
  <2>2. AuditAgrees'
    BY <1>4, <2>1 DEF AuditAgrees
  <2> QED BY <1>4, <2>1, <2>2 DEF HubInv
<1>9. LimitInv'
  BY <1>4, <1>5, ConstantsAssumption DEF LimitInv
<1>10. FrameInv'
  BY <1>1 DEF FrameInv
<1>11. FreshInv' /\ LiveInv'
  BY <1>0, <1>1, <1>2, <1>4 DEF FreshInv, LiveInv, Pending
<1>12. OrphanInv'
  BY <1>0, <1>1, <1>2, <1>4, <1>6 DEF OrphanInv, TypeOK
<1> QED BY <1>7, <1>8, <1>9, <1>10, <1>11, <1>12 DEF IInv

LEMMA Preserved ==
  ASSUME IInv, [Next]_vars
  PROVE  IInv'
<1>0. TypeOK
  BY DEF IInv
<1>1. ASSUME NEW s \in Ids, OpenSession(s) PROVE IInv'
  BY <1>1, OpenKeeps
<1>2. ASSUME NEW s \in Ids, AckTimeout(s) PROVE IInv'
  <2>1. s \in Pending /\ call[s] # "recorded" /\ faults' \in 0 .. MaxFaults
    BY <1>0, <1>2 DEF AckTimeout, Pending, TypeOK
  <2> QED BY <1>2, <2>1, FailKeeps DEF AckTimeout
<1>3. ASSUME NEW s \in Ids, Register(s) PROVE IInv'
  BY <1>3, RegisterKeeps
<1>4. ASSUME NEW s \in Ids, AuditFails(s) PROVE IInv'
  <2>1. s \in Pending /\ call[s] # "recorded" /\ faults' \in 0 .. MaxFaults
    BY <1>0, <1>4, FaultCounts DEF AuditFails, Pending
  <2> QED BY <1>4, <2>1, FailKeeps DEF AuditFails
<1>a. ASSUME NEW s \in Ids, AuditOpens(s) PROVE IInv'
  <2>1. faults' \in 0 .. MaxFaults
    BY <1>0, <1>a DEF AuditOpens, TypeOK
  <2> QED BY <1>a, <2>1, RecordKeeps DEF AuditOpens, RecordStates
<1>b. ASSUME NEW s \in Ids, AuditCloses(s) PROVE IInv'
  <2>1. faults' \in 0 .. MaxFaults
    BY <1>0, <1>b DEF AuditCloses, TypeOK
  <2> QED BY <1>b, <2>1, RecordKeeps DEF AuditCloses, RecordStates
<1>c. ASSUME NEW s \in Ids, AuditCloseFails(s) PROVE IInv'
  <2>1. faults' \in 0 .. MaxFaults
    BY <1>0, <1>c, FaultCounts DEF AuditCloseFails
  <2> QED BY <1>c, <2>1, RecordKeeps DEF AuditCloseFails, RecordStates
<1>5. ASSUME NEW s \in Ids, PeerSigns(s) PROVE IInv'
  <2>1. s \in signing /\ faults' \in 0 .. MaxFaults
    BY <1>0, <1>5 DEF PeerSigns, TypeOK
  <2> QED BY <1>5, <2>1, AnswerKeeps DEF PeerSigns
<1>6. ASSUME NEW s \in Ids, SignFails(s) PROVE IInv'
  <2>1. s \in signing /\ faults' \in 0 .. MaxFaults
    BY <1>0, <1>6, FaultCounts DEF SignFails
  <2> QED BY <1>6, <2>1, AnswerKeeps DEF SignFails, channelVars
<1>7. CASE HubReceives
  BY <1>7, HubReceivesKeeps
<1>8. CASE Sweep
  <2>1. PICK k \in Places : CloseAndSend(k, link, << >>)
    BY <1>8 DEF Sweep
  <2>2. /\ UNCHANGED <<call, overlap, faults>> /\ UNCHANGED <<peerVars, raced>>
        /\ link' \in {"up", "dead", "down"} /\ toHub' = toHub
    BY <1>0, <1>8 DEF Sweep, TypeOK
  <2> QED BY <2>1, <2>2, CloseKeeps
<1>9. CASE PeerReceives
  BY <1>9, PeerReceivesKeeps
<1>10. CASE Drop
  BY <1>10, DropKeeps
<1>11. CASE Detach
  <2>1. /\ call' = call /\ hub' = hub /\ record' = record /\ toHub' = toHub
        /\ toPeer' = toPeer /\ peer' = peer /\ signing' = signing /\ overlap' = overlap
        /\ raced' = raced /\ lost' = lost /\ faults' = faults /\ link' = "down"
    BY <1>11 DEF Detach, hubVars, peerVars, history
  <2>2. /\ Known' = Known /\ Pending' = Pending /\ Acks' = Acks /\ Ending' = Ending
        /\ (AuditAgrees' <=> AuditAgrees)
    <3>1. Acks' = Acks
      BY <2>1 DEF Acks
    <3> QED BY <2>1, <3>1, Stable
  <2>3. TypeOK'
    BY <1>0, <2>1 DEF TypeOK
  <2>4. HubInv' /\ LimitInv'
    BY <2>1, <2>2 DEF IInv, HubInv, LimitInv
  <2>5. FrameInv'
    BY <2>1, <2>2 DEF IInv, FrameInv
  <2>6. FreshInv' /\ LiveInv' /\ OrphanInv'
    BY <2>1, <2>2 DEF IInv, FreshInv, LiveInv, OrphanInv
  <2> QED BY <2>3, <2>4, <2>5, <2>6 DEF IInv
<1>12. CASE Reconnect
  <2>1. /\ hub \in Seq(Ids) /\ Len(hub) \in Nat /\ (hub # << >> => Len(hub) # 0)
    BY <1>0, EmptySeq DEF TypeOK
  <2>2. Stale \in Places /\ Known \subseteq Ids
    BY <2>1, ElementOfSeq DEF Stale, Places, Known
  <2>3. Known \ At(Stale) \subseteq {hub[k] : k \in 2 .. Len(hub)}
    <3>1. CASE hub = << >>
      BY <3>1 DEF Known
    <3>2. CASE hub # << >>
      <4>1. At(Stale) = {hub[1]}
        BY <3>2 DEF Stale, At
      <4>2. \A i \in 1 .. Len(hub) : i = 1 \/ i \in 2 .. Len(hub)
        BY <2>1
      <4> QED BY <4>1, <4>2 DEF Known
    <3> QED BY <3>1, <3>2
  <2>4. {hub[k] : k \in 2 .. Len(hub)} \subseteq Known /\ Pending \subseteq Ids
    BY <2>1 DEF Known, Pending
  <2>5. /\ CloseAndSend(Stale, "up", << >>) /\ UNCHANGED <<call, overlap, faults>>
        /\ link' \in {"up", "dead", "down"} /\ toHub' \in {toHub, << >>}
    BY <1>12 DEF Reconnect
  <2>6. \/ UNCHANGED <<peerVars, raced>>
        \/ /\ peer' = {} /\ signing' = {}
           /\ raced' \subseteq Ids
           /\ raced \cup Pending \cup (Known \ At(Stale)) \subseteq raced'
    <3>1. raced \subseteq Ids
      BY <1>0 DEF TypeOK
    <3> QED BY <1>12, <2>2, <2>3, <2>4, <3>1 DEF Reconnect
  <2> QED BY <2>2, <2>5, <2>6, CloseKeeps
<1>13. CASE HubRestart
  BY <1>13, HubRestartKeeps
<1>14. CASE UNCHANGED vars
  <2>1. /\ call' = call /\ hub' = hub /\ record' = record /\ link' = link /\ toHub' = toHub
        /\ toPeer' = toPeer /\ peer' = peer /\ signing' = signing /\ overlap' = overlap
        /\ raced' = raced /\ lost' = lost /\ faults' = faults
    BY <1>14 DEF vars, hubVars, channelVars, peerVars, history
  <2>2. /\ Known' = Known /\ Pending' = Pending /\ Acks' = Acks /\ Ending' = Ending
        /\ (AuditAgrees' <=> AuditAgrees)
    <3>1. Acks' = Acks
      BY <2>1 DEF Acks
    <3> QED BY <2>1, <3>1, Stable
  <2>3. TypeOK'
    BY <1>0, <2>1 DEF TypeOK
  <2>4. HubInv' /\ LimitInv'
    BY <2>1, <2>2 DEF IInv, HubInv, LimitInv
  <2>5. FrameInv'
    BY <2>1, <2>2 DEF IInv, FrameInv
  <2>6. FreshInv' /\ LiveInv' /\ OrphanInv'
    BY <2>1, <2>2 DEF IInv, FreshInv, LiveInv, OrphanInv
  <2> QED BY <2>3, <2>4, <2>5, <2>6 DEF IInv
<1> QED
  BY <1>1, <1>2, <1>3, <1>4, <1>a, <1>b, <1>c, <1>5, <1>6, <1>7, <1>8, <1>9, <1>10, <1>11, <1>12,
     <1>13, <1>14
  DEF Next

-----------------------------------------------------------------------------
(* The invariant holds throughout: what the hub's store, the frames on     *)
(* their way and the peer's store may say of one session at the same time. *)
THEOREM Invariance == Spec => []IInv
<1>1. IInv /\ [Next]_vars => IInv'
  BY Preserved
<1> QED BY InitHolds, <1>1, PTL DEF Spec

(* Stores, records, frames and acknowledgements have their types, for any  *)
(* number of calls: ids come from openSession (open-session.ts) alone.     *)
THEOREM TypeCorrect == Spec => []TypeOK
<1>1. IInv => TypeOK
  BY DEF IInv
<1> QED BY Invariance, <1>1, PTL

(* Whatever channel and processes do, a session that the hub would inject  *)
(* (session-gateway.ts) is one the peer accepts, and what the peer keeps   *)
(* at rest the hub knows, but for the exceptions the property names.       *)
THEOREM EndsAgreeHolds == Spec => []EndsAgree
<1>1. IInv => EndsAgree
  <2> SUFFICES ASSUME IInv PROVE EndsAgree
    OBVIOUS
  <2>1. HubKnowsLive
    <3>1. Known \subseteq Ids
      BY ElementOfSeq DEF IInv, TypeOK, Known
    <3> QED BY <3>1 DEF IInv, LiveInv, HubKnowsLive
  <2>2. OrphanExplained
    <3> SUFFICES ASSUME AtRest PROVE \A s \in peer : s \in Known \/ call[s] = "failed" \/ s \in lost
      BY DEF OrphanExplained
    <3>1. Ending = {} /\ Pending = {}
      BY DEF AtRest, Ending
    <3> QED BY <3>1 DEF IInv, OrphanInv
  <2> QED BY <2>1, <2>2 DEF EndsAgree
<1> QED BY Invariance, <1>1, PTL

(* maxSessionsPerPeer is exceeded by overlapping calls only, the ones that *)
(* openSession counts before its awaits and enters after them.             *)
THEOREM LimitUnlessOverlapHolds == Spec => []LimitUnlessOverlap
<1>1. IInv => LimitUnlessOverlap
  BY DEF IInv, LimitInv, LimitUnlessOverlap
<1> QED BY Invariance, <1>1, PTL

(* No session without an open audit record, and none behind which the      *)
(* record stays open, unless a statement of the audit failed or the hub    *)
(* process died (openSession, closeSession and sweep of                    *)
(* session-gateway.ts).                                                    *)
THEOREM AuditAgreesHolds == Spec => []AuditAgrees
<1>1. IInv => AuditAgrees
  BY DEF IInv, HubInv
<1> QED BY Invariance, <1>1, PTL
=============================================================================
