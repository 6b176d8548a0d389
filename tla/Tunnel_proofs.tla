--------------------------- MODULE Tunnel_proofs ---------------------------
(***************************************************************************)
(* Proofs about the tunnel: the uplink of one peer (PeerChannel), for      *)
(* every number of sockets, hub URLs and faults and any set of URLs whose  *)
(* hosts refuse; and the streams over it (TunnelStream), for every set of  *)
(* requests and of bodies, every window, limit and number of losses.       *)
(***************************************************************************)
EXTENDS PeerChannel, TunnelStream, FiniteSetTheorems, WellFoundedInduction, TLAPS

-----------------------------------------------------------------------------
(* PeerChannel.                                                             *)

(* A connection that is held is the connector's socket, and the generation *)
(* that counts is the one of that socket.                                  *)
Held(s) == conn[s] \in {"opening", "open"}
HeldIsCurrent == \A s \in Socks : Held(s) => s = socket
CurrentIsLive == live = None \/ socket = None \/ live = socket

(* A dial is only due when no connection is held.                          *)
DialsWhenFree ==
  /\ stopped => socket = None /\ "reconnect" \notin timers
  /\ state = "offline" => socket = None
  /\ "reconnect" \in timers /\ socket # None => ~Held(socket)

ConnectorInv == HeldIsCurrent /\ CurrentIsLive /\ DialsWhenFree

(* A socket that is being dialled is new to both ends.                     *)
OpeningIsFresh ==
  \A s \in Socks : conn[s] = "opening" =>
    /\ state = "connecting" /\ peer[s] = "closed" /\ reg[s] = "none" /\ registered # s
    /\ toHub[s] = <<>> /\ toConn[s] = <<>>

RegisteredIsDone == registered # None => reg[registered] = "done"

(* While the connector has not closed, the hub only learns of an end that  *)
(* the connector learns of too.                                            *)
CloseIsMutual ==
  \A s \in Socks : conn[s] = "open" /\ Contains(toHub[s], "close") =>
    Contains(toConn[s], "close")

(* A register-ack on its way, and one that has come, are the hub's word    *)
(* for the socket, or have been overtaken by an end.                       *)
Reached(s) == registered = s /\ peer[s] = "open"
Confirmed(s) == Contains(toConn[s], "ack") \/ state = "connected"
AckIsReached ==
  \A s \in Socks : conn[s] = "open" /\ Confirmed(s) =>
    Reached(s) \/ ~line[s] \/ Contains(toConn[s], "close")

HubInv == OpeningIsFresh /\ RegisteredIsDone /\ CloseIsMutual /\ AckIsReached

IInv == TypeOK /\ ConnectorInv /\ HubInv

-----------------------------------------------------------------------------
(* Queues of frames.                                                       *)
LEMMA PutLast ==
  ASSUME NEW T, NEW q \in Seq(T), NEW x \in T
  PROVE  /\ Append(q, x) \in Seq(T)
         /\ \A e : Contains(Append(q, x), e) <=> Contains(q, e) \/ e = x
<1>1. /\ Append(q, x) \in Seq(T) /\ Len(Append(q, x)) = Len(q) + 1
      /\ Append(q, x)[Len(q) + 1] = x /\ Len(q) \in Nat
      /\ \A i \in 1 .. Len(q) : Append(q, x)[i] = q[i]
  OBVIOUS
<1>2. 1 .. Len(q) + 1 = 1 .. Len(q) \cup {Len(q) + 1}
  BY <1>1
<1> QED BY <1>1, <1>2 DEF Contains

LEMMA TakeFirst ==
  ASSUME NEW T, NEW q \in Seq(T), q # <<>>
  PROVE  /\ Head(q) \in T /\ Tail(q) \in Seq(T)
         /\ \A e : Contains(q, e) <=> Head(q) = e \/ Contains(Tail(q), e)
<1>1. /\ Head(q) \in T /\ Tail(q) \in Seq(T) /\ Len(Tail(q)) = Len(q) - 1
      /\ Head(q) = q[1] /\ Len(q) \in Nat \ {0}
      /\ \A i \in 1 .. Len(q) - 1 : Tail(q)[i] = q[i + 1]
  OBVIOUS
<1>2. \A i \in 1 .. Len(q) : i = 1 \/ ((i - 1) \in 1 .. Len(q) - 1 /\ (i - 1) + 1 = i)
  BY <1>1
<1>3. 1 \in 1 .. Len(q) /\ \A i \in 1 .. Len(q) - 1 : (i + 1) \in 1 .. Len(q)
  BY <1>1
<1>4. ASSUME NEW e, Contains(q, e) PROVE Head(q) = e \/ Contains(Tail(q), e)
  BY <1>1, <1>2, <1>4 DEF Contains
<1>5. ASSUME NEW e, Head(q) = e \/ Contains(Tail(q), e) PROVE Contains(q, e)
  BY <1>1, <1>3, <1>5 DEF Contains
<1> QED BY <1>1, <1>4, <1>5

LEMMA NothingIn == \A e : ~Contains(<<>>, e)
  BY DEF Contains

LEMMA OnlyThat == \A x : Contains(<<x>>, x)
  BY DEF Contains

(* A set of naturals that is not empty has a least element.                *)
LEMMA Least ==
  ASSUME NEW T, T \subseteq Nat, T # {}
  PROVE  \E x \in T : \A y \in T : x <= y
<1> DEFINE Below == {p \in Nat \X Nat : p[1] < p[2]}
<1>1. IsWellFoundedOn(Below, Nat)
  BY NatLessThanWellFounded DEF OpToRel
<1>2. PICK x \in T : \A y \in T : <<y, x>> \notin Below
  <2> HIDE DEF Below
  <2> QED BY <1>1, WFMin
<1>3. ASSUME NEW y \in T PROVE x <= y
  <2>1. x \in Nat /\ y \in Nat /\ <<y, x>> \notin Below
    BY <1>2
  <2>2. ~(y < x)
    <3> SUFFICES ASSUME y < x PROVE FALSE
      OBVIOUS
    <3>1. <<y, x>> \in Nat \X Nat /\ <<y, x>>[1] < <<y, x>>[2]
      BY <2>1
    <3> QED BY <2>1, <3>1
  <2> QED BY <2>1, <2>2
<1> QED BY <1>2, <1>3

(* The slot that is dialled is a free one.                                 *)
LEMMA LowestIsFree ==
  ASSUME Free # {}
  PROVE  (CHOOSE f \in Free : \A g \in Free : f <= g) \in Free
<1>1. Free \subseteq Nat
  BY DEF Free, Socks
<1> QED BY <1>1, Least

-----------------------------------------------------------------------------
(* What the parts of the connector's handlers change, slot by slot.        *)
LEMMA DialFresh ==
  ASSUME TypeOK, NEW u, Dial(u)
  PROVE  \E s \in Free : /\ s \in Socks /\ socket' = s /\ live' = s
                         /\ conn' = [conn EXCEPT ![s] = "opening"]
                         /\ line' = [line EXCEPT ![s] = TRUE]
                         /\ toHub' = [toHub EXCEPT ![s] = <<>>]
                         /\ toConn' = [toConn EXCEPT ![s] = <<>>]
                         /\ reg' = [reg EXCEPT ![s] = "none"]
                         /\ urlIndex' = u /\ UNCHANGED peer
<1> DEFINE s == CHOOSE f \in Free : \A g \in Free : f <= g
<1>1. s \in Free
  BY LowestIsFree DEF Dial
<1>2. s \in Socks
  BY <1>1 DEF Free
<1>3. /\ socket' = s /\ live' = s
      /\ conn' = [conn EXCEPT ![s] = "opening"]
      /\ line' = [line EXCEPT ![s] = TRUE]
      /\ toHub' = [toHub EXCEPT ![s] = <<>>]
      /\ toConn' = [toConn EXCEPT ![s] = <<>>]
      /\ reg' = [reg EXCEPT ![s] = "none"]
      /\ urlIndex' = u /\ UNCHANGED peer
  BY DEF Dial
<1> HIDE DEF s
<1> QED BY <1>1, <1>2, <1>3

FramesToHub  == {"register", "heartbeat", "close"}
FramesToConn == {"ack", "reject", "close"}

LEMMA PutKeeps ==
  ASSUME NEW T, NEW queues \in [Socks -> Seq(T)], NEW s \in Socks, NEW x \in T
  PROVE  /\ Put(queues, s, x) \in [Socks -> Seq(T)]
         /\ \A t \in Socks \ {s} : Put(queues, s, x)[t] = queues[t]
         /\ ~line[s] => Put(queues, s, x)[s] = queues[s]
         /\ \A e : Contains(Put(queues, s, x)[s], e) <=>
                     Contains(queues[s], e) \/ (line[s] /\ e = x)
<1>1. queues[s] \in Seq(T)
  OBVIOUS
<1>2. Append(queues[s], x) \in Seq(T)
  BY <1>1, PutLast
<1>3. CASE line[s]
  <2>1. Put(queues, s, x) = [queues EXCEPT ![s] = Append(queues[s], x)]
    BY <1>3 DEF Put
  <2> QED BY <1>1, <1>2, <1>3, <2>1, PutLast
<1>4. CASE ~line[s]
  BY <1>4 DEF Put
<1> QED BY <1>3, <1>4

(* The same for the frames of either direction.                            *)
LEMMA SentToHub ==
  ASSUME TypeOK, NEW s \in Socks, NEW x \in FramesToHub
  PROVE  /\ Put(toHub, s, x) \in [Socks -> Seq(FramesToHub)]
         /\ \A t \in Socks \ {s} : Put(toHub, s, x)[t] = toHub[t]
         /\ \A e : Contains(Put(toHub, s, x)[s], e) => Contains(toHub[s], e) \/ e = x
<1>1. toHub \in [Socks -> Seq(FramesToHub)]
  BY DEF TypeOK, FramesToHub
<1>2. /\ Put(toHub, s, x) \in [Socks -> Seq(FramesToHub)]
      /\ \A t \in Socks \ {s} : Put(toHub, s, x)[t] = toHub[t]
  BY <1>1, PutKeeps
<1>3. ASSUME NEW e, Contains(Put(toHub, s, x)[s], e) PROVE Contains(toHub[s], e) \/ e = x
  BY <1>1, <1>3, PutKeeps
<1> QED BY <1>2, <1>3

LEMMA SentToConn ==
  ASSUME TypeOK, NEW s \in Socks, NEW x \in FramesToConn
  PROVE  /\ Put(toConn, s, x) \in [Socks -> Seq(FramesToConn)]
         /\ \A t \in Socks \ {s} : Put(toConn, s, x)[t] = toConn[t]
         /\ \A e : Contains(toConn[s], e) => Contains(Put(toConn, s, x)[s], e)
         /\ line[s] => Contains(Put(toConn, s, x)[s], x)
<1>1. toConn \in [Socks -> Seq(FramesToConn)]
  BY DEF TypeOK, FramesToConn
<1>2. /\ Put(toConn, s, x) \in [Socks -> Seq(FramesToConn)]
      /\ \A t \in Socks \ {s} : Put(toConn, s, x)[t] = toConn[t]
  BY <1>1, PutKeeps
<1>3. ASSUME NEW e, Contains(toConn[s], e) PROVE Contains(Put(toConn, s, x)[s], e)
  BY <1>1, <1>3, PutKeeps
<1>4. ASSUME line[s] PROVE Contains(Put(toConn, s, x)[s], x)
  BY <1>1, <1>4, PutKeeps
<1> QED BY <1>2, <1>3, <1>4

(* close() leaves a connection that is not held, and the hub hears of it   *)
(* by a close frame at most.                                               *)
LEMMA CloseConnEffect ==
  ASSUME TypeOK, NEW s \in Socks \cup {None}, CloseConn(s)
  PROVE  /\ conn' \in [Socks -> {"opening", "open", "closing", "closed"}]
         /\ toHub' \in [Socks -> Seq(FramesToHub)]
         /\ s # None => conn'[s] \notin {"opening", "open"}
         /\ \A t \in Socks \ {s} : conn'[t] = conn[t] /\ toHub'[t] = toHub[t]
<1>1. CASE s # None /\ conn[s] \in {"opening", "open"}
  <2>1. s \in Socks
    BY <1>1
  <2>2. /\ conn' = [conn EXCEPT ![s] = IF conn[s] = "open" /\ line[s] THEN "closing"
                                       ELSE "closed"]
        /\ toHub' = IF conn[s] = "open" THEN Put(toHub, s, "close") ELSE toHub
    BY <1>1 DEF CloseConn
  <2>3. toHub \in [Socks -> Seq(FramesToHub)] /\ "close" \in FramesToHub
    BY DEF TypeOK, FramesToHub
  <2>4. /\ toHub' \in [Socks -> Seq(FramesToHub)]
        /\ \A t \in Socks \ {s} : toHub'[t] = toHub[t]
    BY <2>1, <2>2, <2>3, PutKeeps
  <2>5. conn \in [Socks -> {"opening", "open", "closing", "closed"}]
    BY DEF TypeOK
  <2> QED BY <2>1, <2>2, <2>4, <2>5
<1>2. CASE ~(s # None /\ conn[s] \in {"opening", "open"})
  <2>1. UNCHANGED <<conn, toHub>>
    BY <1>2 DEF CloseConn
  <2> QED BY <1>2, <2>1 DEF TypeOK, FramesToHub
<1> QED BY <1>1, <1>2

(* closeAndBackoff leaves no connection held, and late events ignored.     *)
LEMMA CloseAndBackoffEffect ==
  ASSUME TypeOK, ConnectorInv, CloseAndBackoff
  PROVE  /\ live' = None /\ UNCHANGED <<socket, stopped, urlIndex>>
         /\ state' \in {state, "backoff"} /\ timers' \subseteq {"reconnect"}
         /\ stopped => state' = state /\ timers' = {}
         /\ conn' \in [Socks -> {"opening", "open", "closing", "closed"}]
         /\ toHub' \in [Socks -> Seq(FramesToHub)]
         /\ \A s \in Socks : conn'[s] \notin {"opening", "open"}
<1>1. socket \in Socks \cup {None} /\ CloseConn(socket)
  BY DEF TypeOK, CloseAndBackoff
<1>2. /\ live' = None /\ UNCHANGED <<socket, stopped, urlIndex>>
      /\ state' \in {state, "backoff"} /\ timers' \subseteq {"reconnect"}
      /\ stopped => state' = state /\ timers' = {}
  BY DEF CloseAndBackoff, Backoff
<1>3. /\ conn' \in [Socks -> {"opening", "open", "closing", "closed"}]
      /\ toHub' \in [Socks -> Seq(FramesToHub)]
      /\ socket # None => conn'[socket] \notin {"opening", "open"}
      /\ \A t \in Socks \ {socket} : conn'[t] = conn[t]
  BY <1>1, CloseConnEffect
<1>4. \A s \in Socks : conn'[s] \notin {"opening", "open"}
  BY <1>3 DEF ConnectorInv, HeldIsCurrent, Held, Socks, None
<1> QED BY <1>2, <1>3, <1>4

LEMMA CloseAndBackoffKeeps ==
  ASSUME IInv, CloseAndBackoff, UNCHANGED <<hubVars, peer, line, reg>>,
         toConn' \in [Socks -> Seq(FramesToConn)], faults' \in 0 .. MaxFaults
  PROVE  IInv'
<1> USE CloseAndBackoffEffect DEF IInv
<1>1. TypeOK'
  BY DEF TypeOK, hubVars, FramesToHub, FramesToConn
<1>2. ConnectorInv'
  BY DEF ConnectorInv, HeldIsCurrent, Held, CurrentIsLive, DialsWhenFree, TypeOK, None
<1>3. RegisteredIsDone'
  BY DEF HubInv, RegisteredIsDone, hubVars
<1>4. HubInv'
  BY <1>3 DEF HubInv, OpeningIsFresh, CloseIsMutual, AckIsReached
<1> QED BY <1>1, <1>2, <1>4

(* A dial starts on a socket that nothing refers to, when none is held.    *)
LEMMA ConnectKeeps ==
  ASSUME IInv, Connect, socket = None \/ ~Held(socket), stopped' = FALSE,
         UNCHANGED <<hubVars, faults>>
  PROVE  IInv'
<1> USE DEF IInv
<1>1. state' = "connecting" /\ timers' = {}
  BY DEF Connect
<1>2. PICK s \in Free : /\ s \in Socks /\ socket' = s /\ live' = s
                        /\ conn' = [conn EXCEPT ![s] = "opening"]
                        /\ line' = [line EXCEPT ![s] = TRUE]
                        /\ toHub' = [toHub EXCEPT ![s] = <<>>]
                        /\ toConn' = [toConn EXCEPT ![s] = <<>>]
                        /\ reg' = [reg EXCEPT ![s] = "none"]
                        /\ urlIndex' = 1 /\ UNCHANGED peer
  BY DialFresh DEF Connect
<1>3. peer[s] = "closed" /\ s # registered
  BY <1>2 DEF Free
<1>4. \A t \in Socks : conn[t] \notin {"opening", "open"}
  BY DEF ConnectorInv, HeldIsCurrent, Held, Socks, None
<1>5. TypeOK'
  <2>1. toHub' \in [Socks -> Seq({"register", "heartbeat", "close"})]
    BY <1>2 DEF TypeOK
  <2>2. toConn' \in [Socks -> Seq({"ack", "reject", "close"})]
    BY <1>2 DEF TypeOK
  <2>3. /\ conn' \in [Socks -> {"opening", "open", "closing", "closed"}]
        /\ line' \in [Socks -> BOOLEAN]
        /\ reg' \in [Socks -> {"none", "pending", "done", "failed"}]
    BY <1>2 DEF TypeOK
  <2>4. 1 \in 1 .. Urls
    BY ConstantsAssumption
  <2>5. stopped' \in BOOLEAN
    OBVIOUS
  <2> QED BY <1>1, <1>2, <2>1, <2>2, <2>3, <2>4, <2>5 DEF TypeOK, hubVars
<1>6. conn'[s] = "opening" /\ \A t \in Socks \ {s} : conn'[t] = conn[t]
  BY <1>2 DEF TypeOK
<1>7. ConnectorInv'
  BY <1>1, <1>2, <1>4, <1>6 DEF ConnectorInv, HeldIsCurrent, Held, CurrentIsLive, DialsWhenFree
<1>8. toHub'[s] = <<>> /\ toConn'[s] = <<>> /\ reg'[s] = "none"
  BY <1>2 DEF TypeOK
<1>9. RegisteredIsDone'
  BY <1>2, <1>3 DEF HubInv, RegisteredIsDone, hubVars, TypeOK
<1>10. HubInv'
  BY <1>1, <1>2, <1>3, <1>4, <1>6, <1>8, <1>9
     DEF HubInv, OpeningIsFresh, CloseIsMutual, AckIsReached, hubVars
<1> QED BY <1>5, <1>7, <1>10

LEMMA StartKeeps == IInv /\ (Start \/ Reconnect) => IInv'
<1>1. ASSUME IInv, Start PROVE IInv'
  BY <1>1, ConnectKeeps DEF Start, IInv, ConnectorInv, DialsWhenFree
<1>2. ASSUME IInv, Reconnect PROVE IInv'
  <2>1. stopped = FALSE /\ (socket = None \/ ~Held(socket))
    BY <1>2 DEF Reconnect, IInv, ConnectorInv, DialsWhenFree, TypeOK
  <2> QED BY <1>2, <2>1, ConnectKeeps DEF Reconnect
<1> QED BY <1>1, <1>2

LEMMA StopKeeps == ASSUME IInv, Stop PROVE IInv'
<1> USE DEF IInv
<1>1. /\ stopped' = TRUE /\ state' = "offline" /\ timers' = {} /\ socket' = None
      /\ UNCHANGED <<live, urlIndex, hubVars, peer, line, toConn, reg>>
      /\ CloseConn(socket) /\ faults' \in 0 .. MaxFaults
  BY ConstantsAssumption DEF Stop, Fault, TypeOK
<1>2. /\ conn' \in [Socks -> {"opening", "open", "closing", "closed"}]
      /\ toHub' \in [Socks -> Seq(FramesToHub)]
      /\ socket # None => conn'[socket] \notin {"opening", "open"}
      /\ \A t \in Socks \ {socket} : conn'[t] = conn[t]
  BY <1>1, CloseConnEffect DEF TypeOK
<1>3. \A s \in Socks : conn'[s] \notin {"opening", "open"}
  BY <1>2 DEF ConnectorInv, HeldIsCurrent, Held, Socks, None
<1>4. TypeOK'
  BY <1>1, <1>2 DEF TypeOK, hubVars, FramesToHub
<1>5. ConnectorInv'
  BY <1>1, <1>3 DEF ConnectorInv, HeldIsCurrent, Held, CurrentIsLive, DialsWhenFree
<1>6. HubInv'
  BY <1>1, <1>3 DEF HubInv, RegisteredIsDone, OpeningIsFresh, CloseIsMutual, AckIsReached, hubVars
<1> QED BY <1>4, <1>5, <1>6

(* A dial is answered: the line is new, and so is the hub's end.           *)
LEMMA OpenKeeps == ASSUME IInv, NEW s \in Socks, Open(s) PROVE IInv'
<1> USE DEF IInv
<1>1. /\ conn[s] = "opening"
      /\ conn' = [conn EXCEPT ![s] = "open"] /\ peer' = [peer EXCEPT ![s] = "open"]
      /\ UNCHANGED <<state, socket, live, stopped, urlIndex, hubVars, line, toConn, reg, faults>>
  BY DEF Open
<1>2. s = socket /\ stopped = FALSE
  BY <1>1 DEF ConnectorInv, HeldIsCurrent, Held, DialsWhenFree, TypeOK, Socks, None
<1>3. /\ state = "connecting" /\ peer[s] = "closed" /\ reg[s] = "none" /\ registered # s
      /\ toHub[s] = <<>> /\ toConn[s] = <<>>
  BY <1>1 DEF HubInv, OpeningIsFresh
<1>4. /\ timers' \in {timers, timers \cup {"register"}}
      /\ toHub' = toHub \/ toHub' = Put(toHub, s, "register")
  BY DEF Open
<1>5. /\ toHub' \in [Socks -> Seq(FramesToHub)]
      /\ \A t \in Socks \ {s} : toHub'[t] = toHub[t]
      /\ ~Contains(toHub'[s], "close")
  <2>1. toHub \in [Socks -> Seq(FramesToHub)] /\ "register" \in FramesToHub
    BY DEF TypeOK, FramesToHub
  <2>2. ~Contains(toHub[s], "close")
    BY <1>3, NothingIn
  <2>3. CASE toHub' = Put(toHub, s, "register")
    <3>1. /\ Put(toHub, s, "register") \in [Socks -> Seq(FramesToHub)]
          /\ \A t \in Socks \ {s} : Put(toHub, s, "register")[t] = toHub[t]
          /\ \A e : Contains(Put(toHub, s, "register")[s], e) =>
                      Contains(toHub[s], e) \/ e = "register"
      BY <2>1, SentToHub
    <3> QED BY <2>2, <2>3, <3>1
  <2> QED BY <1>4, <2>1, <2>2, <2>3
<1>6. TypeOK'
  BY <1>1, <1>4, <1>5 DEF TypeOK, hubVars, FramesToHub
<1>7. /\ conn'[s] = "open" /\ \A t \in Socks \ {s} : conn'[t] = conn[t]
      /\ \A t \in Socks \ {s} : peer'[t] = peer[t]
  BY <1>1 DEF TypeOK
<1>8. ConnectorInv'
  BY <1>1, <1>2, <1>4, <1>7 DEF ConnectorInv, HeldIsCurrent, Held, CurrentIsLive, DialsWhenFree
<1>9. RegisteredIsDone'
  BY <1>1 DEF HubInv, RegisteredIsDone, hubVars
<1>10. ~Contains(toConn[s], "ack")
  BY <1>3, NothingIn
<1>11. HubInv'
  BY <1>1, <1>2, <1>3, <1>5, <1>7, <1>9, <1>10
     DEF HubInv, OpeningIsFresh, CloseIsMutual, AckIsReached, Confirmed, Reached, hubVars
<1> QED BY <1>6, <1>8, <1>11

(* A dial is refused or rejected: the socket is given up, or another URL   *)
(* is tried on it.                                                         *)
LEMMA NotDialledKeeps ==
  ASSUME IInv, NEW s \in Socks, Refused(s) \/ Rejected(s)
  PROVE  IInv'
<1> USE DEF IInv
<1>1. /\ conn[s] = "opening" /\ urlIndex' \in 1 .. Urls /\ faults' \in 0 .. MaxFaults
      /\ UNCHANGED <<socket, live, stopped, hubVars, peer, line, toHub, toConn, reg>>
      /\ \/ UNCHANGED <<conn, state, timers>>
         \/ conn' = [conn EXCEPT ![s] = "closed"] /\ EnterBackoff
  BY ConstantsAssumption DEF Refused, Rejected, Fault, NextUrl, TypeOK
<1>2. s = socket /\ stopped = FALSE
  BY <1>1 DEF ConnectorInv, HeldIsCurrent, Held, DialsWhenFree, TypeOK, Socks, None
<1>3. CASE UNCHANGED <<conn, state, timers>>
  <2>1. TypeOK'
    BY <1>1, <1>3 DEF TypeOK, hubVars
  <2>2. ConnectorInv'
    BY <1>1, <1>3 DEF ConnectorInv, HeldIsCurrent, Held, CurrentIsLive, DialsWhenFree
  <2>3. HubInv'
    BY <1>1, <1>3 DEF HubInv, RegisteredIsDone, OpeningIsFresh, CloseIsMutual, AckIsReached,
                      Confirmed, Reached, hubVars
  <2> QED BY <2>1, <2>2, <2>3
<1>4. CASE conn' = [conn EXCEPT ![s] = "closed"] /\ EnterBackoff
  <2>1. state' = "backoff" /\ timers' = {"reconnect"}
    BY <1>2, <1>4 DEF EnterBackoff, Backoff
  <2>2. \A t \in Socks : conn'[t] \notin {"opening", "open"}
    BY <1>2, <1>4 DEF ConnectorInv, HeldIsCurrent, Held, TypeOK
  <2>3. TypeOK'
    BY <1>1, <1>4, <2>1 DEF TypeOK, hubVars
  <2>4. ConnectorInv'
    BY <1>1, <1>2, <2>1, <2>2 DEF ConnectorInv, HeldIsCurrent, Held, CurrentIsLive, DialsWhenFree
  <2>5. HubInv'
    BY <1>1, <2>2 DEF HubInv, RegisteredIsDone, OpeningIsFresh, CloseIsMutual, AckIsReached, hubVars
  <2> QED BY <2>3, <2>4, <2>5
<1> QED BY <1>1, <1>3, <1>4

(* A connection has ended on the connector's side.                         *)
LEMMA OnClosedKeeps ==
  ASSUME IInv, NEW s \in Socks, OnClosed(s), UNCHANGED <<hubVars, peer, line, reg, faults>>,
         toConn' \in [Socks -> Seq(FramesToConn)],
         \A t \in Socks \ {s} : toConn'[t] = toConn[t]
  PROVE  IInv'
<1> USE DEF IInv
<1>1. /\ conn' = [conn EXCEPT ![s] = "closed"]
      /\ UNCHANGED <<socket, live, stopped, urlIndex, toHub>>
  BY DEF OnClosed
<1>2. \/ state' = state /\ timers' = timers
      \/ state' = "offline" /\ timers' = timers /\ stopped = TRUE
      \/ state' = "backoff" /\ timers' = {"reconnect"} /\ stopped = FALSE /\ s = live
  BY DEF OnClosed, EnterBackoff, Backoff, Live, TypeOK
<1>3. conn'[s] = "closed" /\ \A t \in Socks \ {s} : conn'[t] = conn[t]
  BY <1>1 DEF TypeOK
<1>4. TypeOK'
  BY <1>1, <1>2 DEF TypeOK, hubVars, FramesToConn
<1>5. ConnectorInv'
  BY <1>1, <1>2, <1>3 DEF ConnectorInv, HeldIsCurrent, Held, CurrentIsLive, DialsWhenFree,
                          Socks, None
<1>6. state' = state \/ \A t \in Socks : conn'[t] \notin {"opening", "open"}
  BY <1>1, <1>2, <1>3 DEF ConnectorInv, HeldIsCurrent, Held, CurrentIsLive, DialsWhenFree,
                          Socks, None
<1>7. HubInv'
  BY <1>1, <1>3, <1>6 DEF HubInv, RegisteredIsDone, OpeningIsFresh, CloseIsMutual, AckIsReached,
                          Confirmed, Reached, hubVars
<1> QED BY <1>4, <1>5, <1>7

LEMMA ReceiveConnKeeps == ASSUME IInv, NEW s \in Socks, ReceiveConn(s) PROVE IInv'
<1> USE DEF IInv
<1>1. /\ conn[s] \in {"open", "closing"} /\ toConn[s] # <<>>
      /\ toConn' = [toConn EXCEPT ![s] = Tail(toConn[s])]
      /\ UNCHANGED <<hubVars, peer, line, reg, faults>>
  BY DEF ReceiveConn
<1>2. toConn[s] \in Seq(FramesToConn)
  BY DEF TypeOK, FramesToConn
<1>3. /\ Tail(toConn[s]) \in Seq(FramesToConn)
      /\ \A e : Contains(toConn[s], e) <=> Head(toConn[s]) = e \/ Contains(Tail(toConn[s]), e)
  BY <1>1, <1>2, TakeFirst
<1>4. /\ toConn' \in [Socks -> Seq(FramesToConn)] /\ toConn'[s] = Tail(toConn[s])
      /\ \A t \in Socks \ {s} : toConn'[t] = toConn[t]
  BY <1>1, <1>3 DEF TypeOK, FramesToConn
<1>5. CASE Head(toConn[s]) = "close" /\ OnClosed(s)
  BY <1>1, <1>4, <1>5, OnClosedKeeps
<1>6. CASE CloseAndBackoff
  <2>1. faults' \in 0 .. MaxFaults
    BY <1>1 DEF TypeOK
  <2> QED BY <1>1, <1>4, <1>6, <2>1, CloseAndBackoffKeeps
<1>7. CASE Head(toConn[s]) = "ack" /\ Live(s) /\ OnAck(s)
  <2>1. /\ state' = "connected" /\ timers' = (timers \ {"register"}) \cup {"heartbeat"}
        /\ UNCHANGED <<socket, live, stopped, urlIndex, conn>>
        /\ \/ toHub' = toHub
           \/ s = socket /\ conn[s] = "open" /\ toHub' = Put(toHub, s, "heartbeat")
    BY <1>7 DEF OnAck
  <2>2. /\ toHub' \in [Socks -> Seq(FramesToHub)]
        /\ \A t \in Socks \ {s} : toHub'[t] = toHub[t]
        /\ Contains(toHub'[s], "close") => Contains(toHub[s], "close")
    <3>1. toHub \in [Socks -> Seq(FramesToHub)] /\ "heartbeat" \in FramesToHub
      BY DEF TypeOK, FramesToHub
    <3>2. /\ Put(toHub, s, "heartbeat") \in [Socks -> Seq(FramesToHub)]
          /\ \A t \in Socks \ {s} : Put(toHub, s, "heartbeat")[t] = toHub[t]
          /\ \A e : Contains(Put(toHub, s, "heartbeat")[s], e) =>
                      Contains(toHub[s], e) \/ e = "heartbeat"
      BY <3>1, SentToHub
    <3>3. Contains(Put(toHub, s, "heartbeat")[s], "close") => Contains(toHub[s], "close")
      BY <3>2
    <3> QED BY <2>1, <3>1, <3>2, <3>3
  <2>3. TypeOK'
    BY <1>1, <1>4, <2>1, <2>2 DEF TypeOK, hubVars, FramesToHub, FramesToConn
  <2>4. \A t \in Socks : Held(t) => t = s /\ conn[t] = "open"
    BY <1>1, <1>7 DEF ConnectorInv, HeldIsCurrent, Held, CurrentIsLive, Live, Socks, None
  <2>5. ConnectorInv'
    BY <2>1 DEF ConnectorInv, HeldIsCurrent, Held, CurrentIsLive, DialsWhenFree
  <2>6. Contains(toConn[s], "ack") /\ (Contains(toConn[s], "close") => Contains(toConn'[s], "close"))
    BY <1>3, <1>4, <1>7
  <2>7. HubInv'
    BY <1>1, <2>1, <2>2, <2>4, <2>6 DEF HubInv, RegisteredIsDone, OpeningIsFresh,
       CloseIsMutual, AckIsReached, Confirmed, Reached, Held, hubVars
  <2> QED BY <2>3, <2>5, <2>7
<1>8. CASE Head(toConn[s]) # "close" /\ ~Live(s) /\ UNCHANGED <<connVars, conn, toHub>>
  <2>1. TypeOK'
    BY <1>1, <1>4, <1>8 DEF TypeOK, hubVars, connVars, FramesToConn
  <2>2. ConnectorInv'
    BY <1>8 DEF ConnectorInv, HeldIsCurrent, Held, CurrentIsLive, DialsWhenFree, connVars
  <2>3. /\ Contains(toConn[s], "close") => Contains(toConn'[s], "close")
        /\ Contains(toConn'[s], "ack") => Contains(toConn[s], "ack")
    BY <1>3, <1>4, <1>8
  <2>4. HubInv'
    BY <1>1, <1>4, <1>8, <2>3 DEF HubInv, RegisteredIsDone, OpeningIsFresh,
       CloseIsMutual, AckIsReached, Confirmed, Reached, hubVars, connVars
  <2> QED BY <2>1, <2>2, <2>4
<1> QED BY <1>5, <1>6, <1>7, <1>8 DEF ReceiveConn

LEMMA HeartbeatKeeps == ASSUME IInv, Heartbeat PROVE IInv'
<1> USE DEF IInv
<1>1. UNCHANGED <<hubVars, peer, line, toConn, reg, faults>>
  BY DEF Heartbeat
<1>2. CASE CloseAndBackoff
  <2>1. faults' \in 0 .. MaxFaults /\ toConn' \in [Socks -> Seq(FramesToConn)]
    BY <1>1 DEF TypeOK, FramesToConn
  <2> QED BY <1>1, <1>2, <2>1, CloseAndBackoffKeeps
<1>3. CASE Responsive /\ toHub' = Put(toHub, socket, "heartbeat") /\ UNCHANGED <<connVars, conn>>
  <2>1. socket \in Socks
    BY <1>3 DEF Responsive, TypeOK
  <2>2. toHub \in [Socks -> Seq(FramesToHub)] /\ "heartbeat" \in FramesToHub
    BY DEF TypeOK, FramesToHub
  <2>3. /\ toHub' \in [Socks -> Seq(FramesToHub)]
        /\ \A t \in Socks \ {socket} : toHub'[t] = toHub[t]
        /\ \A e : Contains(toHub'[socket], e) =>
                    Contains(toHub[socket], e) \/ e = "heartbeat"
    BY <1>3, <2>1, <2>2, SentToHub
  <2>4. Contains(toHub'[socket], "close") => Contains(toHub[socket], "close")
    BY <2>3
  <2>5. TypeOK'
    BY <1>1, <1>3, <2>3 DEF TypeOK, hubVars, connVars, FramesToHub
  <2>6. ConnectorInv'
    BY <1>3 DEF ConnectorInv, HeldIsCurrent, Held, CurrentIsLive, DialsWhenFree, connVars
  <2>7. HubInv'
    BY <1>1, <1>3, <2>1, <2>3, <2>4 DEF Responsive, HubInv, RegisteredIsDone, OpeningIsFresh,
       CloseIsMutual, AckIsReached, Confirmed, Reached, hubVars, connVars
  <2> QED BY <2>5, <2>6, <2>7
<1> QED BY <1>2, <1>3 DEF Heartbeat

LEMMA RegisterTimeoutKeeps == ASSUME IInv, RegisterTimeout PROVE IInv'
<1>1. faults' \in 0 .. MaxFaults /\ toConn' \in [Socks -> Seq(FramesToConn)]
  BY ConstantsAssumption DEF RegisterTimeout, Fault, IInv, TypeOK, FramesToConn
<1> QED BY <1>1, CloseAndBackoffKeeps DEF RegisterTimeout

LEMMA ConnCloseDoneKeeps == ASSUME IInv, NEW s \in Socks, ConnCloseDone(s) PROVE IInv'
BY OnClosedKeeps DEF ConnCloseDone, IInv, TypeOK, FramesToConn

-----------------------------------------------------------------------------
(* A step of the hub or the network that concerns one socket: what is said *)
(* of the others stays, so only that one is to be looked at.               *)
Touches(s) ==
  /\ UNCHANGED <<connVars, conn>>
  /\ registered' = registered \/ (registered = s /\ registered' = None)
  /\ \A t \in Socks \ {s} : /\ peer'[t] = peer[t] /\ line'[t] = line[t] /\ reg'[t] = reg[t]
                            /\ toHub'[t] = toHub[t] /\ toConn'[t] = toConn[t]

LEMMA OneSocketKeeps ==
  ASSUME IInv, NEW s \in Socks, Touches(s), TypeOK', conn[s] # "opening",
         reg[s] = "done" => reg'[s] = "done",
         conn[s] = "open" /\ Contains(toHub'[s], "close") => Contains(toConn'[s], "close"),
         conn[s] = "open" /\ (Contains(toConn'[s], "ack") \/ state = "connected") =>
           (registered' = s /\ peer'[s] = "open") \/ ~line'[s] \/ Contains(toConn'[s], "close")
  PROVE  IInv'
<1> USE DEF IInv
<1>1. ConnectorInv'
  BY DEF Touches, ConnectorInv, HeldIsCurrent, Held, CurrentIsLive, DialsWhenFree, connVars
<1>2. RegisteredIsDone'
  BY DEF Touches, HubInv, RegisteredIsDone, TypeOK, None
<1>3. OpeningIsFresh'
  BY DEF Touches, HubInv, OpeningIsFresh, connVars, Socks, None
<1>4. CloseIsMutual'
  BY DEF Touches, HubInv, CloseIsMutual
<1>5. AckIsReached'
  BY DEF Touches, HubInv, AckIsReached, Confirmed, Reached, connVars, Socks, None
<1> QED BY <1>1, <1>2, <1>3, <1>4, <1>5 DEF HubInv

(* The hub's end closes only when it was closing, its line is silent or    *)
(* the connector hears of the end as well.                                 *)
LEMMA HubClosedKeeps ==
  ASSUME IInv, NEW s \in Socks, HubClosed(s), conn[s] # "opening",
         UNCHANGED <<connVars, conn, line, toConn, reg, faults>>,
         toHub' \in [Socks -> Seq(FramesToHub)],
         \A t \in Socks \ {s} : toHub'[t] = toHub[t],
         Contains(toHub'[s], "close") => Contains(toHub[s], "close"),
         peer[s] = "closing" \/ ~line[s] \/ Contains(toHub[s], "close")
  PROVE  IInv'
<1> USE DEF IInv
<1>1. /\ peer' = [peer EXCEPT ![s] = "closed"]
      /\ \/ registered = s /\ registered' = None /\ tracker' = "idle"
         \/ registered' = registered /\ tracker' = tracker
  BY DEF HubClosed, Detach, hubVars
<1>2. TypeOK'
  BY <1>1 DEF TypeOK, connVars, FramesToHub
<1>3. Touches(s)
  BY <1>1 DEF Touches, TypeOK
<1>4. conn[s] = "open" /\ Contains(toHub'[s], "close") => Contains(toConn'[s], "close")
  BY DEF HubInv, CloseIsMutual
<1>5. conn[s] = "open" /\ (Contains(toConn'[s], "ack") \/ state = "connected") =>
        ~line'[s] \/ Contains(toConn'[s], "close")
  BY DEF HubInv, CloseIsMutual, AckIsReached, Confirmed, Reached
<1> QED BY <1>2, <1>3, <1>4, <1>5, OneSocketKeeps

LEMMA ReceiveHubKeeps == ASSUME IInv, NEW s \in Socks, ReceiveHub(s) PROVE IInv'
<1> USE DEF IInv
<1>1. /\ toHub[s] # <<>> /\ toHub' = [toHub EXCEPT ![s] = Tail(toHub[s])]
      /\ UNCHANGED <<connVars, conn, line, toConn, faults>>
  BY DEF ReceiveHub
<1>2. toHub[s] \in Seq(FramesToHub)
  BY DEF TypeOK, FramesToHub
<1>3. /\ Tail(toHub[s]) \in Seq(FramesToHub)
      /\ \A e : Contains(toHub[s], e) <=> Head(toHub[s]) = e \/ Contains(Tail(toHub[s]), e)
  BY <1>1, <1>2, TakeFirst
<1>4. /\ toHub' \in [Socks -> Seq(FramesToHub)] /\ toHub'[s] = Tail(toHub[s])
      /\ \A t \in Socks \ {s} : toHub'[t] = toHub[t]
  BY <1>1, <1>3 DEF TypeOK, FramesToHub
<1>5. conn[s] # "opening"
  BY <1>1 DEF HubInv, OpeningIsFresh
<1>6. Contains(toHub'[s], "close") => Contains(toHub[s], "close")
  BY <1>3, <1>4
<1>7. CASE Head(toHub[s]) = "close" /\ HubClosed(s) /\ UNCHANGED reg
  <2>1. Contains(toHub[s], "close")
    BY <1>3, <1>7
  <2> QED BY <1>1, <1>4, <1>5, <1>6, <1>7, <2>1, HubClosedKeeps
<1>8. CASE OnRegister(s) \/ OnHeartbeat(s)
  <2>1. /\ UNCHANGED <<registered, peer>>
        /\ tracker' = tracker \/ tracker' = "connected"
        /\ reg' = reg \/ reg' = [reg EXCEPT ![s] = IF reg[s] = "none" THEN "pending" ELSE reg[s]]
    BY <1>8 DEF OnRegister, OnHeartbeat, hubVars
  <2>2. TypeOK'
    BY <1>1, <1>4, <2>1 DEF TypeOK, connVars, FramesToHub
  <2>3. Touches(s) /\ (reg[s] = "done" => reg'[s] = "done")
    BY <1>1, <1>4, <2>1 DEF Touches, TypeOK
  <2>4. conn[s] = "open" /\ Contains(toHub'[s], "close") => Contains(toConn'[s], "close")
    BY <1>1, <1>6 DEF HubInv, CloseIsMutual
  <2>5. conn[s] = "open" /\ (Contains(toConn'[s], "ack") \/ state = "connected") =>
          (registered' = s /\ peer'[s] = "open") \/ ~line'[s] \/ Contains(toConn'[s], "close")
    BY <1>1, <2>1 DEF HubInv, AckIsReached, Confirmed, Reached
  <2> QED BY <1>5, <2>2, <2>3, <2>4, <2>5, OneSocketKeeps
<1> QED BY <1>7, <1>8 DEF ReceiveHub

LEMMA HubEndsKeeps ==
  ASSUME IInv, NEW s \in Socks, HubCloseDone(s) \/ HubGivesUp(s)
  PROVE  IInv'
<1>1. /\ HubClosed(s) /\ UNCHANGED <<connVars, conn, line, toHub, toConn, reg, faults>>
      /\ peer[s] = "closing" \/ (peer[s] = "open" /\ ~line[s])
  BY DEF HubCloseDone, HubGivesUp
<1>2. conn[s] # "opening"
  BY <1>1 DEF IInv, HubInv, OpeningIsFresh
<1>3. toHub' \in [Socks -> Seq(FramesToHub)]
  BY <1>1 DEF IInv, TypeOK, FramesToHub
<1> QED BY <1>1, <1>2, <1>3, HubClosedKeeps

LEMMA ResetKeeps == ASSUME IInv, NEW s \in Socks, Reset(s) \/ Silence(s) PROVE IInv'
<1> USE DEF IInv
<1>1. /\ conn[s] = "open" /\ faults' \in 0 .. MaxFaults
      /\ UNCHANGED <<connVars, hubVars, conn, peer, reg>>
      /\ \/ /\ toHub' = [toHub EXCEPT ![s] = <<"close">>]
            /\ toConn' = [toConn EXCEPT ![s] = <<"close">>] /\ UNCHANGED line
         \/ /\ toHub' = [toHub EXCEPT ![s] = <<>>]
            /\ toConn' = [toConn EXCEPT ![s] = <<>>]
            /\ line' = [line EXCEPT ![s] = FALSE]
  BY ConstantsAssumption DEF Reset, Silence, Fault, TypeOK
<1>2. \/ toConn'[s] = <<"close">> /\ toHub'[s] = <<"close">>
      \/ ~line'[s] /\ toHub'[s] = <<>>
  BY <1>1 DEF TypeOK
<1>3. TypeOK'
  <2>1. /\ toHub \in [Socks -> Seq(FramesToHub)] /\ toConn \in [Socks -> Seq(FramesToConn)]
        /\ line \in [Socks -> BOOLEAN]
    BY DEF TypeOK, FramesToHub, FramesToConn
  <2>2. /\ <<"close">> \in Seq(FramesToHub) /\ <<>> \in Seq(FramesToHub)
        /\ <<"close">> \in Seq(FramesToConn) /\ <<>> \in Seq(FramesToConn)
    BY DEF FramesToHub, FramesToConn
  <2>3. toHub' \in [Socks -> Seq(FramesToHub)]
    BY <1>1, <2>1, <2>2
  <2>4. toConn' \in [Socks -> Seq(FramesToConn)]
    BY <1>1, <2>1, <2>2
  <2>5. line' \in [Socks -> BOOLEAN]
    BY <1>1, <2>1
  <2> QED BY <1>1, <2>3, <2>4, <2>5 DEF TypeOK, connVars, hubVars, FramesToHub, FramesToConn
<1>4. Touches(s)
  BY <1>1 DEF Touches, TypeOK, hubVars
<1>5. ~Contains(<<>>, "close") /\ Contains(<<"close">>, "close")
  BY NothingIn, OnlyThat
<1>6. conn[s] # "opening" /\ (reg[s] = "done" => reg'[s] = "done")
  BY <1>1
<1>7. /\ Contains(toHub'[s], "close") => Contains(toConn'[s], "close")
      /\ ~line'[s] \/ Contains(toConn'[s], "close")
  BY <1>2, <1>5
<1> QED BY <1>3, <1>4, <1>6, <1>7, OneSocketKeeps

LEMMA HubErrorKeeps == ASSUME IInv, NEW s \in Socks, HubError(s) PROVE IInv'
<1> USE DEF IInv
<1>1. /\ peer[s] = "open" /\ faults' \in 0 .. MaxFaults
      /\ tracker' \in {tracker, "error"} /\ peer' = [peer EXCEPT ![s] = "closing"]
      /\ toConn' = Put(toConn, s, "close")
      /\ UNCHANGED <<connVars, registered, conn, line, toHub, reg>>
  BY ConstantsAssumption DEF HubError, Fault, TypeOK
<1>2. /\ toConn' \in [Socks -> Seq(FramesToConn)]
      /\ \A t \in Socks \ {s} : toConn'[t] = toConn[t]
      /\ Contains(toConn[s], "close") => Contains(toConn'[s], "close")
      /\ line[s] => Contains(toConn'[s], "close")
  <2>1. "close" \in FramesToConn
    BY DEF FramesToConn
  <2> QED BY <1>1, <2>1, SentToConn
<1>3. TypeOK'
  BY <1>1, <1>2 DEF TypeOK, connVars, FramesToConn
<1>4. Touches(s)
  BY <1>1, <1>2 DEF Touches, TypeOK
<1>5. conn[s] # "opening" /\ (reg[s] = "done" => reg'[s] = "done")
  BY <1>1 DEF HubInv, OpeningIsFresh
<1>6. conn[s] = "open" /\ Contains(toHub'[s], "close") => Contains(toConn'[s], "close")
  BY <1>1, <1>2 DEF HubInv, CloseIsMutual
<1>7. ~line'[s] \/ Contains(toConn'[s], "close")
  BY <1>1, <1>2
<1> QED BY <1>3, <1>4, <1>5, <1>6, <1>7, OneSocketKeeps

LEMMA RegisterFailsKeeps == ASSUME IInv, NEW s \in Socks, RegisterFails(s) PROVE IInv'
<1> USE DEF IInv
<1> DEFINE q == toConn[s] \o <<"reject", "close">>
<1>1. /\ reg[s] = "pending" /\ faults' \in 0 .. MaxFaults
      /\ reg' = [reg EXCEPT ![s] = "failed"]
      /\ peer' = [peer EXCEPT ![s] = IF peer[s] = "open" THEN "closing" ELSE peer[s]]
      /\ toConn' = [toConn EXCEPT ![s] = IF peer[s] = "open" /\ line[s] THEN q ELSE toConn[s]]
      /\ UNCHANGED <<connVars, hubVars, conn, line, toHub>>
  BY ConstantsAssumption DEF RegisterFails, Fault, TypeOK
<1>2. toConn[s] \in Seq(FramesToConn)
  BY DEF TypeOK, FramesToConn
<1>3. q \in Seq(FramesToConn) /\ Contains(q, "close")
  <2>1. /\ q = Append(Append(toConn[s], "reject"), "close")
        /\ "reject" \in FramesToConn /\ "close" \in FramesToConn
    BY <1>2 DEF FramesToConn
  <2>2. Append(toConn[s], "reject") \in Seq(FramesToConn)
    BY <1>2, <2>1, PutLast
  <2>3. /\ Append(Append(toConn[s], "reject"), "close") \in Seq(FramesToConn)
        /\ Contains(Append(Append(toConn[s], "reject"), "close"), "close")
    BY <2>1, <2>2, PutLast
  <2> QED BY <2>1, <2>3
<1> HIDE DEF q
<1>4. /\ toConn' \in [Socks -> Seq(FramesToConn)]
      /\ toConn'[s] = IF peer[s] = "open" /\ line[s] THEN q ELSE toConn[s]
      /\ \A t \in Socks \ {s} : toConn'[t] = toConn[t]
  BY <1>1, <1>2, <1>3 DEF TypeOK, FramesToConn
<1>5. TypeOK'
  BY <1>1, <1>4 DEF TypeOK, connVars, hubVars, FramesToConn
<1>6. Touches(s) /\ conn[s] # "opening"
  BY <1>1, <1>4 DEF Touches, TypeOK, hubVars, HubInv, OpeningIsFresh
<1>7. conn[s] = "open" /\ Contains(toHub'[s], "close") => Contains(toConn'[s], "close")
  BY <1>1, <1>3, <1>4 DEF HubInv, CloseIsMutual
<1>8. registered # s
  BY <1>1 DEF HubInv, RegisteredIsDone, Socks, None
<1>9. conn[s] = "open" /\ (Contains(toConn'[s], "ack") \/ state = "connected") =>
        ~line'[s] \/ Contains(toConn'[s], "close")
  BY <1>1, <1>3, <1>4, <1>8 DEF HubInv, AckIsReached, Confirmed, Reached
<1> QED BY <1>1, <1>5, <1>6, <1>7, <1>9, OneSocketKeeps

LEMMA SweepKeeps == IInv /\ Sweep => IInv'
<1> SUFFICES ASSUME IInv, Sweep PROVE IInv'
  OBVIOUS
<1>1. TypeOK'
  BY DEF Sweep, IInv, TypeOK, connVars, netVars
<1>2. ConnectorInv'
  BY DEF Sweep, IInv, ConnectorInv, HeldIsCurrent, Held, CurrentIsLive, DialsWhenFree,
         connVars, netVars
<1>3. HubInv'
  BY DEF Sweep, IInv, HubInv, RegisteredIsDone, OpeningIsFresh, CloseIsMutual, AckIsReached,
         Confirmed, Reached, connVars, netVars
<1> QED BY <1>1, <1>2, <1>3 DEF IInv

(* The newest registration wins: the socket it replaces is told to close,  *)
(* or its line is silent, or it was ending already.                        *)
LEMMA RegistersKeeps == ASSUME IInv, NEW s \in Socks, Registers(s) PROVE IInv'
<1> USE DEF IInv
<1>1. /\ reg[s] = "pending" /\ reg' = [reg EXCEPT ![s] = "done"]
      /\ registered' = s /\ tracker' = "connected"
      /\ UNCHANGED <<connVars, conn, line, toHub, faults>>
      /\ peer' = [p \in Socks |->
           IF p \in Previous(s) /\ peer[p] = "open" THEN "closing" ELSE peer[p]]
  BY DEF Registers, RegisterPeer
<1>2. \A p \in Socks : toConn[p] \in Seq(FramesToConn)
  BY DEF TypeOK, FramesToConn
<1>3. "ack" \in FramesToConn /\ "close" \in FramesToConn
  BY DEF FramesToConn
<1>4. \A p \in Socks : toConn'[p] =
        CASE p = s /\ peer[s] = "open" /\ line[s] -> Append(toConn[s], "ack")
          [] p \in Previous(s) /\ peer[p] = "open" /\ line[p] -> Append(toConn[p], "close")
          [] OTHER -> toConn[p]
  BY DEF Registers
<1>5. s \notin Previous(s) /\ \A p \in Previous(s) : p = registered
  BY DEF Previous
<1>6. ASSUME NEW p \in Socks
      PROVE  /\ toConn'[p] \in Seq(FramesToConn)
             /\ Contains(toConn[p], "close") => Contains(toConn'[p], "close")
             /\ p \in Previous(s) /\ peer[p] = "open" /\ line[p] => Contains(toConn'[p], "close")
             /\ p # s /\ Contains(toConn'[p], "ack") => Contains(toConn[p], "ack")
             /\ Contains(toConn'[p], "ack") /\ peer[p] # "open" => Contains(toConn[p], "ack")
             /\ p # s /\ p \notin Previous(s) => toConn'[p] = toConn[p]
             /\ p # s /\ peer[p] # "open" => toConn'[p] = toConn[p]
  <2>1. /\ Append(toConn[p], "ack") \in Seq(FramesToConn)
        /\ Append(toConn[p], "close") \in Seq(FramesToConn)
        /\ Contains(toConn[p], "close") => Contains(Append(toConn[p], "ack"), "close")
        /\ Contains(Append(toConn[p], "close"), "close")
        /\ Contains(Append(toConn[p], "close"), "ack") => Contains(toConn[p], "ack")
    BY <1>2, <1>3, PutLast
  <2>2. CASE p = s /\ peer[s] = "open" /\ line[s]
    <3>1. toConn'[p] = Append(toConn[p], "ack")
      BY <1>4, <1>5, <2>2
    <3> QED BY <1>5, <2>1, <2>2, <3>1
  <2>3. CASE p \in Previous(s) /\ peer[p] = "open" /\ line[p]
    <3>1. toConn'[p] = Append(toConn[p], "close")
      BY <1>4, <1>5, <2>3
    <3> QED BY <1>5, <2>1, <2>3, <3>1
  <2>4. CASE /\ ~(p = s /\ peer[s] = "open" /\ line[s])
             /\ ~(p \in Previous(s) /\ peer[p] = "open" /\ line[p])
    <3>1. toConn'[p] = toConn[p]
      BY <1>4, <2>4
    <3> QED BY <1>2, <2>4, <3>1
  <2> QED BY <2>2, <2>3, <2>4
<1>7. TypeOK'
  <2>1. toConn' \in [Socks -> Seq(FramesToConn)]
    <3>1. toConn' = [p \in Socks |-> toConn'[p]]
      BY DEF Registers
    <3> QED BY <1>6, <3>1
  <2>2. peer' \in [Socks -> {"open", "closing", "closed"}]
    BY <1>1 DEF TypeOK
  <2>3. reg' \in [Socks -> {"none", "pending", "done", "failed"}]
    BY <1>1 DEF TypeOK
  <2> QED BY <1>1, <2>1, <2>2, <2>3 DEF TypeOK, connVars, FramesToConn
<1>8. ConnectorInv'
  BY <1>1 DEF ConnectorInv, HeldIsCurrent, Held, CurrentIsLive, DialsWhenFree, connVars
<1>9. RegisteredIsDone'
  BY <1>1 DEF RegisteredIsDone, TypeOK
<1>10. OpeningIsFresh'
  <2>1. conn[s] # "opening"
    BY <1>1 DEF HubInv, OpeningIsFresh
  <2>2. \A p \in Socks : peer[p] = "closed" => peer'[p] = "closed"
    BY <1>1
  <2>3. \A p \in Socks \ {s} : reg'[p] = reg[p]
    BY <1>1 DEF TypeOK
  <2> QED BY <1>1, <1>6, <2>1, <2>2, <2>3 DEF HubInv, OpeningIsFresh, connVars
<1>11. CloseIsMutual'
  BY <1>1, <1>6 DEF HubInv, CloseIsMutual, connVars
<1>12. AckIsReached'
  <2>1. peer'[s] = peer[s]
    BY <1>1, <1>5
  <2> SUFFICES ASSUME NEW p \in Socks, conn[p] = "open", Confirmed(p)', line[p],
                      ~Contains(toConn'[p], "close")
               PROVE  Reached(p)'
    BY <1>1 DEF AckIsReached
  <2>2. ~Contains(toConn[p], "close")
    BY <1>6
  <2>3. ASSUME p # s PROVE FALSE
    <3>1. Confirmed(p)
      BY <1>1, <1>6, <2>3 DEF Confirmed, connVars
    <3>2. registered = p /\ peer[p] = "open"
      BY <2>2, <3>1 DEF HubInv, AckIsReached, Reached
    <3>3. p \in Previous(s)
      BY <2>3, <3>2 DEF Previous, Socks, None
    <3> QED BY <1>6, <3>2, <3>3
  <2>4. ASSUME p = s, peer[s] # "open" PROVE FALSE
    <3>1. Confirmed(s)
      BY <1>1, <1>6, <2>4 DEF Confirmed, connVars
    <3> QED BY <2>2, <2>4, <3>1 DEF HubInv, AckIsReached, Reached
  <2> QED BY <1>1, <2>1, <2>3, <2>4 DEF Reached
<1> QED BY <1>7, <1>8, <1>9, <1>10, <1>11, <1>12 DEF HubInv

-----------------------------------------------------------------------------
(* Every step of the connector, the hub and the network keeps the          *)
(* invariant.                                                              *)
THEOREM Preserved == IInv /\ [Next]_vars => IInv'
<1> SUFFICES ASSUME IInv, [Next]_vars PROVE IInv'
  OBVIOUS
<1>1. CASE UNCHANGED vars
  <2> USE <1>1 DEF vars, connVars, hubVars, netVars
  <2>1. TypeOK'
    BY DEF IInv, TypeOK
  <2>2. ConnectorInv'
    BY DEF IInv, ConnectorInv, HeldIsCurrent, Held, CurrentIsLive, DialsWhenFree
  <2>3. HubInv'
    BY DEF IInv, HubInv, RegisteredIsDone, OpeningIsFresh, CloseIsMutual, AckIsReached,
           Confirmed, Reached
  <2> QED BY <2>1, <2>2, <2>3 DEF IInv
<1>2. ASSUME NEW s \in Socks,
             \/ Dialled(s) \/ ReceiveConn(s) \/ ConnCloseDone(s)
             \/ ReceiveHub(s) \/ Registers(s) \/ HubCloseDone(s) \/ HubGivesUp(s)
             \/ Fortune(s)
      PROVE  IInv'
  BY <1>2, OpenKeeps, NotDialledKeeps, ReceiveConnKeeps, ConnCloseDoneKeeps, ReceiveHubKeeps,
     RegistersKeeps, HubEndsKeeps, RegisterFailsKeeps, HubErrorKeeps, ResetKeeps
     DEF Dialled, Fortune
<1> QED BY <1>1, <1>2, StartKeeps, StopKeeps, RegisterTimeoutKeeps, HeartbeatKeeps, SweepKeeps
           DEF Next

(* IInv holds in every reachable state.                                    *)
THEOREM Invariance == Spec => []IInv
<1>1. Init => IInv
  <2> SUFFICES ASSUME Init PROVE IInv
    OBVIOUS
  <2>1. TypeOK
    <3>1. 1 \in 1 .. Urls /\ 0 \in 0 .. MaxFaults
      BY ConstantsAssumption
    <3>2. /\ toHub \in [Socks -> Seq({"register", "heartbeat", "close"})]
          /\ toConn \in [Socks -> Seq({"ack", "reject", "close"})]
      BY DEF Init
    <3> QED BY <3>1, <3>2 DEF Init, TypeOK
  <2>2. ConnectorInv
    BY DEF Init, ConnectorInv, HeldIsCurrent, Held, CurrentIsLive, DialsWhenFree
  <2>3. HubInv
    BY DEF Init, HubInv, RegisteredIsDone, OpeningIsFresh, CloseIsMutual, AckIsReached
  <2> QED BY <2>1, <2>2, <2>3 DEF IInv
<1> QED BY <1>1, Preserved, PTL DEF Spec

(* Sockets, timers, frames and registrations keep their types.             *)
THEOREM TypeCorrect == Spec => []TypeOK
<1>1. IInv => TypeOK
  BY DEF IInv
<1> QED BY <1>1, Invariance, PTL

(* Whatever is refused, lost, late or repeated, on any number of sockets:  *)
(* the connector holds one connection at most, and when it believes itself *)
(* connected the hub reaches it there, or word of the contrary is on its   *)
(* way (handleRegister, detach, closeAndBackoff, tryUrl).                  *)
THEOREM AgreedConnectionHolds == Spec => []AgreedConnection
<1>1. IInv => AgreedConnection
  <2> SUFFICES ASSUME IInv PROVE AgreedConnection
    OBVIOUS
  <2>1. OneConnection
    BY DEF OneConnection, IInv, ConnectorInv, HeldIsCurrent, Held
  <2>2. ConnectedIsReached
    BY DEF ConnectedIsReached, IInv, TypeOK, HubInv, AckIsReached, Confirmed, Reached
  <2> QED BY <2>1, <2>2 DEF AgreedConnection
<1> QED BY <1>1, Invariance, PTL

(* Without start() or the timer for the next dial nothing is dialled,      *)
LEMMA StoppedDialsNot ==
  ASSUME IInv, Next, stopped, stopped', NEW s \in Socks, conn'[s] = "opening"
  PROVE  conn[s] = "opening"
<1>1. ~Start /\ ~Reconnect
  BY DEF Start, Reconnect, IInv, ConnectorInv, DialsWhenFree
<1>2. TypeOK /\ socket \in Socks \cup {None}
  BY DEF IInv, TypeOK
<1>3. CASE CloseConn(socket)
  BY <1>2, <1>3, CloseConnEffect DEF Socks, None
<1>4. CASE Stop \/ RegisterTimeout \/ Heartbeat \/ Sweep
  BY <1>3, <1>4 DEF Stop, RegisterTimeout, Heartbeat, CloseAndBackoff, Sweep, netVars
<1>5. ASSUME NEW t \in Socks, Dialled(t) \/ ConnCloseDone(t) \/ Rejected(t)
      PROVE  conn[s] = "opening"
  BY <1>2, <1>5 DEF Dialled, Open, Refused, Rejected, ConnCloseDone, OnClosed, TypeOK
<1>6. ASSUME NEW t \in Socks, ReceiveConn(t) PROVE conn[s] = "opening"
  BY <1>2, <1>3, <1>6 DEF ReceiveConn, OnAck, CloseAndBackoff, OnClosed, TypeOK
<1>7. ASSUME NEW t \in Socks,
             \/ ReceiveHub(t) \/ Registers(t) \/ HubCloseDone(t) \/ HubGivesUp(t)
             \/ RegisterFails(t) \/ HubError(t) \/ Reset(t) \/ Silence(t)
      PROVE  conn[s] = "opening"
  BY <1>7 DEF ReceiveHub, Registers, HubCloseDone, HubGivesUp, RegisterFails, HubError,
     Reset, Silence
<1> QED BY <1>1, <1>4, <1>5, <1>6, <1>7 DEF Next, Fortune

(* and what is sent is not a registration: closing sends a close frame,    *)
LEMMA CloseIsNoRegister ==
  ASSUME TypeOK, CloseConn(socket), NEW s \in Socks, Contains(toHub'[s], "register")
  PROVE  Contains(toHub[s], "register")
<1>1. socket # None => socket \in Socks
  BY DEF TypeOK
<1>2. CASE UNCHANGED toHub
  BY <1>2
<1>3. CASE socket # None /\ toHub' = Put(toHub, socket, "close")
  BY <1>1, <1>3, SentToHub DEF FramesToHub
<1> QED BY <1>2, <1>3 DEF CloseConn

(* a late acknowledgement a heartbeat.                                     *)
LEMMA StoppedRegistersNot ==
  ASSUME IInv, Next, stopped, stopped', NEW s \in Socks, Contains(toHub'[s], "register")
  PROVE  Contains(toHub[s], "register")
<1>1. ~Start /\ ~Reconnect
  BY DEF Start, Reconnect, IInv, ConnectorInv, DialsWhenFree
<1>2. TypeOK /\ toHub \in [Socks -> Seq(FramesToHub)]
  BY DEF IInv, TypeOK, FramesToHub
<1>3. CASE CloseConn(socket)
  BY <1>2, <1>3, CloseIsNoRegister
<1>4. ASSUME NEW t \in Socks, toHub' = Put(toHub, t, "heartbeat")
      PROVE  Contains(toHub[s], "register")
  BY <1>2, <1>4, SentToHub DEF FramesToHub
<1>5. CASE Stop \/ RegisterTimeout \/ Sweep
  BY <1>3, <1>5 DEF Stop, RegisterTimeout, CloseAndBackoff, Sweep, netVars
<1>6. CASE Heartbeat
  BY <1>2, <1>3, <1>4, <1>6 DEF Heartbeat, CloseAndBackoff, Responsive, TypeOK
<1>7. ASSUME NEW t \in Socks,
             \/ Dialled(t) \/ ConnCloseDone(t) \/ Rejected(t) \/ Registers(t)
             \/ HubCloseDone(t) \/ HubGivesUp(t) \/ RegisterFails(t) \/ HubError(t)
      PROVE  Contains(toHub[s], "register")
  BY <1>7 DEF Dialled, Open, Refused, Rejected, ConnCloseDone, OnClosed, Registers,
     HubCloseDone, HubGivesUp, RegisterFails, HubError
<1>8. ASSUME NEW t \in Socks, ReceiveConn(t) PROVE Contains(toHub[s], "register")
  BY <1>3, <1>4, <1>8 DEF ReceiveConn, OnAck, CloseAndBackoff, OnClosed
<1>9. ASSUME NEW t \in Socks, ReceiveHub(t) PROVE Contains(toHub[s], "register")
  <2>1. toHub[t] # <<>> /\ toHub[t] \in Seq(FramesToHub)
    BY <1>2, <1>9 DEF ReceiveHub
  <2>2. toHub' = [toHub EXCEPT ![t] = Tail(toHub[t])]
    BY <1>9 DEF ReceiveHub
  <2>3. CASE s = t
    <3>1. toHub'[s] = Tail(toHub[s])
      BY <1>2, <2>2, <2>3
    <3> QED BY <2>1, <2>3, <3>1, TakeFirst
  <2>4. CASE s # t
    BY <1>2, <2>2, <2>4
  <2> QED BY <2>3, <2>4
<1>10. ASSUME NEW t \in Socks, Reset(t) \/ Silence(t) PROVE Contains(toHub[s], "register")
  <2>1. toHub'[t] \in {<<"close">>, <<>>} /\ (s # t => toHub'[s] = toHub[s])
    BY <1>2, <1>10 DEF Reset, Silence
  <2>2. ~Contains(<<"close">>, "register") /\ ~Contains(<<>>, "register")
    BY DEF Contains
  <2> QED BY <2>1, <2>2
<1> QED BY <1>1, <1>5, <1>6, <1>7, <1>8, <1>9, <1>10 DEF Next, Fortune

(* After stop(), whatever arrives late and until start(), no connection is *)
(* dialled, none is registered, and no timer for the next dial is set.     *)
THEOREM StopIsFinalHolds == Spec => StopIsFinal
<1>1. IInv /\ IInv' /\ [Next]_vars =>
        [stopped /\ stopped' =>
           /\ "reconnect" \notin timers'
           /\ \A s \in Socks :
                /\ conn'[s] = "opening" => conn[s] = "opening"
                /\ Contains(toHub'[s], "register") => Contains(toHub[s], "register")]_vars
  <2> SUFFICES ASSUME IInv, IInv', Next, stopped, stopped'
               PROVE  /\ "reconnect" \notin timers'
                      /\ \A s \in Socks :
                           /\ conn'[s] = "opening" => conn[s] = "opening"
                           /\ Contains(toHub'[s], "register") => Contains(toHub[s], "register")
    BY DEF vars
  <2>1. "reconnect" \notin timers'
    BY DEF IInv, ConnectorInv, DialsWhenFree
  <2> QED BY <2>1, StoppedDialsNot, StoppedRegistersNot
<1> QED BY <1>1, Invariance, PTL DEF Spec, StopIsFinal

-----------------------------------------------------------------------------
(* TunnelStream.                                                            *)

-----------------------------------------------------------------------------
(* BytesOf satisfies its own definition: were there a shortest beginning of *)
(* a body without such a table, the next shorter one could be continued.    *)
Tabulates(g, b, m) ==
  /\ g \in [0 .. m -> Nat]
  /\ \A n \in 0 .. m : g[n] = IF n = 0 THEN 0 ELSE g[n - 1] + b[n]

LEMMA TableExists ==
  ASSUME NEW b \in Seq(Nat), NEW m \in 0 .. Len(b)
  PROVE  \E g : Tabulates(g, b, m)
<1> DEFINE Bad == {n \in 0 .. Len(b) : ~\E g : Tabulates(g, b, n)}
<1> SUFFICES ASSUME Bad # {} PROVE FALSE
  OBVIOUS
<1>1. Bad \subseteq Nat /\ Len(b) \in Nat
  OBVIOUS
<1>2. PICK n \in Bad : \A y \in Bad : n <= y
  <2> HIDE DEF Bad
  <2> QED BY <1>1, Least
<1>3. n \in Nat /\ n <= Len(b)
  BY <1>1, <1>2
<1>4. CASE n = 0
  <2> DEFINE g == [k \in 0 .. 0 |-> 0]
  <2>1. Tabulates(g, b, 0)
    BY DEF Tabulates
  <2> QED BY <1>2, <1>4, <2>1
<1>5. CASE n # 0
  <2>1. n - 1 \in 0 .. Len(b) /\ n - 1 \notin Bad
    BY <1>2, <1>3, <1>5
  <2>2. PICK g : Tabulates(g, b, n - 1)
    BY <2>1
  <2>3. b[n] \in Nat
    BY <1>3, <1>5
  <2> DEFINE h == [k \in 0 .. n |-> IF k = n THEN g[n - 1] + b[n] ELSE g[k]]
  <2>4. n - 1 \in 0 .. n - 1 /\ \A k \in 0 .. n : k # n => k \in 0 .. n - 1
    BY <1>3, <1>5
  <2>5. h \in [0 .. n -> Nat]
    BY <1>3, <2>2, <2>3, <2>4 DEF Tabulates
  <2>6. ASSUME NEW k \in 0 .. n PROVE h[k] = IF k = 0 THEN 0 ELSE h[k - 1] + b[k]
    <3>1. CASE k = n
      <4>1. h[k] = g[n - 1] + b[n] /\ n - 1 \in 0 .. n /\ n - 1 # n
        BY <1>3, <1>5, <3>1
      <4>2. h[n - 1] = g[n - 1]
        BY <4>1
      <4> QED BY <1>5, <3>1, <4>1, <4>2
    <3>2. CASE k # n
      <4>1. k \in 0 .. n - 1 /\ h[k] = g[k]
        BY <2>4, <3>2
      <4>2. k # 0 => k - 1 \in 0 .. n /\ k - 1 # n
        BY <1>3, <4>1
      <4>3. k # 0 => h[k - 1] = g[k - 1]
        BY <4>2
      <4> QED BY <2>2, <4>1, <4>3 DEF Tabulates
    <3> QED BY <3>1, <3>2
  <2>7. Tabulates(h, b, n)
    <3> HIDE DEF h
    <3> QED BY <2>5, <2>6 DEF Tabulates
  <2> QED BY <1>2, <2>7
<1> QED BY <1>4, <1>5

LEMMA BytesStep ==
  ASSUME NEW b \in Seq(Nat)
  PROVE  /\ BytesOf(b) \in [0 .. Len(b) -> Nat]
         /\ BytesOf(b)[0] = 0
         /\ \A n \in 1 .. Len(b) : BytesOf(b)[n] = BytesOf(b)[n - 1] + b[n]
<1> DEFINE D == 0 .. Len(b)
           Table(g) == g = [n \in D |-> IF n = 0 THEN 0 ELSE g[n - 1] + b[n]]
<1>1. Len(b) \in D /\ 0 \in D /\ 1 .. Len(b) \subseteq D /\ 0 \notin 1 .. Len(b)
  OBVIOUS
<1>2. PICK g : Tabulates(g, b, Len(b))
  BY <1>1, TableExists
<1>3. Table(g)
  BY <1>2 DEF Tabulates
<1>4. BytesOf(b) = CHOOSE t : Table(t)
  BY DEF BytesOf
<1>5. Table(BytesOf(b))
  <2> HIDE DEF Table
  <2> QED BY <1>3, <1>4
<1>6. \A n \in D : BytesOf(b)[n] = IF n = 0 THEN 0 ELSE BytesOf(b)[n - 1] + b[n]
  <2> DEFINE t == BytesOf(b)
  <2> HIDE DEF t
  <2>1. Table(t) => \A n \in D : t[n] = IF n = 0 THEN 0 ELSE t[n - 1] + b[n]
    OBVIOUS
  <2> QED BY <1>5, <2>1 DEF t
<1>7. \A n \in D : BytesOf(b)[n] \in Nat
  <2> DEFINE t == BytesOf(b)
             Bad == {n \in D : t[n] \notin Nat}
  <2> SUFFICES ASSUME Bad # {} PROVE FALSE
    OBVIOUS
  <2> HIDE DEF t
  <2>1. Bad \subseteq Nat
    OBVIOUS
  <2>2. PICK n \in Bad : \A y \in Bad : n <= y
    <3> HIDE DEF Bad
    <3> QED BY <2>1, Least
  <2>3. \A k \in D : t[k] = IF k = 0 THEN 0 ELSE t[k - 1] + b[k]
    BY <1>6 DEF t
  <2>4. n # 0 /\ n \in 0 .. Len(b)
    BY <2>2, <2>3
  <2>5. n - 1 \in D /\ n - 1 \notin Bad /\ b[n] \in Nat
    BY <2>2, <2>4
  <2> QED BY <2>2, <2>3, <2>4, <2>5
<1>8. BytesOf(b) \in [D -> Nat]
  <2> DEFINE t == BytesOf(b)
  <2> HIDE DEF t
  <2>1. Table(t) => t = [n \in D |-> t[n]]
    <3> SUFFICES ASSUME Table(t) PROVE t = [n \in D |-> t[n]]
      OBVIOUS
    <3> DEFINE u == [n \in D |-> IF n = 0 THEN 0 ELSE t[n - 1] + b[n]]
    <3>1. t = u
      OBVIOUS
    <3>2. u = [n \in D |-> u[n]]
      OBVIOUS
    <3> HIDE DEF u
    <3> QED BY <3>1, <3>2
  <2>2. \A n \in D : t[n] \in Nat
    BY <1>7 DEF t
  <2> HIDE DEF D, Table
  <2> QED BY <1>5, <2>1, <2>2 DEF t
<1> QED
  <2> HIDE DEF Table
  <2>1. \A n \in 1 .. Len(b) : n \in D /\ n # 0
    BY <1>1
  <2>2. \A n \in 1 .. Len(b) : BytesOf(b)[n] = BytesOf(b)[n - 1] + b[n]
    BY <1>6, <2>1
  <2>3. BytesOf(b)[0] = 0
    BY <1>1, <1>6
  <2> QED BY <1>8, <2>2, <2>3

(* More pieces are not fewer bytes.                                         *)
LEMMA BytesGrow ==
  ASSUME NEW b \in Seq(Nat), NEW m \in 0 .. Len(b), NEW n \in 0 .. Len(b), m <= n
  PROVE  BytesOf(b)[m] <= BytesOf(b)[n]
<1> DEFINE t == BytesOf(b)
           Bad == {k \in 0 .. Len(b) : m <= k /\ ~(t[m] <= t[k])}
<1>1. /\ t \in [0 .. Len(b) -> Nat]
      /\ \A k \in 1 .. Len(b) : t[k] = t[k - 1] + b[k]
  BY BytesStep
<1> HIDE DEF t
<1> SUFFICES ASSUME Bad # {} PROVE FALSE
  BY DEF t
<1>2. Bad \subseteq Nat
  OBVIOUS
<1>3. PICK k \in Bad : \A y \in Bad : k <= y
  <2> HIDE DEF Bad
  <2> QED BY <1>2, Least
<1>4. k \in 0 .. Len(b) /\ m <= k /\ k # m /\ ~(t[m] <= t[k])
  <2>1. k \in 0 .. Len(b) /\ m <= k /\ ~(t[m] <= t[k])
    BY <1>3
  <2>2. t[m] \in Nat /\ t[m] <= t[m]
    BY <1>1
  <2> QED BY <2>1, <2>2
<1>5. k - 1 \in 0 .. Len(b) /\ m <= k - 1 /\ k \in 1 .. Len(b) /\ k - 1 \notin Bad
  BY <1>3, <1>4
<1>6. t[m] <= t[k - 1] /\ t[k] = t[k - 1] + b[k] /\ b[k] \in Nat
  BY <1>1, <1>5
<1>7. t[m] \in Nat /\ t[k - 1] \in Nat
  BY <1>1, <1>5
<1> QED BY <1>4, <1>6, <1>7

-----------------------------------------------------------------------------
(* Queues of frames.                                                        *)
LEMMA PutFrames ==
  ASSUME NEW q \in Seq(Frame), NEW fs \in Seq(Frame)
  PROVE  /\ q \o fs \in Seq(Frame) /\ Len(q \o fs) = Len(q) + Len(fs)
         /\ Len(q) \in Nat /\ Len(fs) \in Nat
         /\ \A a \in 1 .. Len(q) : a \in 1 .. Len(q \o fs) /\ (q \o fs)[a] = q[a]
         /\ \A a \in 1 .. Len(q \o fs) :
              \/ a \in 1 .. Len(q) /\ (q \o fs)[a] = q[a]
              \/ /\ a - Len(q) \in 1 .. Len(fs) /\ a > Len(q)
                 /\ (q \o fs)[a] = fs[a - Len(q)]
<1> DEFINE u == q \o fs
<1>1. /\ u \in Seq(Frame) /\ Len(u) = Len(q) + Len(fs)
      /\ Len(q) \in Nat /\ Len(fs) \in Nat
      /\ \A a \in 1 .. Len(q) + Len(fs) :
           u[a] = IF a <= Len(q) THEN q[a] ELSE fs[a - Len(q)]
  OBVIOUS
<1> HIDE DEF u
<1>2. \A a \in 1 .. Len(q) : a \in 1 .. Len(u) /\ a <= Len(q)
  BY <1>1
<1>3. \A a \in 1 .. Len(u) :
        \/ a \in 1 .. Len(q) /\ a <= Len(q)
        \/ a - Len(q) \in 1 .. Len(fs) /\ a > Len(q) /\ ~(a <= Len(q))
  BY <1>1
<1> QED BY <1>1, <1>2, <1>3 DEF u

LEMMA TakeFrame ==
  ASSUME NEW q \in Seq(Frame), q # <<>>
  PROVE  /\ Head(q) \in Frame /\ Tail(q) \in Seq(Frame)
         /\ Len(q) \in Nat \ {0} /\ Len(Tail(q)) = Len(q) - 1
         /\ 1 \in 1 .. Len(q) /\ q[1] = Head(q)
         /\ \A a \in 1 .. Len(Tail(q)) :
              a + 1 \in 1 .. Len(q) /\ a + 1 > 1 /\ Tail(q)[a] = q[a + 1]
         /\ \A a \in 1 .. Len(q) :
              a = 1 \/ (a - 1 \in 1 .. Len(Tail(q)) /\ Tail(q)[a - 1] = q[a])
<1>1. /\ Head(q) \in Frame /\ Tail(q) \in Seq(Frame)
      /\ Len(q) \in Nat \ {0} /\ Len(Tail(q)) = Len(q) - 1
      /\ q[1] = Head(q)
      /\ \A a \in 1 .. Len(q) - 1 : Tail(q)[a] = q[a + 1]
  OBVIOUS
<1>2. /\ 1 \in 1 .. Len(q)
      /\ \A a \in 1 .. Len(q) - 1 : a + 1 \in 1 .. Len(q) /\ a + 1 > 1
      /\ \A a \in 1 .. Len(q) : a = 1 \/ (a - 1 \in 1 .. Len(q) - 1 /\ (a - 1) + 1 = a)
  BY <1>1
<1> QED BY <1>1, <1>2

(* Frames of the set S are in q with the numbers lo + 1 to hi, in order.    *)
Numbered(q, S, lo, hi) ==
  /\ \A a \in 1 .. Len(q) : q[a] \in S => lo < q[a].k /\ q[a].k <= hi
  /\ \A a, b \in 1 .. Len(q) : q[a] \in S /\ q[b] \in S /\ a < b => q[a].k < q[b].k
  /\ \A k \in lo + 1 .. hi : \E a \in 1 .. Len(q) : q[a] \in S /\ q[a].k = k

LEMMA NumberedNone ==
  ASSUME NEW q \in Seq(Frame), NEW S, NEW lo \in Nat,
         \A a \in 1 .. Len(q) : q[a] \notin S
  PROVE  /\ Numbered(q, S, lo, lo)
         /\ \A hi \in Nat : Numbered(q, S, lo, hi) => hi <= lo
<1>1. lo + 1 .. lo = {}
  OBVIOUS
<1>2. \A hi \in Nat : ~(hi <= lo) => lo + 1 \in lo + 1 .. hi
  OBVIOUS
<1> QED BY <1>1, <1>2 DEF Numbered

LEMMA NumberedJoin ==
  ASSUME NEW q \in Seq(Frame), NEW fs \in Seq(Frame), NEW S,
         NEW lo \in Nat, NEW hi \in Nat, Numbered(q, S, lo, hi),
         \A a \in 1 .. Len(fs) : fs[a] \notin S
  PROVE  Numbered(q \o fs, S, lo, hi)
<1> DEFINE u == q \o fs
<1>1. /\ \A a \in 1 .. Len(q) : a \in 1 .. Len(u) /\ u[a] = q[a]
      /\ \A a \in 1 .. Len(u) : u[a] \in S => a \in 1 .. Len(q) /\ u[a] = q[a]
  BY PutFrames
<1> HIDE DEF u
<1>2. \A a \in 1 .. Len(u) : u[a] \in S => lo < u[a].k /\ u[a].k <= hi
  BY <1>1 DEF Numbered
<1>3. \A a, b \in 1 .. Len(u) : u[a] \in S /\ u[b] \in S /\ a < b => u[a].k < u[b].k
  BY <1>1 DEF Numbered
<1>4. \A k \in lo + 1 .. hi : \E a \in 1 .. Len(u) : u[a] \in S /\ u[a].k = k
  BY <1>1 DEF Numbered
<1> QED BY <1>2, <1>3, <1>4 DEF Numbered, u

LEMMA NumberedPut ==
  ASSUME NEW q \in Seq(Frame), NEW f \in Frame, NEW S,
         NEW lo \in Nat, NEW hi \in Nat, Numbered(q, S, lo, hi),
         lo <= hi, f \in S, f.k = hi + 1
  PROVE  Numbered(q \o <<f>>, S, lo, hi + 1)
<1> DEFINE u == q \o <<f>>
<1>0. /\ <<f>> \in Seq(Frame) /\ Len(<<f>>) = 1 /\ <<f>>[1] = f /\ Len(q) \in Nat
      /\ \A a \in 1 .. Len(q) : q[a] \in Frame
  OBVIOUS
<1>1. /\ \A a \in 1 .. Len(q) : a \in 1 .. Len(u) /\ u[a] = q[a]
      /\ Len(u) = Len(q) + 1
  BY <1>0, PutFrames
<1>2. /\ Len(q) + 1 \in 1 .. Len(u) /\ Len(q) + 1 \notin 1 .. Len(q)
      /\ (Len(q) + 1) - Len(q) = 1
      /\ \A a \in 1 .. Len(u) : a \in 1 .. Len(q) \/ a = Len(q) + 1
      /\ \A a, b \in 1 .. Len(u) : a < b => a \in 1 .. Len(q)
  BY <1>0, <1>1
<1>3. u[Len(q) + 1] = f
  BY <1>0, <1>2, PutFrames
<1> HIDE DEF u
<1>4. ASSUME NEW a \in 1 .. Len(u), u[a] \in S
      PROVE  lo < u[a].k /\ u[a].k <= hi + 1
  <2>1. CASE a \in 1 .. Len(q)
    <3>1. lo < q[a].k /\ q[a].k <= hi /\ q[a].k \in Nat /\ u[a] = q[a]
      BY <1>0, <1>1, <1>4, <2>1 DEF Numbered, Frame
    <3> QED BY <3>1
  <2>2. CASE a = Len(q) + 1
    <3>1. u[a].k = hi + 1
      BY <1>3, <2>2
    <3> QED BY <3>1
  <2> QED BY <1>2, <2>1, <2>2
<1>5. ASSUME NEW a \in 1 .. Len(u), NEW b \in 1 .. Len(u), u[a] \in S, u[b] \in S, a < b
      PROVE  u[a].k < u[b].k
  <2>1. a \in 1 .. Len(q)
    BY <1>2, <1>5
  <2>2. CASE b \in 1 .. Len(q)
    BY <1>1, <1>5, <2>1, <2>2 DEF Numbered
  <2>3. CASE b = Len(q) + 1
    <3>1. q[a].k <= hi /\ q[a].k \in Nat /\ u[a] = q[a] /\ u[b].k = hi + 1
      BY <1>0, <1>1, <1>3, <1>5, <2>1, <2>3 DEF Numbered, Frame
    <3> QED BY <3>1
  <2> QED BY <1>2, <2>2, <2>3
<1>6. ASSUME NEW k \in lo + 1 .. hi + 1
      PROVE  \E a \in 1 .. Len(u) : u[a] \in S /\ u[a].k = k
  <2>1. CASE k = hi + 1
    BY <1>2, <1>3, <2>1
  <2>2. CASE k # hi + 1
    <3>1. k \in lo + 1 .. hi
      BY <2>2
    <3> QED BY <1>1, <3>1 DEF Numbered
  <2> QED BY <2>1, <2>2
<1> QED BY <1>4, <1>5, <1>6 DEF Numbered, u

LEMMA NumberedTakeIn ==
  ASSUME NEW q \in Seq(Frame), q # <<>>, NEW S,
         NEW lo \in Nat, NEW hi \in Nat, Numbered(q, S, lo, hi), Head(q) \in S
  PROVE  Head(q).k = lo + 1 /\ lo + 1 <= hi /\ Numbered(Tail(q), S, lo + 1, hi)
<1> DEFINE u == Tail(q)
<1>1. /\ \A a \in 1 .. Len(u) : a + 1 \in 1 .. Len(q) /\ 1 < a + 1 /\ u[a] = q[a + 1]
      /\ \A a \in 1 .. Len(q) : a = 1 \/ (a - 1 \in 1 .. Len(u) /\ u[a - 1] = q[a])
      /\ 1 \in 1 .. Len(q) /\ q[1] = Head(q) /\ Len(u) \in Nat
      /\ \A a \in 1 .. Len(q) : q[a] \in Frame
  BY TakeFrame
<1> HIDE DEF u
<1>2. lo < q[1].k /\ q[1].k <= hi /\ q[1].k \in Nat
  BY <1>1 DEF Numbered, Frame
<1>3. lo + 1 \in lo + 1 .. hi /\ lo + 1 <= hi
  BY <1>2
<1>4. PICK a \in 1 .. Len(q) : q[a] \in S /\ q[a].k = lo + 1
  BY <1>3 DEF Numbered
<1>5. a = 1
  <2> SUFFICES ASSUME a # 1 PROVE FALSE
    OBVIOUS
  <2>1. 1 < a
    BY <1>1
  <2>2. q[1].k < q[a].k
    BY <1>1, <1>4, <2>1 DEF Numbered
  <2> QED BY <1>2, <1>4, <2>2
<1>6. q[1].k = lo + 1
  BY <1>4, <1>5
<1>7. ASSUME NEW b \in 1 .. Len(u), u[b] \in S
      PROVE  lo + 1 < u[b].k /\ u[b].k <= hi
  <2>1. q[1].k < q[b + 1].k /\ q[b + 1].k <= hi /\ u[b] = q[b + 1]
    BY <1>1, <1>7 DEF Numbered
  <2> QED BY <1>6, <2>1
<1>8. ASSUME NEW b \in 1 .. Len(u), NEW c \in 1 .. Len(u), u[b] \in S, u[c] \in S, b < c
      PROVE  u[b].k < u[c].k
  <2>1. b + 1 < c + 1
    BY <1>8
  <2> QED BY <1>1, <1>8, <2>1 DEF Numbered
<1>9. ASSUME NEW k \in (lo + 1) + 1 .. hi
      PROVE  \E b \in 1 .. Len(u) : u[b] \in S /\ u[b].k = k
  <2>1. k \in lo + 1 .. hi /\ k # lo + 1
    BY <1>2
  <2>2. PICK b \in 1 .. Len(q) : q[b] \in S /\ q[b].k = k
    BY <2>1 DEF Numbered
  <2>3. b # 1
    BY <1>6, <2>1, <2>2
  <2> QED BY <1>1, <2>2, <2>3
<1> QED BY <1>1, <1>3, <1>6, <1>7, <1>8, <1>9 DEF Numbered, u

LEMMA NumberedTakeOut ==
  ASSUME NEW q \in Seq(Frame), q # <<>>, NEW S,
         NEW lo \in Nat, NEW hi \in Nat, Numbered(q, S, lo, hi), Head(q) \notin S
  PROVE  Numbered(Tail(q), S, lo, hi)
<1> DEFINE u == Tail(q)
<1>1. /\ \A a \in 1 .. Len(u) : a + 1 \in 1 .. Len(q) /\ u[a] = q[a + 1]
      /\ \A a \in 1 .. Len(q) : a = 1 \/ (a - 1 \in 1 .. Len(u) /\ u[a - 1] = q[a])
      /\ q[1] = Head(q) /\ Len(u) \in Nat
  BY TakeFrame
<1> HIDE DEF u
<1>2. \A a \in 1 .. Len(u) : u[a] \in S => lo < u[a].k /\ u[a].k <= hi
  BY <1>1 DEF Numbered
<1>3. ASSUME NEW b \in 1 .. Len(u), NEW c \in 1 .. Len(u), u[b] \in S, u[c] \in S, b < c
      PROVE  u[b].k < u[c].k
  <2>1. b + 1 < c + 1
    BY <1>3
  <2> QED BY <1>1, <1>3, <2>1 DEF Numbered
<1>4. ASSUME NEW k \in lo + 1 .. hi PROVE \E a \in 1 .. Len(u) : u[a] \in S /\ u[a].k = k
  <2>1. PICK b \in 1 .. Len(q) : q[b] \in S /\ q[b].k = k
    BY DEF Numbered
  <2> QED BY <1>1, <2>1
<1> QED BY <1>2, <1>3, <1>4 DEF Numbered, u

(* Behind the FIN of a stream there is no data of the stream.               *)
FinLast(q, id) ==
  \A a, b \in 1 .. Len(q) :
    /\ q[a].id = id /\ q[a].t = "fin"
    /\ q[b].id = id /\ q[b].t = "data"
    => b < a

LEMMA FinLastTake ==
  ASSUME NEW q \in Seq(Frame), q # <<>>, NEW id, FinLast(q, id)
  PROVE  FinLast(Tail(q), id)
<1> DEFINE u == Tail(q)
<1>1. \A a \in 1 .. Len(u) : a + 1 \in 1 .. Len(q) /\ u[a] = q[a + 1]
  BY TakeFrame
<1>2. Len(u) \in Nat
  BY TakeFrame
<1> HIDE DEF u
<1>3. ASSUME NEW a \in 1 .. Len(u), NEW b \in 1 .. Len(u),
             u[a].id = id, u[a].t = "fin", u[b].id = id, u[b].t = "data"
      PROVE  b < a
  <2>1. b + 1 < a + 1
    BY <1>1, <1>3 DEF FinLast
  <2> QED BY <2>1
<1> QED BY <1>3 DEF FinLast, u

(* What is put behind is no data, or there was no FIN.                      *)
LEMMA FinLastPut ==
  ASSUME NEW q \in Seq(Frame), NEW fs \in Seq(Frame), NEW id, FinLast(q, id),
         \/ \A a \in 1 .. Len(fs) : fs[a].t # "data" \/ fs[a].id # id
         \/ /\ \A a \in 1 .. Len(q) : q[a].t # "fin" \/ q[a].id # id
            /\ \A a \in 1 .. Len(fs) : fs[a].t # "fin" \/ fs[a].id # id
  PROVE  FinLast(q \o fs, id)
<1> DEFINE u == q \o fs
<1>1. /\ \A a \in 1 .. Len(u) :
           \/ a \in 1 .. Len(q) /\ u[a] = q[a]
           \/ a - Len(q) \in 1 .. Len(fs) /\ a > Len(q) /\ u[a] = fs[a - Len(q)]
      /\ Len(q) \in Nat /\ Len(u) \in Nat
  BY PutFrames
<1> HIDE DEF u
<1>2. ASSUME NEW a \in 1 .. Len(u), NEW b \in 1 .. Len(u),
             u[a].id = id, u[a].t = "fin", u[b].id = id, u[b].t = "data"
      PROVE  b < a
  <2>1. CASE \A i \in 1 .. Len(fs) : fs[i].t # "data" \/ fs[i].id # id
    <3>1. b \in 1 .. Len(q) /\ u[b] = q[b]
      BY <1>1, <1>2, <2>1
    <3>2. CASE a \in 1 .. Len(q) /\ u[a] = q[a]
      BY <1>2, <3>1, <3>2 DEF FinLast
    <3>3. CASE a > Len(q)
      BY <1>1, <3>1, <3>3
    <3> QED BY <1>1, <3>2, <3>3
  <2>2. CASE /\ \A i \in 1 .. Len(q) : q[i].t # "fin" \/ q[i].id # id
             /\ \A i \in 1 .. Len(fs) : fs[i].t # "fin" \/ fs[i].id # id
    BY <1>1, <1>2, <2>2
  <2> QED BY <2>1, <2>2
<1> QED BY <1>2 DEF FinLast, u

-----------------------------------------------------------------------------
(* The hub still waits for a response, or sends it on.                      *)
Served(r) == hub[r].phase \in {"wait", "acked", "open"}

(* The client still has the stream of a request no fault has touched.       *)
Working   == {"body", "fetch", "send", "parked", "slot"}
InHand(r) == r \notin cut /\ task[r].phase \in Working /\ ~task[r].closed

Current(r) == Served(r) \/ InHand(r)

(* A task that may still send under an id.                                  *)
Sends(q, id) == task[q].id = id /\ task[q].phase \in {"fetch", "send"} /\ ~task[q].closed

-----------------------------------------------------------------------------
(* What is lost with the channel is lost on both ways.                      *)
ChannelInv == ~up => toClient = <<>> /\ toProxy = <<>>

(* Ids of streams in use are the hub's, each one's own.                     *)
IdsInv ==
  /\ nextId <= Cardinality(Reqs \ InPhase("idle")) + 1
  /\ \A r \in Reqs : Current(r) => 0 < hub[r].id /\ hub[r].id < nextId
  /\ \A r, q \in Reqs : Current(r) /\ Current(q) /\ hub[r].id = hub[q].id => r = q

(* What the hub has on record before a request, its ack, its registration.  *)
OnRecord(r) ==
  /\ hub[r].phase = "idle" <=> hub[r].id = 0
  /\ hub[r].phase = "idle" => task[r].phase = "none"
  /\ hub[r].phase \in {"idle", "wait", "acked"} =>
       hub[r].grants = 0 /\ hub[r].out = 0 /\ hub[r].lastGranted = 0 /\ hub[r].got = <<>>
  /\ hub[r].phase = "open" => hub[r].grants > 0
  /\ hub[r].browser = "ended" => hub[r].phase = "over"
ProxyInv == \A r \in Reqs : OnRecord(r)

(* The client's tasks and its map of streams agree.                         *)
InStep(r) ==
  /\ task[r].phase \in {"none", "refused", "body", "fetch"} =>
       task[r].sent = 0 /\ task[r].body = <<>>
  /\ task[r].phase = "none" => task[r].credit = 0 /\ ~task[r].closed
  /\ task[r].phase \in Working \cup {"done"} => task[r].id = hub[r].id
  /\ task[r].phase \in {"body", "parked", "slot"} => ~task[r].closed
  /\ \A i \in Ids : streams[i] = r =>
       task[r].id = i /\ ~task[r].closed /\ task[r].phase \in Working
ClientInv == \A r \in Reqs : InStep(r)

(* Frames to the client: an open or a credit is of the request whose id it  *)
(* carries, and of no other in use.                                         *)
OpenFor(f)   == /\ f.req \in Reqs /\ hub[f.req].id = f.id
                /\ hub[f.req].phase # "idle" /\ task[f.req].phase = "none"
CreditFor(f) == /\ f.req \in Reqs /\ hub[f.req].id = f.id
                /\ f.n = Window /\ 0 < f.k /\ f.k <= hub[f.req].grants
Names(f)     == f.t \in {"open", "window"}

ToClientFrame(f) ==
  /\ f.t \in {"open", "body", "window", "close"}
  /\ f.id < nextId
  /\ f.t = "open" => OpenFor(f)
  /\ f.t = "window" => CreditFor(f)
  /\ Names(f) => \A r \in Reqs : Current(r) /\ hub[r].id = f.id => f.req = r

ToClientInv ==
  /\ \A a \in 1 .. Len(toClient) : ToClientFrame(toClient[a])
  /\ \A a, b \in 1 .. Len(toClient) :
       /\ Names(toClient[a]) /\ Names(toClient[b]) /\ toClient[a].id = toClient[b].id
       => toClient[a].req = toClient[b].req
  /\ \A a, b \in 1 .. Len(toClient) :
       /\ toClient[a].t = "open" /\ toClient[b].t = "open"
       /\ toClient[a].req = toClient[b].req
       => a = b

ToProxyInv ==
  \A a \in 1 .. Len(toProxy) :
    /\ toProxy[a].t \in {"ack", "data", "fin", "rst", "close"}
    /\ toProxy[a].t = "data" => toProxy[a].req \in Reqs

-----------------------------------------------------------------------------
(* A request no fault has touched.                                          *)

(* Nothing has happened for a request the client does not know; what it     *)
(* knows and works on, it does while the channel is up.                     *)
Unknown(r) ==
  /\ task[r].phase = "none" =>
       hub[r].phase \in {"idle", "wait", "over"} /\ hub[r].grants = 0
  /\ (Served(r) /\ task[r].phase # "none") \/ InHand(r) => up

(* Its id is its own, as long as the hub goes by it.                        *)
OwnId(r) ==
  Served(r) =>
    /\ \A i \in Ids : i = hub[r].id => streams[i] \in {NoReq, r}
    /\ \A q \in Reqs : Sends(q, hub[r].id) => q = r
    /\ \A a \in 1 .. Len(toProxy) :
         toProxy[a].id = hub[r].id => task[r].phase # "none"

(* Its body flows in order: what the browser has, what is on its way, what  *)
(* is still to come; and behind a FIN there is nothing.                     *)
DataOf(r) == {f \in Frame : f.id = hub[r].id /\ f.t = "data"}

BodyInOrder(r) ==
  Served(r) =>
    /\ hub[r].got = [k \in 1 .. Len(hub[r].got) |-> <<r, k>>]
    /\ Len(hub[r].got) <= task[r].sent
    /\ hub[r].out = BytesOf(task[r].body)[Len(hub[r].got)]
    /\ \A a \in 1 .. Len(toProxy) : toProxy[a] \in DataOf(r) =>
         toProxy[a].req = r /\ toProxy[a].n = task[r].body[toProxy[a].k]
    /\ Numbered(toProxy, DataOf(r), Len(hub[r].got), task[r].sent)
    /\ \A a \in 1 .. Len(toProxy) :
         toProxy[a].id = hub[r].id /\ toProxy[a].t = "fin" =>
           task[r].phase \in {"slot", "done"} /\ task[r].sent = Len(task[r].body)
    /\ FinLast(toProxy, hub[r].id)

(* Its credit: c windows have arrived, the others are on their way.         *)
CreditOf(r) == {f \in Frame : f.req = r /\ f.t = "window"}

Arrived(r, c) ==
  /\ BytesSent(r) + task[r].credit = c * Window
  /\ c <= hub[r].grants
  /\ Numbered(toClient, CreditOf(r), c, hub[r].grants)

Account(r) ==
  /\ BytesSent(r) <= hub[r].grants * Window
  /\ hub[r].grants = 0 => task[r].sent = 0
  /\ InHand(r) =>
       /\ \A i \in Ids : i = hub[r].id => streams[i] = r
       /\ \E c \in Nat : Arrived(r, c)

(* The hub has granted a window more than it had seen at its last grant,    *)
(* and less than half a window has come since.                              *)
Renewed(r) ==
  hub[r].phase = "open" =>
    /\ hub[r].lastGranted <= (hub[r].grants - 1) * Window
    /\ hub[r].lastGranted <= hub[r].out
    /\ 2 * (hub[r].out - hub[r].lastGranted) < Window

(* A response that ended is whole, and its task is through.                 *)
EndedWhole(r) ==
  hub[r].browser = "ended" =>
    hub[r].got = Whole(r) /\ task[r].phase \in {"slot", "done"}

Intact(r) ==
  Unknown(r) /\ OwnId(r) /\ BodyInOrder(r) /\ Account(r) /\ Renewed(r) /\ EndedWhole(r)
UncutInv == \A r \in Reqs \ cut : Intact(r)

StreamIInv ==
  /\ StreamTypeOK /\ ChannelInv /\ IdsInv /\ ProxyInv /\ ClientInv
  /\ ToClientInv /\ ToProxyInv /\ UncutInv

-----------------------------------------------------------------------------
(* Types.                                                                   *)
LEMMA MsgTyped ==
  ASSUME NEW t \in {"open", "body", "window", "close", "ack", "data", "fin", "rst"},
         NEW id \in Ids, NEW q \in Reqs \cup {NoReq}, NEW k \in Nat, NEW n \in Nat
  PROVE  /\ Msg(t, id, q, k, n) \in Frame
         /\ LET f == Msg(t, id, q, k, n) IN
              f.t = t /\ f.id = id /\ f.req = q /\ f.k = k /\ f.n = n
  BY DEF Msg, Frame

LEMMA SignalTyped ==
  ASSUME NEW t \in {"open", "body", "window", "close", "ack", "data", "fin", "rst"},
         NEW id \in Ids
  PROVE  Signal(t, id) \in Frame /\ Signal(t, id).t = t /\ Signal(t, id).id = id
  BY MsgTyped DEF Signal, NoReq

LEMMA SentTyped ==
  ASSUME StreamTypeOK, NEW q \in Seq(Frame), NEW fs \in Seq(Frame)
  PROVE  Sent(q, fs) \in Seq(Frame)
  BY PutFrames DEF Sent

LEMMA PieceTyped ==
  ASSUME StreamTypeOK, NEW r \in Reqs
  PROVE  /\ task[r].body \in Seq(Nat) /\ task[r].sent \in Nat
         /\ task[r].sent \in 0 .. Len(task[r].body)
         /\ Unsent(r) => /\ Piece(r) \in Nat \ {0}
                         /\ task[r].sent + 1 \in 1 .. Len(task[r].body)
<1>1. Bodies \subseteq Seq(Nat \ {0})
  BY StreamAssumption
<1>2. task[r].body \in Bodies \cup {<<>>} /\ task[r].sent \in Nat
      /\ task[r].sent <= Len(task[r].body)
  BY DEF StreamTypeOK, TaskState
<1>3. task[r].body \in Seq(Nat \ {0})
  <2>1. <<>> \in Seq(Nat \ {0})
    OBVIOUS
  <2> QED BY <1>1, <1>2, <2>1
<1> DEFINE b == task[r].body
           s == task[r].sent
<1>4. b \in Seq(Nat \ {0}) /\ s \in Nat /\ s <= Len(b)
  BY <1>2, <1>3
<1>5. b \in Seq(Nat) /\ Len(b) \in Nat
  BY <1>4
<1>6. s \in 0 .. Len(b) /\ (s < Len(b) => s + 1 \in 1 .. Len(b))
  <2> HIDE DEF b, s
  <2> QED BY <1>4, <1>5
<1>7. \A n \in 1 .. Len(b) : b[n] \in Nat \ {0}
  BY <1>4
<1> QED BY <1>4, <1>5, <1>6, <1>7 DEF Unsent, Piece

LEMMA IdTyped ==
  ASSUME StreamIInv, NEW r \in Reqs
  PROVE  /\ hub[r].phase # "idle" => hub[r].id \in Ids
         /\ task[r].phase \in Working \cup {"done"} =>
              task[r].id \in Ids /\ task[r].id = hub[r].id
  BY DEF StreamIInv, StreamTypeOK, HubState, ProxyInv, OnRecord, ClientInv, InStep, Working

LEMMA StreamsTyped ==
  ASSUME StreamTypeOK, NEW i \in Ids
  PROVE  /\ StreamsClosed(i) \in [Ids -> Reqs \cup {NoReq}]
         /\ StreamsClosed(i)[i] = NoReq
         /\ \A j \in Ids : j # i => StreamsClosed(i)[j] = streams[j]
         /\ CloseFrames(i) \in Seq(Frame)
         /\ \A a \in 1 .. Len(CloseFrames(i)) :
              /\ CloseFrames(i)[a] = Signal("close", i)
              /\ CloseFrames(i)[a].t = "close" /\ CloseFrames(i)[a].id = i
              /\ streams[i] # NoReq
<1>1. Signal("close", i) \in Frame /\ Signal("close", i).t = "close"
      /\ Signal("close", i).id = i
  BY SignalTyped
<1>2. <<Signal("close", i)>> \in Seq(Frame) /\ <<>> \in Seq(Frame)
  BY <1>1
<1>3. \A a \in 1 .. Len(CloseFrames(i)) :
        CloseFrames(i)[a] = Signal("close", i) /\ streams[i] # NoReq
  BY DEF CloseFrames
<1> QED BY <1>1, <1>2, <1>3 DEF StreamTypeOK, StreamsClosed, CloseFrames

(* What closeStream does to a task.                                         *)
LEMMA CloseTaskTyped ==
  ASSUME NEW t \in TaskState
  PROVE  /\ CloseTask(t) \in TaskState /\ CloseTask(t).closed
         /\ CloseTask(t).id = t.id /\ CloseTask(t).credit = t.credit
         /\ CloseTask(t).body = t.body /\ CloseTask(t).sent = t.sent
         /\ \/ CloseTask(t).phase = t.phase
            \/ t.phase \in {"body", "slot"} /\ CloseTask(t).phase = "done"
            \/ t.phase = "parked" /\ CloseTask(t).phase = "send"
         /\ CloseTask(t).phase \notin {"body", "slot", "parked"}
<1> DEFINE p == CASE t.phase \in {"body", "slot"} -> "done"
                  [] t.phase = "parked" -> "send"
                  [] OTHER -> t.phase
<1>1. /\ p \in {"none", "body", "fetch", "send", "parked", "slot", "done", "refused"}
      /\ \/ p = t.phase
         \/ t.phase \in {"body", "slot"} /\ p = "done"
         \/ t.phase = "parked" /\ p = "send"
      /\ p \notin {"body", "slot", "parked"}
  BY DEF TaskState
<1>2. CloseTask(t) = [t EXCEPT !.closed = TRUE, !.phase = p]
  BY DEF CloseTask
<1> HIDE DEF p
<1> QED BY <1>1, <1>2 DEF TaskState

LEMMA TasksClosedTyped ==
  ASSUME StreamTypeOK, NEW i \in Ids
  PROVE  /\ TasksClosed(task, i) \in [Reqs -> TaskState]
         /\ \A q \in Reqs : streams[i] # q => TasksClosed(task, i)[q] = task[q]
         /\ \A q \in Reqs : streams[i] = q => TasksClosed(task, i)[q] = CloseTask(task[q])
         /\ \A q \in Reqs : /\ TasksClosed(task, i)[q].id = task[q].id
                            /\ TasksClosed(task, i)[q].credit = task[q].credit
                            /\ TasksClosed(task, i)[q].body = task[q].body
                            /\ TasksClosed(task, i)[q].sent = task[q].sent
<1>1. task \in [Reqs -> TaskState] /\ streams[i] \in Reqs \cup {NoReq} /\ NoReq \notin Reqs
  BY StreamAssumption DEF StreamTypeOK, NoReq
<1>2. \A q \in Reqs : CloseTask(task[q]) \in TaskState
  BY <1>1, CloseTaskTyped
<1>3. /\ TasksClosed(task, i) \in [Reqs -> TaskState]
      /\ \A q \in Reqs : streams[i] # q => TasksClosed(task, i)[q] = task[q]
      /\ \A q \in Reqs : streams[i] = q => TasksClosed(task, i)[q] = CloseTask(task[q])
  BY <1>1, <1>2 DEF TasksClosed
<1>4. ASSUME NEW q \in Reqs
      PROVE  /\ TasksClosed(task, i)[q].id = task[q].id
             /\ TasksClosed(task, i)[q].credit = task[q].credit
             /\ TasksClosed(task, i)[q].body = task[q].body
             /\ TasksClosed(task, i)[q].sent = task[q].sent
  <2>1. task[q] \in TaskState
    BY <1>1
  <2> QED BY <1>3, <2>1, CloseTaskTyped
<1> QED BY <1>3, <1>4

(* Only the hub's or only the client's variables change.                    *)
LEMMA HubTypes ==
  ASSUME StreamTypeOK, hub' \in [Reqs -> HubState], nextId' \in 1 .. Cardinality(Reqs) + 1,
         toClient' \in Seq(Frame), toProxy' \in Seq(Frame),
         clientVars' = clientVars, up' \in BOOLEAN, cut' \subseteq Reqs,
         losses' \in 0 .. MaxLosses
  PROVE  StreamTypeOK'
  BY DEF StreamTypeOK, clientVars

LEMMA ClientTypes ==
  ASSUME StreamTypeOK, task' \in [Reqs -> TaskState], streams' \in [Ids -> Reqs \cup {NoReq}],
         \A r \in Reqs : task'[r].sent <= Len(task'[r].body),
         toClient' \in Seq(Frame), toProxy' \in Seq(Frame),
         UNCHANGED <<proxyVars, channelVars>>
  PROVE  StreamTypeOK'
  BY DEF StreamTypeOK, proxyVars, channelVars

(* A request that arrives finds an id.                                      *)
LEMMA IdLeft ==
  ASSUME StreamIInv, NEW r \in Reqs, hub[r].phase = "idle"
  PROVE  /\ nextId \in Ids /\ nextId + 1 \in 1 .. Cardinality(Reqs) + 1
         /\ nextId + 1 <= Cardinality((Reqs \ InPhase("idle")) \cup {r}) + 1
<1> DEFINE S == Reqs \ InPhase("idle")
<1>1. IsFiniteSet(Reqs) /\ r \notin S /\ S \subseteq Reqs /\ S \cup {r} \subseteq Reqs
  BY StreamAssumption DEF InPhase
<1>2. nextId \in Nat /\ nextId > 0 /\ nextId <= Cardinality(S) + 1
  BY DEF StreamIInv, IdsInv, StreamTypeOK
<1> HIDE DEF S
<1>3. IsFiniteSet(S)
  BY <1>1, FS_Subset
<1>4. Cardinality(S \cup {r}) = Cardinality(S) + 1 /\ IsFiniteSet(S \cup {r})
  BY <1>1, <1>3, FS_AddElement
<1>5. Cardinality(S \cup {r}) <= Cardinality(Reqs)
  BY <1>1, FS_Subset
<1>6. Cardinality(S) \in Nat /\ Cardinality(Reqs) \in Nat
  BY <1>1, <1>3, FS_CardinalityType
<1>7. nextId \in 1 .. Cardinality(Reqs) /\ nextId + 1 \in 1 .. Cardinality(Reqs) + 1
      /\ nextId + 1 <= Cardinality(S \cup {r}) + 1
  BY <1>2, <1>4, <1>5, <1>6
<1> QED BY <1>7 DEF Ids, S

LEMMA EndedTyped ==
  ASSUME StreamTypeOK, NEW r \in Reqs, NEW view \in {"ended", "broken", "headers"}
  PROVE  /\ Ended(r, view) \in HubState
         /\ Ended(r, view).phase = "over" /\ Ended(r, view).browser = Shown(r, view)
         /\ Ended(r, view).id = hub[r].id /\ Ended(r, view).out = hub[r].out
         /\ Ended(r, view).lastGranted = hub[r].lastGranted
         /\ Ended(r, view).grants = hub[r].grants /\ Ended(r, view).got = hub[r].got
         /\ Shown(r, view) \in {"none", "headers", "ended", "broken", "left"}
  BY DEF Ended, Shown, StreamTypeOK, HubState

(* The frames that open a stream.                                           *)
OpenFrames(r, kind) ==
  <<Msg("open", nextId, r, 0, IF kind = "get" THEN 0 ELSE 1)>> \o RequestBody(kind, nextId)

LEMMA OpenFramesTyped ==
  ASSUME NEW r \in Reqs, NEW kind \in Kinds, nextId \in Ids
  PROVE  /\ OpenFrames(r, kind) \in Seq(Frame)
         /\ \A a \in 1 .. Len(OpenFrames(r, kind)) :
              /\ OpenFrames(r, kind)[a].id = nextId
              /\ \/ OpenFrames(r, kind)[a].t = "body"
                 \/ a = 1 /\ OpenFrames(r, kind)[a].t = "open" /\ OpenFrames(r, kind)[a].req = r
<1> DEFINE o == Msg("open", nextId, r, 0, IF kind = "get" THEN 0 ELSE 1)
           b(n) == Msg("body", nextId, NoReq, 0, n)
           w == RequestBody(kind, nextId)
<1>1. /\ o \in Frame /\ o.id = nextId /\ o.t = "open" /\ o.req = r
      /\ \A n \in {1, 2} : b(n) \in Frame /\ b(n).id = nextId /\ b(n).t = "body"
  BY MsgTyped DEF NoReq
<1>2. w \in {<<>>, <<b(1)>>, <<b(2)>>}
  BY StreamAssumption DEF RequestBody
<1>8. \A n \in {1, 2} : <<b(n)>> \in Seq(Frame) /\ Len(<<b(n)>>) = 1 /\ <<b(n)>>[1] = b(n)
  BY <1>1
<1> HIDE DEF o, b
<1>9. <<>> \in Seq(Frame) /\ Len(<<>>) = 0 /\ 1 .. 0 = {} /\ <<o>> \in Seq(Frame)
      /\ \A a \in 1 .. 1 : a = 1
  BY <1>1
<1>3. /\ w \in Seq(Frame) /\ <<o>> \in Seq(Frame)
      /\ \A a \in 1 .. Len(w) : w[a].id = nextId /\ w[a].t = "body"
  BY <1>1, <1>2, <1>8, <1>9
<1>4. OpenFrames(r, kind) = <<o>> \o w
  BY DEF OpenFrames, o
<1> HIDE DEF w
<1>5. /\ <<o>> \o w \in Seq(Frame)
      /\ \A a \in 1 .. Len(<<o>> \o w) :
           \/ a \in 1 .. Len(<<o>>) /\ (<<o>> \o w)[a] = <<o>>[a]
           \/ /\ a - Len(<<o>>) \in 1 .. Len(w)
              /\ (<<o>> \o w)[a] = w[a - Len(<<o>>)]
  BY <1>3, PutFrames
<1>6. Len(<<o>>) = 1 /\ <<o>>[1] = o /\ \A a \in 1 .. 1 : a = 1
  OBVIOUS
<1>7. ASSUME NEW a \in 1 .. Len(<<o>> \o w)
      PROVE  /\ (<<o>> \o w)[a].id = nextId
             /\ \/ (<<o>> \o w)[a].t = "body"
                \/ a = 1 /\ (<<o>> \o w)[a].t = "open" /\ (<<o>> \o w)[a].req = r
  BY <1>1, <1>3, <1>5, <1>6
<1> QED BY <1>4, <1>5, <1>7

LEMMA StartTyped ==
  ASSUME StreamIInv, NEW r \in Reqs, NEW kind \in Kinds, StartHttpStream(r, kind)
  PROVE  /\ StreamTypeOK'
         /\ hub[r].phase = "idle" /\ nextId \in Ids /\ nextId' = nextId + 1
         /\ \A q \in Reqs : q # r => hub'[q] = hub[q]
         /\ hub'[r].phase \in {"wait", "over"} /\ hub'[r].id = nextId
         /\ hub'[r].out = hub[r].out /\ hub'[r].lastGranted = hub[r].lastGranted
         /\ hub'[r].grants = hub[r].grants /\ hub'[r].got = hub[r].got
         /\ hub'[r].browser = hub[r].browser
         /\ \/ toClient' = toClient
            \/ toClient' = Sent(toClient, OpenFrames(r, kind)) /\ hub'[r].phase = "wait"
         /\ cut' = IF InUse(nextId) THEN cut \cup {r} ELSE cut
         /\ UNCHANGED <<up, losses, toProxy, clientVars>>
<1>1. /\ StreamTypeOK /\ hub[r].phase = "idle" /\ nextId' = nextId + 1
      /\ cut' = IF InUse(nextId) THEN cut \cup {r} ELSE cut
      /\ UNCHANGED <<up, losses, toProxy, clientVars>>
  BY DEF StreamIInv, StartHttpStream
<1>2. hub[r].phase = "idle" /\ nextId \in Ids /\ nextId + 1 \in 1 .. Cardinality(Reqs) + 1
  BY <1>1, IdLeft
<1>3. OpenFrames(r, kind) \in Seq(Frame)
  BY <1>2, OpenFramesTyped
<1>4. \/ toClient' = toClient /\ hub' = [hub EXCEPT ![r].phase = "over", ![r].id = nextId]
      \/ /\ toClient' = Sent(toClient, OpenFrames(r, kind))
         /\ hub' = [hub EXCEPT ![r].phase = "wait", ![r].id = nextId]
  BY DEF StartHttpStream, OpenFrames
<1>5. toClient' \in Seq(Frame)
  BY <1>1, <1>3, <1>4, SentTyped DEF StreamTypeOK
<1>6. /\ hub' \in [Reqs -> HubState]
      /\ \A q \in Reqs : q # r => hub'[q] = hub[q]
      /\ hub'[r].phase \in {"wait", "over"} /\ hub'[r].id = nextId
      /\ hub'[r].out = hub[r].out /\ hub'[r].lastGranted = hub[r].lastGranted
      /\ hub'[r].grants = hub[r].grants /\ hub'[r].got = hub[r].got
      /\ hub'[r].browser = hub[r].browser
      /\ \/ toClient' = toClient
         \/ toClient' = Sent(toClient, OpenFrames(r, kind)) /\ hub'[r].phase = "wait"
  <2>1. ASSUME NEW p \in {"wait", "over"},
               hub' = [hub EXCEPT ![r].phase = p, ![r].id = nextId]
        PROVE  /\ hub' \in [Reqs -> HubState]
               /\ \A q \in Reqs : q # r => hub'[q] = hub[q]
               /\ hub'[r].phase = p /\ hub'[r].id = nextId
               /\ hub'[r].out = hub[r].out /\ hub'[r].lastGranted = hub[r].lastGranted
               /\ hub'[r].grants = hub[r].grants /\ hub'[r].got = hub[r].got
               /\ hub'[r].browser = hub[r].browser
    BY <1>1, <1>2, <2>1 DEF StreamTypeOK, HubState
  <2> QED BY <1>4, <2>1
<1>7. StreamTypeOK'
  BY <1>1, <1>2, <1>5, <1>6, HubTypes DEF StreamTypeOK
<1> QED BY <1>1, <1>2, <1>6, <1>7

(* A step of the hub that grants nothing and takes no body: what it keeps.  *)
HubKept(r) ==
  /\ hub'[r].id = hub[r].id /\ hub'[r].out = hub[r].out
  /\ hub'[r].lastGranted = hub[r].lastGranted
  /\ hub'[r].grants = hub[r].grants /\ hub'[r].got = hub[r].got

LEMMA AckTimeoutTyped ==
  ASSUME StreamIInv, NEW r \in Reqs, AckTimeout(r)
  PROVE  /\ StreamTypeOK'
         /\ \A q \in Reqs : q # r => hub'[q] = hub[q]
         /\ hub[r].phase = "wait" /\ hub'[r].phase = "over"
         /\ hub'[r].browser = hub[r].browser /\ HubKept(r)
         /\ UNCHANGED <<nextId, toClient, toProxy, clientVars, channelVars>>
<1>1. StreamTypeOK /\ UNCHANGED <<nextId, toClient, toProxy, clientVars, channelVars>>
      /\ hub' = [hub EXCEPT ![r].phase = "over"] /\ hub[r].phase = "wait"
  BY DEF StreamIInv, AckTimeout
<1>2. /\ hub' \in [Reqs -> HubState]
      /\ \A q \in Reqs : q # r => hub'[q] = hub[q]
      /\ hub'[r].phase = "over" /\ hub'[r].browser = hub[r].browser /\ HubKept(r)
  BY <1>1 DEF StreamTypeOK, HubState, HubKept
<1>3. StreamTypeOK'
  BY <1>1, <1>2, HubTypes DEF StreamTypeOK, channelVars
<1> QED BY <1>1, <1>2, <1>3

LEMMA WindowTyped ==
  ASSUME StreamIInv, NEW r \in Reqs, hub[r].phase # "idle", NEW k \in Nat
  PROVE  /\ WindowMsg(r, k) \in Frame /\ WindowMsg(r, k).t = "window"
         /\ WindowMsg(r, k).id = hub[r].id /\ WindowMsg(r, k).req = r
         /\ WindowMsg(r, k).k = k /\ WindowMsg(r, k).n = Window
<1>1. hub[r].id \in Ids /\ r \in Reqs \cup {NoReq} /\ Window \in Nat
  BY IdTyped, StreamAssumption
<1> QED BY <1>1, MsgTyped DEF WindowMsg

LEMMA RegisterTyped ==
  ASSUME StreamIInv, NEW r \in Reqs, Register(r)
  PROVE  /\ StreamTypeOK'
         /\ \A q \in Reqs : q # r => hub'[q] = hub[q]
         /\ hub[r].phase = "acked" /\ hub'[r].phase = "open" /\ hub'[r].grants = 1
         /\ hub'[r].browser \in {"headers", hub[r].browser}
         /\ hub'[r].id = hub[r].id /\ hub'[r].out = hub[r].out
         /\ hub'[r].lastGranted = hub[r].lastGranted /\ hub'[r].got = hub[r].got
         /\ <<WindowMsg(r, 1)>> \in Seq(Frame)
         /\ toClient' = Sent(toClient, <<WindowMsg(r, 1)>>)
         /\ UNCHANGED <<nextId, toProxy, clientVars, channelVars>>
<1>1. /\ StreamTypeOK /\ hub[r].phase = "acked"
      /\ hub' = [hub EXCEPT ![r].phase = "open", ![r].browser = Shown(r, "headers"),
                            ![r].grants = 1]
      /\ toClient' = Sent(toClient, <<WindowMsg(r, 1)>>)
      /\ UNCHANGED <<nextId, toProxy, clientVars, channelVars>>
  BY DEF StreamIInv, Register
<1>2. Shown(r, "headers") \in {"none", "headers", "ended", "broken", "left"}
      /\ Shown(r, "headers") \in {"headers", hub[r].browser}
  BY <1>1 DEF Shown, StreamTypeOK, HubState
<1> HIDE DEF Shown
<1>3. /\ hub' \in [Reqs -> HubState]
      /\ \A q \in Reqs : q # r => hub'[q] = hub[q]
      /\ hub'[r].phase = "open" /\ hub'[r].grants = 1
      /\ hub'[r].browser \in {"headers", hub[r].browser}
      /\ hub'[r].id = hub[r].id /\ hub'[r].out = hub[r].out
      /\ hub'[r].lastGranted = hub[r].lastGranted /\ hub'[r].got = hub[r].got
  BY <1>1, <1>2 DEF StreamTypeOK, HubState
<1>4. WindowMsg(r, 1) \in Frame
  BY <1>1, WindowTyped
<1>5. <<WindowMsg(r, 1)>> \in Seq(Frame)
  BY <1>4
<1>6. toClient' \in Seq(Frame)
  BY <1>1, <1>5, SentTyped DEF StreamTypeOK
<1>7. StreamTypeOK'
  BY <1>1, <1>3, <1>6, HubTypes DEF StreamTypeOK, channelVars
<1> QED BY <1>1, <1>3, <1>5, <1>7

-----------------------------------------------------------------------------
(* A step of the hub that neither starts a stream nor loses the channel.    *)
HubStays ==
  /\ UNCHANGED <<nextId, clientVars, channelVars>>
  /\ \A r \in Reqs : /\ hub'[r].id = hub[r].id
                     /\ hub'[r].phase = "idle" <=> hub[r].phase = "idle"
                     /\ Served(r)' => Served(r)
                     /\ hub[r].grants <= hub'[r].grants

LEMMA HubStaysIds ==
  ASSUME StreamIInv, HubStays
  PROVE  /\ \A r \in Reqs : Current(r)' => Current(r)
         /\ IdsInv' /\ ClientInv'
<1>1. ASSUME NEW r \in Reqs PROVE Current(r)' => Current(r)
  BY DEF HubStays, Current, InHand, clientVars, channelVars
<1>2. InPhase("idle")' = InPhase("idle")
  BY DEF HubStays, InPhase
<1>3. IdsInv'
  BY <1>1, <1>2 DEF StreamIInv, IdsInv, HubStays
<1>4. ClientInv'
  BY DEF StreamIInv, ClientInv, InStep, HubStays, clientVars
<1> QED BY <1>1, <1>3, <1>4

(* What it sends: the end of a stream, or credit for a live one.            *)
Told(f) ==
  /\ f.t \in {"close", "window"} /\ f.id < nextId
  /\ f.t = "window" => Served(f.req) /\ CreditFor(f)'

LEMMA ToldFrame ==
  ASSUME StreamIInv, HubStays, NEW f \in Frame, Told(f)
  PROVE  ToClientFrame(f)' /\ (Names(f) => Current(f.req) /\ f.req \in Reqs /\ hub[f.req].id = f.id)
<1>1. f.t \in {"open", "body", "window", "close"} /\ f.id < nextId' /\ f.t # "open"
  BY DEF Told, HubStays
<1>2. ASSUME Names(f)
      PROVE  /\ Current(f.req) /\ f.req \in Reqs /\ hub[f.req].id = f.id /\ CreditFor(f)'
  <2>1. f.t = "window" /\ Served(f.req) /\ CreditFor(f)'
    BY <1>1, <1>2 DEF Told, Names
  <2>2. f.req \in Reqs /\ hub'[f.req].id = f.id
    BY <2>1 DEF CreditFor
  <2> QED BY <2>1, <2>2 DEF HubStays, Current
<1>3. ASSUME Names(f), NEW r \in Reqs, Current(r)', hub'[r].id = f.id
      PROVE  f.req = r
  <2>1. Current(r) /\ hub[r].id = f.id
    BY <1>3, HubStaysIds DEF HubStays
  <2> QED BY <1>2, <1>3, <2>1 DEF StreamIInv, IdsInv
<1>4. f.t = "window" => CreditFor(f)'
  BY DEF Told
<1> QED BY <1>1, <1>2, <1>3, <1>4 DEF ToClientFrame, Names

LEMMA OldFrame ==
  ASSUME StreamIInv, StreamTypeOK', HubStays, NEW f \in Frame, ToClientFrame(f)
  PROVE  ToClientFrame(f)'
<1>1. f.t \in {"open", "body", "window", "close"} /\ f.id < nextId'
  BY DEF ToClientFrame, HubStays
<1>2. ASSUME f.t = "open" PROVE OpenFor(f)'
  BY <1>2 DEF ToClientFrame, OpenFor, HubStays, clientVars
<1>3. ASSUME f.t = "window" PROVE CreditFor(f)'
  <2>1. /\ f.req \in Reqs /\ hub[f.req].id = f.id /\ f.n = Window
        /\ 0 < f.k /\ f.k <= hub[f.req].grants
    BY <1>3 DEF ToClientFrame, CreditFor
  <2>2. hub'[f.req].id = f.id /\ hub[f.req].grants <= hub'[f.req].grants
    BY <2>1 DEF HubStays
  <2>3. hub[f.req].grants \in Nat /\ hub'[f.req].grants \in Nat /\ f.k \in Nat
    BY <2>1 DEF StreamIInv, StreamTypeOK, HubState, Frame
  <2> QED BY <2>1, <2>2, <2>3 DEF CreditFor
<1>4. ASSUME Names(f), NEW r \in Reqs, Current(r)', hub'[r].id = f.id PROVE f.req = r
  <2>1. Current(r) /\ hub[r].id = f.id
    BY <1>4, HubStaysIds DEF HubStays
  <2> QED BY <1>4, <2>1 DEF ToClientFrame
<1> QED BY <1>1, <1>2, <1>3, <1>4 DEF ToClientFrame, Names

LEMMA HubStaysToClient ==
  ASSUME StreamIInv, StreamTypeOK', HubStays, NEW fs \in Seq(Frame),
         NEW u \in Seq(Frame), u = toClient', u = Sent(toClient, fs), \A a \in 1 .. Len(fs) : Told(fs[a])
  PROVE  ToClientInv'
<1>0. toClient \in Seq(Frame) /\ ToClientInv 
  BY DEF StreamIInv, StreamTypeOK
<1>1. ASSUME NEW a \in 1 .. Len(u)
      PROVE  \/ a \in 1 .. Len(toClient) /\ u[a] = toClient[a]
             \/ u[a] \in Frame /\ Told(u[a])
  <2>1. CASE u = toClient
    BY <1>1, <2>1
  <2>2. CASE u = toClient \o fs
    <3>1. \A b \in 1 .. Len(fs) : fs[b] \in Frame
      OBVIOUS
    <3>2. \/ a \in 1 .. Len(toClient) /\ (toClient \o fs)[a] = toClient[a]
          \/ /\ a - Len(toClient) \in 1 .. Len(fs)
             /\ (toClient \o fs)[a] = fs[a - Len(toClient)]
      BY <1>0, <1>1, <2>2, PutFrames
    <3> QED BY <2>2, <3>1, <3>2
  <2> QED BY <2>1, <2>2 DEF Sent
<1>2. \A a \in 1 .. Len(toClient) : toClient[a] \in Frame /\ ToClientFrame(toClient[a])
  BY <1>0 DEF ToClientInv
<1>3. ASSUME NEW a \in 1 .. Len(u) PROVE ToClientFrame(u[a])'
  BY <1>1, <1>2, OldFrame, ToldFrame
<1>4. ASSUME NEW a \in 1 .. Len(u), NEW b \in 1 .. Len(u),
             Names(u[a]), Names(u[b]), u[a].id = u[b].id
      PROVE  u[a].req = u[b].req
  <2>1. CASE /\ a \in 1 .. Len(toClient) /\ u[a] = toClient[a]
             /\ b \in 1 .. Len(toClient) /\ u[b] = toClient[b]
    BY <1>0, <1>4, <2>1 DEF ToClientInv
  <2>2. CASE u[b] \in Frame /\ Told(u[b])
    <3>1. /\ Current(u[b].req) /\ u[b].req \in Reqs
          /\ hub[u[b].req].id = u[b].id
      BY <1>4, <2>2, ToldFrame
    <3>2. CASE a \in 1 .. Len(toClient) /\ u[a] = toClient[a]
      BY <1>2, <1>4, <3>1, <3>2 DEF ToClientFrame
    <3>3. CASE u[a] \in Frame /\ Told(u[a])
      <4>1. /\ Current(u[a].req) /\ u[a].req \in Reqs
            /\ hub[u[a].req].id = u[a].id
        BY <1>4, <3>3, ToldFrame
      <4> QED BY <1>4, <3>1, <4>1 DEF StreamIInv, IdsInv
    <3> QED BY <1>1, <3>2, <3>3
  <2>3. CASE u[a] \in Frame /\ Told(u[a])
    <3>1. /\ Current(u[a].req) /\ u[a].req \in Reqs
          /\ hub[u[a].req].id = u[a].id
      BY <1>4, <2>3, ToldFrame
    <3>2. CASE b \in 1 .. Len(toClient) /\ u[b] = toClient[b]
      BY <1>2, <1>4, <3>1, <3>2 DEF ToClientFrame
    <3> QED BY <1>1, <2>2, <3>2
  <2> QED BY <1>1, <2>1, <2>2, <2>3
<1>5. ASSUME NEW a \in 1 .. Len(u), NEW b \in 1 .. Len(u),
             u[a].t = "open", u[b].t = "open",
             u[a].req = u[b].req
      PROVE  a = b
  <2>1. /\ a \in 1 .. Len(toClient) /\ u[a] = toClient[a]
        /\ b \in 1 .. Len(toClient) /\ u[b] = toClient[b]
    BY <1>1, <1>5 DEF Told
  <2> QED BY <1>0, <1>5, <2>1 DEF ToClientInv
<1> QED BY <1>3, <1>4, <1>5 DEF ToClientInv, Names

(* It takes at most a frame.                                                *)
LEMMA HubStaysToProxy ==
  ASSUME StreamIInv, toProxy' = toProxy \/ (toProxy # <<>> /\ toProxy' = Tail(toProxy))
  PROVE  ToProxyInv'
<1>1. toProxy \in Seq(Frame) /\ ToProxyInv
  BY DEF StreamIInv, StreamTypeOK
<1>2. CASE toProxy # <<>> /\ toProxy' = Tail(toProxy)
  <2>1. \A a \in 1 .. Len(toProxy') : a + 1 \in 1 .. Len(toProxy) /\ toProxy'[a] = toProxy[a + 1]
    BY <1>1, <1>2, TakeFrame
  <2> QED BY <1>1, <2>1 DEF ToProxyInv
<1>3. CASE toProxy' = toProxy
  BY <1>1, <1>3 DEF ToProxyInv
<1> QED BY <1>2, <1>3

(* A step of the hub that grants a request nothing and takes nothing of its *)
(* body.                                                                    *)
HubQuiet(r) ==
  /\ HubKept(r)
  /\ \/ hub'[r].phase = hub[r].phase
     \/ Served(r) /\ hub'[r].phase = "over"
     \/ hub[r].phase = "wait" /\ hub'[r].phase = "acked"
  /\ hub'[r].browser = "ended" => hub[r].browser = "ended" \/ hub'[r].phase = "over"

LEMMA HubQuietRecord ==
  ASSUME StreamIInv, NEW r \in Reqs, HubQuiet(r), clientVars' = clientVars
  PROVE  /\ OnRecord(r)'
         /\ Served(r)' => Served(r)
         /\ hub'[r].phase = "idle" <=> hub[r].phase = "idle"
<1>1. OnRecord(r) /\ hub[r].grants \in Nat
  BY DEF StreamIInv, ProxyInv, StreamTypeOK, HubState
<1> QED BY <1>1 DEF OnRecord, HubQuiet, HubKept, Served, clientVars

LEMMA HubQuietIntact ==
  ASSUME StreamIInv, StreamTypeOK', clientVars' = clientVars, up' = up, cut \subseteq cut',
         NEW r \in Reqs, r \notin cut', HubQuiet(r),
         hub[r].phase = "wait" /\ hub'[r].phase = "acked" => task[r].phase # "none",
         hub'[r].browser = "ended" => \/ hub[r].browser = "ended"
                                      \/ /\ hub[r].got = Whole(r)
                                         /\ task[r].phase \in {"slot", "done"},
         NEW fs \in Seq(Frame), toClient' = Sent(toClient, fs),
         \A a \in 1 .. Len(fs) : fs[a].t = "window" => fs[a].req # r,
         NEW v \in Seq(Frame), v = toProxy',
         \/ v = toProxy
         \/ /\ toProxy # <<>> /\ v = Tail(toProxy)
            /\ Served(r)' => Head(toProxy).t # "data" \/ Head(toProxy).id # hub[r].id
  PROVE  Intact(r)'
<1>1. /\ r \notin cut /\ Intact(r) /\ StreamTypeOK /\ toProxy \in Seq(Frame)
      /\ toClient \in Seq(Frame)
  BY DEF StreamIInv, UncutInv, StreamTypeOK
<1>2. /\ task' = task /\ streams' = streams
      /\ hub'[r].id = hub[r].id /\ hub'[r].out = hub[r].out
      /\ hub'[r].lastGranted = hub[r].lastGranted
      /\ hub'[r].grants = hub[r].grants /\ hub'[r].got = hub[r].got
      /\ Served(r)' => Served(r)
  BY HubQuietRecord DEF clientVars, HubQuiet, HubKept
<1>3. InHand(r)' => InHand(r)
  BY <1>1, <1>2 DEF InHand
<1>4. Unknown(r)'
  BY <1>1, <1>2, <1>3 DEF Intact, Unknown, HubQuiet, Served
<1>5. \A a \in 1 .. Len(v) : \E b \in 1 .. Len(toProxy) : v[a] = toProxy[b]
  <2>1. CASE v = toProxy
    BY <2>1
  <2>2. CASE toProxy # <<>> /\ v = Tail(toProxy)
    BY <1>1, <2>2, TakeFrame
  <2> QED BY <2>1, <2>2
<1>6. OwnId(r)'
  <2> SUFFICES ASSUME Served(r)' PROVE OwnId(r)'
    BY DEF OwnId
  <2>1. \A i \in Ids : i = hub'[r].id => streams'[i] \in {NoReq, r}
    BY <1>1, <1>2 DEF Intact, OwnId
  <2>2. \A q \in Reqs : Sends(q, hub[r].id)' => q = r
    BY <1>1, <1>2 DEF Intact, OwnId, Sends
  <2>3. \A a \in 1 .. Len(v) : v[a].id = hub[r].id => task[r].phase # "none"
    BY <1>1, <1>2, <1>5 DEF Intact, OwnId
  <2> QED BY <1>2, <2>1, <2>2, <2>3 DEF OwnId
<1>7. DataOf(r)' = DataOf(r) /\ CreditOf(r)' = CreditOf(r)
  BY <1>2 DEF DataOf, CreditOf
<1>8. BodyInOrder(r)'
  <2> SUFFICES ASSUME Served(r)' PROVE BodyInOrder(r)'
    BY DEF BodyInOrder
  <2> DEFINE n == Len(hub[r].got)
             m == task[r].sent
  <2>1. /\ Served(r) /\ BodyInOrder(r) /\ Numbered(toProxy, DataOf(r), n, m)
        /\ FinLast(toProxy, hub[r].id) /\ n \in Nat /\ m \in Nat
    BY <1>1, <1>2 DEF Intact, BodyInOrder, StreamTypeOK, HubState, TaskState
  <2>2. Numbered(v, DataOf(r), n, m) /\ FinLast(v, hub[r].id)
    <3>1. CASE v = toProxy
      BY <2>1, <3>1
    <3>2. CASE /\ toProxy # <<>> /\ v = Tail(toProxy)
               /\ Head(toProxy).t # "data" \/ Head(toProxy).id # hub[r].id
      <4>1. Head(toProxy) \notin DataOf(r)
        BY <3>2 DEF DataOf
      <4> HIDE DEF n, m
      <4> QED BY <1>1, <2>1, <3>2, <4>1, NumberedTakeOut, FinLastTake
    <3> QED BY <3>1, <3>2
  <2>3. \A a \in 1 .. Len(v) : v[a] \in DataOf(r) =>
          v[a].req = r /\ v[a].n = task[r].body[v[a].k]
    BY <1>5, <2>1 DEF BodyInOrder
  <2>4. \A a \in 1 .. Len(v) : v[a].id = hub[r].id /\ v[a].t = "fin" =>
          task[r].phase \in {"slot", "done"} /\ task[r].sent = Len(task[r].body)
    BY <1>5, <2>1 DEF BodyInOrder
  <2>5. /\ hub[r].got = [k \in 1 .. n |-> <<r, k>>] /\ n <= m
        /\ hub[r].out = BytesOf(task[r].body)[n]
    BY <2>1 DEF BodyInOrder
  <2> QED BY <1>2, <1>7, <2>2, <2>3, <2>4, <2>5 DEF BodyInOrder
<1>9. Account(r)'
  <2>0. Account(r) /\ BytesSent(r)' = BytesSent(r)
    BY <1>1, <1>2 DEF Intact, BytesSent
  <2>1. ASSUME InHand(r)', NEW c \in Nat, Arrived(r, c) PROVE Arrived(r, c)'
    <3>1. Numbered(toClient, CreditOf(r), c, hub[r].grants) /\ hub[r].grants \in Nat
      BY <1>1, <2>1 DEF Arrived, StreamTypeOK, HubState
    <3>2. \A a \in 1 .. Len(fs) : fs[a] \notin CreditOf(r)
      BY DEF CreditOf
    <3>3. Numbered(toClient', CreditOf(r), c, hub[r].grants)
      <4>1. CASE toClient' = toClient
        BY <3>1, <4>1
      <4>2. CASE toClient' = toClient \o fs
        <5>1. Numbered(toClient \o fs, CreditOf(r), c, hub[r].grants)
          BY <1>1, <3>1, <3>2, NumberedJoin
        <5> QED BY <4>2, <5>1
      <4> QED BY <4>1, <4>2 DEF Sent
    <3> QED BY <1>2, <1>7, <2>0, <2>1, <3>3 DEF Arrived
  <2>2. InHand(r)' => \E c \in Nat : Arrived(r, c)'
    BY <1>3, <2>0, <2>1 DEF Account
  <2>3. InHand(r)' => \A i \in Ids : i = hub'[r].id => streams'[i] = r
    BY <1>2, <1>3, <2>0 DEF Account
  <2> QED BY <1>2, <2>0, <2>2, <2>3 DEF Account
<1>10. Renewed(r)'
  BY <1>1, <1>2 DEF Intact, Renewed, HubQuiet, Served
<1>11. EndedWhole(r)'
  BY <1>1, <1>2 DEF Intact, EndedWhole, Whole
<1> QED BY <1>4, <1>6, <1>8, <1>9, <1>10, <1>11 DEF Intact

LEMMA HubStaysInv ==
  ASSUME StreamIInv, StreamTypeOK', HubStays,
         NEW fs \in Seq(Frame), toClient' = Sent(toClient, fs),
         \A a \in 1 .. Len(fs) : Told(fs[a]),
         toProxy' = toProxy \/ (toProxy # <<>> /\ toProxy' = Tail(toProxy)),
         \A r \in Reqs : OnRecord(r)',
         \A r \in Reqs \ cut : Intact(r)'
  PROVE  StreamIInv'
<1>1. IdsInv' /\ ClientInv' /\ ProxyInv'
  BY HubStaysIds DEF ProxyInv
<1>2. ToClientInv'
  <2>1. PICK u \in Seq(Frame) : u = toClient'
    BY DEF StreamTypeOK
  <2> QED BY <2>1, HubStaysToClient
<1>3. ToProxyInv'
  BY HubStaysToProxy
<1>4. ChannelInv'
  BY DEF StreamIInv, ChannelInv, Sent, HubStays, channelVars
<1>5. UncutInv'
  BY DEF UncutInv, HubStays, channelVars
<1> QED BY <1>1, <1>2, <1>3, <1>4, <1>5 DEF StreamIInv

LEMMA HubQuietInv ==
  ASSUME StreamIInv, StreamTypeOK', UNCHANGED <<nextId, clientVars, channelVars>>,
         \A r \in Reqs : HubQuiet(r),
         \A r \in Reqs \ cut : hub[r].phase = "wait" /\ hub'[r].phase = "acked" =>
                                 task[r].phase # "none",
         \A r \in Reqs \ cut : hub'[r].browser = "ended" =>
           hub[r].browser = "ended" \/ (/\ hub[r].got = Whole(r)
                                        /\ task[r].phase \in {"slot", "done"}),
         NEW fs \in Seq(Frame), toClient' = Sent(toClient, fs),
         \A a \in 1 .. Len(fs) : fs[a].t = "close" /\ fs[a].id < nextId,
         NEW v \in Seq(Frame), v = toProxy',
         \/ v = toProxy
         \/ /\ toProxy # <<>> /\ v = Tail(toProxy)
            /\ \A r \in Reqs \ cut :
                 Served(r)' => Head(toProxy).t # "data" \/ Head(toProxy).id # hub[r].id
  PROVE  StreamIInv'
<1>1. \A r \in Reqs : /\ OnRecord(r)' /\ (Served(r)' => Served(r))
                      /\ hub'[r].phase = "idle" <=> hub[r].phase = "idle"
                      /\ hub'[r].id = hub[r].id /\ hub'[r].grants = hub[r].grants
                      /\ hub[r].grants \in Nat
  BY HubQuietRecord DEF HubQuiet, HubKept, StreamIInv, StreamTypeOK, HubState
<1>2. HubStays
  BY <1>1 DEF HubStays
<1>3. \A a \in 1 .. Len(fs) : Told(fs[a])
  BY DEF Told
<1>4. ASSUME NEW r \in Reqs \ cut PROVE Intact(r)'
  <2>1. up' = up /\ cut \subseteq cut' /\ r \in Reqs /\ r \notin cut' /\ clientVars' = clientVars
    BY DEF channelVars
  <2>2. HubQuiet(r) /\ (\A a \in 1 .. Len(fs) : fs[a].t = "window" => fs[a].req # r)
    OBVIOUS
  <2>3. hub[r].phase = "wait" /\ hub'[r].phase = "acked" => task[r].phase # "none"
    OBVIOUS
  <2>4. hub'[r].browser = "ended" => \/ hub[r].browser = "ended"
                                     \/ /\ hub[r].got = Whole(r)
                                        /\ task[r].phase \in {"slot", "done"}
    OBVIOUS
  <2>5. \/ v = toProxy
        \/ /\ toProxy # <<>> /\ v = Tail(toProxy)
           /\ Served(r)' => Head(toProxy).t # "data" \/ Head(toProxy).id # hub[r].id
    OBVIOUS
  <2> QED BY <2>1, <2>2, <2>3, <2>4, <2>5, HubQuietIntact
<1> QED BY <1>1, <1>2, <1>3, <1>4, HubStaysInv

LEMMA NoFrames ==
  ASSUME StreamIInv
  PROVE  /\ <<>> \in Seq(Frame) /\ Len(<<>>) = 0 /\ 1 .. Len(<<>>) = {}
         /\ Sent(toClient, <<>>) = toClient /\ Sent(toProxy, <<>>) = toProxy
<1>1. \A q \in Seq(Frame) : q \o <<>> = q
  OBVIOUS
<1> QED BY <1>1 DEF StreamIInv, StreamTypeOK, Sent

-----------------------------------------------------------------------------
LEMMA AckTimeoutKeeps ==
  ASSUME StreamIInv, NEW r \in Reqs, AckTimeout(r)
  PROVE  StreamIInv'
<1>1. /\ StreamTypeOK' /\ \A q \in Reqs : q # r => hub'[q] = hub[q]
      /\ hub[r].phase = "wait" /\ hub'[r].phase = "over"
      /\ hub'[r].browser = hub[r].browser /\ HubKept(r)
      /\ UNCHANGED <<nextId, toClient, toProxy, clientVars, channelVars>>
  BY AckTimeoutTyped
<1>2. \A q \in Reqs : HubQuiet(q) /\ hub'[q].browser = hub[q].browser
                      /\ (hub'[q].phase = hub[q].phase \/ hub'[q].phase = "over")
  BY <1>1 DEF HubQuiet, HubKept, Served, StreamIInv, ProxyInv, OnRecord
<1>3. <<>> \in Seq(Frame) /\ toClient' = Sent(toClient, <<>>) /\ 1 .. Len(<<>>) = {}
  BY <1>1, NoFrames
<1>4. PICK v \in Seq(Frame) : v = toProxy' /\ v = toProxy
  BY <1>1 DEF StreamIInv, StreamTypeOK
<1> QED BY <1>1, <1>2, <1>3, <1>4, HubQuietInv

(* The hub ends a stream in use and tells the client so.                    *)
LEMMA HubClosesKeeps ==
  ASSUME StreamIInv, NEW r \in Reqs, hub[r].phase = "open",
         NEW view \in {"broken", "left"},
         hub' = [hub EXCEPT ![r].phase = "over", ![r].browser = view],
         toClient' = Sent(toClient, <<Signal("close", hub[r].id)>>),
         UNCHANGED <<nextId, toProxy, clientVars, channelVars>>
  PROVE  StreamIInv'
<1>1. StreamTypeOK /\ Served(r) /\ hub[r].id < nextId /\ hub[r].id \in Ids
  BY IdTyped DEF StreamIInv, IdsInv, Current, Served
<1>2. /\ hub' \in [Reqs -> HubState]
      /\ \A q \in Reqs : q # r => hub'[q] = hub[q]
      /\ hub'[r].phase = "over" /\ hub'[r].browser = view /\ HubKept(r)
  BY <1>1 DEF StreamTypeOK, HubState, HubKept
<1>3. PICK fs \in Seq(Frame) : /\ fs = <<Signal("close", hub[r].id)>>
                               /\ \A a \in 1 .. Len(fs) : fs[a].t = "close" /\ fs[a].id < nextId
  <2>1. /\ Signal("close", hub[r].id) \in Frame /\ Signal("close", hub[r].id).t = "close"
        /\ Signal("close", hub[r].id).id = hub[r].id
    BY <1>1, SignalTyped
  <2> DEFINE s == Signal("close", hub[r].id)
  <2> HIDE DEF s
  <2>2. /\ s \in Frame /\ s.t = "close" /\ s.id < nextId
    BY <1>1, <2>1 DEF s
  <2>3. <<s>> \in Seq(Frame) /\ \A a \in 1 .. Len(<<s>>) : <<s>>[a] = s
    BY <2>2
  <2> QED BY <2>2, <2>3 DEF s
<1>4. StreamTypeOK'
  <2>1. toClient' \in Seq(Frame) /\ toProxy' \in Seq(Frame)
    BY <1>1, <1>3, SentTyped DEF StreamTypeOK
  <2> QED BY <1>1, <1>2, <2>1, HubTypes DEF StreamTypeOK, channelVars
<1>5. \A q \in Reqs : HubQuiet(q) /\ (hub'[q].browser = "ended" => hub[q].browser = "ended")
                      /\ (hub'[q].phase = hub[q].phase \/ hub'[q].phase = "over")
  BY <1>1, <1>2 DEF HubQuiet, HubKept
<1>6. PICK v \in Seq(Frame) : v = toProxy' /\ v = toProxy
  BY <1>1 DEF StreamTypeOK
<1> QED BY <1>3, <1>4, <1>5, <1>6, HubQuietInv

LEMMA BrowserLeavesKeeps ==
  ASSUME StreamIInv, NEW r \in Reqs, BrowserLeaves(r)
  PROVE  StreamIInv'
<1>1. StreamTypeOK /\ UNCHANGED <<nextId, toProxy, clientVars, channelVars>>
  BY DEF StreamIInv, BrowserLeaves
<1>2. CASE hub[r].phase = "open"
  BY <1>1, <1>2, HubClosesKeeps DEF BrowserLeaves
<1>3. CASE hub[r].phase # "open"
  <2>1. toClient' = toClient /\ hub' = [hub EXCEPT ![r].browser = "left"]
    BY <1>3 DEF BrowserLeaves
  <2>2. /\ hub' \in [Reqs -> HubState]
        /\ \A q \in Reqs : q # r => hub'[q] = hub[q]
        /\ hub'[r].phase = hub[r].phase /\ hub'[r].browser = "left" /\ HubKept(r)
    BY <1>1, <2>1 DEF StreamTypeOK, HubState, HubKept
  <2>3. StreamTypeOK'
    BY <1>1, <2>1, <2>2, HubTypes DEF StreamTypeOK, channelVars
  <2>4. \A q \in Reqs : HubQuiet(q) /\ (hub'[q].browser = "ended" => hub[q].browser = "ended")
                        /\ hub'[q].phase = hub[q].phase
    BY <2>2 DEF HubQuiet, HubKept
  <2>5. <<>> \in Seq(Frame) /\ toClient' = Sent(toClient, <<>>) /\ 1 .. Len(<<>>) = {}
    BY <2>1, NoFrames
  <2>6. PICK v \in Seq(Frame) : v = toProxy' /\ v = toProxy
    BY <1>1 DEF StreamTypeOK
  <2> QED BY <1>1, <2>3, <2>4, <2>5, <2>6, HubQuietInv
<1> QED BY <1>2, <1>3

LEMMA HubSweepKeeps ==
  ASSUME StreamIInv, NEW r \in Reqs, HubSweep(r)
  PROVE  StreamIInv'
<1>1. /\ hub[r].phase = "open" /\ hub' = [hub EXCEPT ![r] = Ended(r, "broken")]
      /\ toClient' = Sent(toClient, <<Signal("close", hub[r].id)>>)
      /\ UNCHANGED <<nextId, toProxy, clientVars, channelVars>>
  BY DEF HubSweep
<1>2. hub[r].browser # "ended" /\ StreamTypeOK
  BY <1>1 DEF StreamIInv, ProxyInv, OnRecord
<1>3. PICK view \in {"broken", "left"} : Shown(r, "broken") = view
  BY <1>2 DEF Shown, StreamTypeOK, HubState
<1>4. hub' = [hub EXCEPT ![r].phase = "over", ![r].browser = view]
  BY <1>1, <1>2, <1>3 DEF Ended, StreamTypeOK
<1> QED BY <1>1, <1>4, HubClosesKeeps

LEMMA HeadOfProxy ==
  ASSUME StreamIInv, toProxy # <<>>, toProxy' = Tail(toProxy)
  PROVE  /\ up /\ 1 \in 1 .. Len(toProxy) /\ toProxy[1] = Head(toProxy)
         /\ Head(toProxy) \in Frame
         /\ \E v \in Seq(Frame) : v = toProxy' /\ v = Tail(toProxy)
<1>1. toProxy \in Seq(Frame)
  BY DEF StreamIInv, StreamTypeOK
<1> QED BY <1>1, TakeFrame DEF StreamIInv, ChannelInv

(* A frame the hub takes without taking data or sending credit.             *)
LEMMA HubTakesKeeps ==
  ASSUME StreamIInv, toProxy # <<>>, toProxy' = Tail(toProxy), toClient' = toClient,
         UNCHANGED <<nextId, clientVars, channelVars>>,
         hub' \in [Reqs -> HubState], \A r \in Reqs : HubQuiet(r),
         \A r \in Reqs \ cut : hub[r].phase = "wait" /\ hub'[r].phase = "acked" =>
                                 task[r].phase # "none",
         \A r \in Reqs \ cut : hub'[r].browser = "ended" =>
           hub[r].browser = "ended" \/ (/\ hub[r].got = Whole(r)
                                        /\ task[r].phase \in {"slot", "done"}),
         \A r \in Reqs \ cut :
           Served(r)' => Head(toProxy).t # "data" \/ Head(toProxy).id # hub[r].id
  PROVE  StreamIInv'
<1>1. PICK v \in Seq(Frame) : v = toProxy' /\ v = Tail(toProxy)
  BY HeadOfProxy
<1>2. <<>> \in Seq(Frame) /\ toClient' = Sent(toClient, <<>>) /\ 1 .. Len(<<>>) = {}
  BY NoFrames
<1>3. StreamTypeOK'
  BY <1>1, HubTypes DEF StreamIInv, StreamTypeOK, channelVars
<1> QED BY <1>1, <1>2, <1>3, HubQuietInv

LEMMA OnOpenAckKeeps ==
  ASSUME StreamIInv, toProxy # <<>>, toProxy' = Tail(toProxy),
         Head(toProxy).t = "ack", OnOpenAck(Head(toProxy)),
         UNCHANGED <<nextId, clientVars, channelVars>>
  PROVE  StreamIInv'
<1>1. PICK f : f = Head(toProxy)
  OBVIOUS
<1>2. /\ hub \in [Reqs -> HubState] /\ toClient' = toClient
      /\ hub' = [r \in Reqs |-> IF hub[r].phase = "wait" /\ hub[r].id = f.id
                                THEN [hub[r] EXCEPT !.phase = "acked"] ELSE hub[r]]
  BY <1>1 DEF StreamIInv, StreamTypeOK, OnOpenAck
<1>3. ASSUME NEW r \in Reqs
      PROVE  /\ hub'[r] \in HubState /\ HubKept(r) /\ hub'[r].browser = hub[r].browser
             /\ \/ hub'[r].phase = hub[r].phase
                \/ hub[r].phase = "wait" /\ hub'[r].phase = "acked" /\ hub[r].id = f.id
  BY <1>2 DEF HubState, HubKept
<1>4. hub' \in [Reqs -> HubState] /\ \A r \in Reqs : HubQuiet(r)
  BY <1>2, <1>3 DEF HubQuiet
<1>5. ASSUME NEW r \in Reqs \ cut, hub[r].phase = "wait", hub'[r].phase = "acked"
      PROVE  task[r].phase # "none"
  <2>1. hub[r].id = f.id /\ Served(r) /\ OwnId(r)
    BY <1>3, <1>5 DEF StreamIInv, UncutInv, Intact, Served
  <2> QED BY <1>1, <2>1, HeadOfProxy DEF OwnId
<1> QED BY <1>1, <1>2, <1>3, <1>4, <1>5, HubTakesKeeps

(* A FIN that reaches the hub finds the response whole.                     *)
LEMMA FinFindsWhole ==
  ASSUME StreamIInv, toProxy # <<>>, Head(toProxy).t = "fin",
         NEW r \in Reqs \ cut, Served(r), hub[r].id = Head(toProxy).id
  PROVE  hub[r].got = Whole(r) /\ task[r].phase \in {"slot", "done"}
<1> DEFINE n == Len(hub[r].got)
           m == task[r].sent
<1>1. BodyInOrder(r) /\ toProxy \in Seq(Frame) /\ n \in Nat /\ m \in Nat
  BY DEF StreamIInv, UncutInv, Intact, StreamTypeOK, HubState, TaskState
<1>2. 1 \in 1 .. Len(toProxy) /\ toProxy[1] = Head(toProxy) /\ Len(toProxy) \in Nat
  BY <1>1, TakeFrame
<1>3. /\ Numbered(toProxy, DataOf(r), n, m) /\ FinLast(toProxy, hub[r].id)
      /\ hub[r].got = [k \in 1 .. n |-> <<r, k>>] /\ n <= m
  BY <1>1 DEF BodyInOrder
<1>4. task[r].phase \in {"slot", "done"} /\ m = Len(task[r].body)
  BY <1>1, <1>2 DEF BodyInOrder
<1>5. \A a \in 1 .. Len(toProxy) : toProxy[a] \notin DataOf(r)
  <2>1. \A a \in 1 .. Len(toProxy) : ~(a < 1)
    BY <1>2
  <2> QED BY <1>2, <1>3, <2>1 DEF FinLast, DataOf
<1> HIDE DEF n, m
<1>6. m <= n
  BY <1>1, <1>3, <1>5, NumberedNone
<1>7. n = m
  BY <1>1, <1>3, <1>6
<1> QED BY <1>3, <1>4, <1>7 DEF Whole, m

LEMMA EndStreamKeeps ==
  ASSUME StreamIInv, toProxy # <<>>, toProxy' = Tail(toProxy),
         NEW view \in {"ended", "broken"}, EndStream(Head(toProxy), view),
         Head(toProxy).t \in {"fin", "rst", "close"},
         view = "ended" => Head(toProxy).t = "fin",
         UNCHANGED <<nextId, clientVars, channelVars>>
  PROVE  StreamIInv'
<1>1. PICK f : f = Head(toProxy)
  OBVIOUS
<1>2. /\ StreamTypeOK /\ hub \in [Reqs -> HubState] /\ toClient' = toClient
      /\ hub' = [r \in Reqs |-> IF r \in Registered(f.id) THEN Ended(r, view) ELSE hub[r]]
  BY <1>1 DEF StreamIInv, StreamTypeOK, EndStream
<1>3. ASSUME NEW r \in Reqs
      PROVE  /\ hub'[r] \in HubState /\ HubKept(r)
             /\ \/ hub'[r] = hub[r]
                \/ /\ hub[r].phase = "open" /\ hub'[r].phase = "over" /\ hub[r].id = f.id
                   /\ hub'[r].browser = "ended" => hub[r].browser = "ended" \/ view = "ended"
  <2>1. CASE r \in Registered(f.id)
    <3>1. hub'[r] = Ended(r, view) /\ hub[r].phase = "open" /\ hub[r].id = f.id
      BY <1>2, <2>1 DEF Registered, InPhase
    <3>2. Shown(r, view) = "ended" => hub[r].browser = "ended" \/ view = "ended"
      BY DEF Shown
    <3> QED BY <1>2, <3>1, <3>2, EndedTyped DEF HubKept
  <2>2. CASE r \notin Registered(f.id)
    BY <1>2, <2>2 DEF HubKept
  <2> QED BY <2>1, <2>2
<1>4. hub' \in [Reqs -> HubState] /\ \A r \in Reqs : HubQuiet(r)
  BY <1>2, <1>3 DEF HubQuiet, Served
<1>5. ASSUME NEW r \in Reqs \ cut, hub'[r].browser = "ended"
      PROVE  hub[r].browser = "ended" \/ (/\ hub[r].got = Whole(r)
                                          /\ task[r].phase \in {"slot", "done"})
  <2>1. CASE hub'[r] = hub[r]
    BY <1>5, <2>1
  <2>2. CASE /\ hub[r].phase = "open" /\ hub[r].id = f.id /\ view = "ended"
    <3>1. Served(r) /\ f.t = "fin"
      BY <1>1, <2>2 DEF Served
    <3> QED BY <1>1, <2>2, <3>1, FinFindsWhole
  <2> QED BY <1>3, <1>5, <2>1, <2>2
<1>6. \A r \in Reqs \ cut : hub[r].phase = "wait" /\ hub'[r].phase = "acked" =>
                              task[r].phase # "none"
  BY <1>3
<1>7. Head(toProxy).t # "data"
  OBVIOUS
<1> QED BY <1>2, <1>4, <1>5, <1>6, <1>7, HubTakesKeeps

(* Data of a request that waits for its registration does not exist: it was *)
(* granted nothing yet.                                                     *)
LEMMA NoEarlyData ==
  ASSUME StreamIInv, NEW r \in Reqs \ cut, Served(r), hub[r].phase # "open",
         NEW a \in 1 .. Len(toProxy)
  PROVE  toProxy[a] \notin DataOf(r)
<1>1. /\ OnRecord(r) /\ BodyInOrder(r) /\ Account(r) /\ task[r].sent \in Nat
      /\ Numbered(toProxy, DataOf(r), Len(hub[r].got), task[r].sent)
  BY DEF StreamIInv, ProxyInv, UncutInv, Intact, StreamTypeOK, TaskState, BodyInOrder
<1>2. hub[r].grants = 0 /\ hub[r].got = <<>>
  BY <1>1 DEF OnRecord, Served
<1>3. task[r].sent = 0 /\ Len(hub[r].got) = 0
  BY <1>1, <1>2 DEF Account
<1>4. Numbered(toProxy, DataOf(r), 0, 0) /\ toProxy[a] \in Frame
  BY <1>1, <1>3 DEF StreamIInv, StreamTypeOK
<1>5. ~(0 < toProxy[a].k /\ toProxy[a].k <= 0)
  BY <1>4 DEF Frame
<1> QED BY <1>4, <1>5 DEF Numbered

LEMMA DropDataKeeps ==
  ASSUME StreamIInv, toProxy # <<>>, toProxy' = Tail(toProxy),
         Registered(Head(toProxy).id) = {}, UNCHANGED <<hub, toClient>>,
         UNCHANGED <<nextId, clientVars, channelVars>>
  PROVE  StreamIInv'
<1>1. hub' \in [Reqs -> HubState] /\ \A r \in Reqs : HubQuiet(r)
  BY DEF StreamIInv, StreamTypeOK, HubQuiet, HubKept
<1>2. ASSUME NEW r \in Reqs \ cut, Served(r)'
      PROVE  Head(toProxy).t # "data" \/ Head(toProxy).id # hub[r].id
  <2>1. CASE hub[r].phase = "open"
    BY <2>1 DEF Registered, InPhase
  <2>2. CASE hub[r].phase # "open"
    <3>1. Served(r)
      BY <1>2 DEF Served
    <3>2. toProxy[1] \notin DataOf(r) /\ toProxy[1] = Head(toProxy) /\ Head(toProxy) \in Frame
      BY <2>2, <3>1, HeadOfProxy, NoEarlyData
    <3> QED BY <3>2 DEF DataOf
  <2> QED BY <2>1, <2>2
<1> QED BY <1>1, <1>2, HubTakesKeeps

(* The account of a request that is granted one window more.                *)
LEMMA GrantAccount ==
  ASSUME StreamIInv, StreamTypeOK', clientVars' = clientVars, cut' = cut, up,
         NEW r \in Reqs \ cut, hub'[r].id = hub[r].id, hub'[r].grants = hub[r].grants + 1,
         NEW f \in Frame, f \in CreditOf(r), f.k = hub[r].grants + 1,
         toClient' = toClient \o <<f>>
  PROVE  Account(r)'
<1> DEFINE g == hub[r].grants
<1>1. /\ Account(r) /\ g \in Nat /\ BytesSent(r)' = BytesSent(r)
      /\ task' = task /\ streams' = streams /\ toClient \in Seq(Frame)
      /\ CreditOf(r)' = CreditOf(r) /\ (InHand(r)' => InHand(r))
  BY DEF StreamIInv, UncutInv, Intact, StreamTypeOK, HubState, BytesSent, clientVars,
         CreditOf, InHand
<1>2. BytesSent(r) \in Nat /\ Window \in Nat
  <2>1. /\ task[r].body \in Seq(Nat) /\ task[r].sent \in 0 .. Len(task[r].body)
    BY PieceTyped DEF StreamIInv
  <2> QED BY <2>1, BytesStep, StreamAssumption DEF BytesSent
<1>3. BytesSent(r) <= (g + 1) * Window
  <2>1. BytesSent(r) <= g * Window
    BY <1>1 DEF Account
  <2>2. g * Window \in Nat /\ (g + 1) * Window = g * Window + Window
    BY <1>1, <1>2
  <2> HIDE DEF g
  <2> QED BY <1>2, <2>1, <2>2
<1>4. ASSUME NEW c \in Nat, Arrived(r, c) PROVE Arrived(r, c)'
  <2>1. /\ BytesSent(r) + task[r].credit = c * Window /\ c <= g
        /\ Numbered(toClient, CreditOf(r), c, g)
    BY <1>4 DEF Arrived
  <2>2. Numbered(toClient \o <<f>>, CreditOf(r), c, g + 1)
    <3> HIDE DEF g
    <3> QED BY <1>1, <2>1, NumberedPut DEF g
  <2>3. c <= g + 1
    <3> HIDE DEF g
    <3> QED BY <1>1, <2>1
  <2> QED BY <1>1, <2>1, <2>2, <2>3 DEF Arrived
<1>5. g + 1 # 0
  BY <1>1
<1> HIDE DEF g
<1>6. hub'[r].grants = g + 1
  BY DEF g
<1>7. InHand(r)' => /\ \A i \in Ids : i = hub'[r].id => streams'[i] = r
                    /\ \E c \in Nat : Arrived(r, c)'
  BY <1>1, <1>4 DEF Account
<1> QED BY <1>1, <1>3, <1>5, <1>6, <1>7 DEF Account

LEMMA RegisterKeeps ==
  ASSUME StreamIInv, NEW r \in Reqs, Register(r)
  PROVE  StreamIInv'
<1>1. /\ StreamTypeOK'
      /\ \A q \in Reqs : q # r => hub'[q] = hub[q]
      /\ hub[r].phase = "acked" /\ hub'[r].phase = "open" /\ hub'[r].grants = 1
      /\ hub'[r].browser \in {"headers", hub[r].browser}
      /\ hub'[r].id = hub[r].id /\ hub'[r].out = hub[r].out
      /\ hub'[r].lastGranted = hub[r].lastGranted /\ hub'[r].got = hub[r].got
      /\ toClient' = Sent(toClient, <<WindowMsg(r, 1)>>)
      /\ UNCHANGED <<nextId, toProxy, clientVars, channelVars>>
  BY RegisterTyped
<1>2. PICK w \in Frame : /\ w = WindowMsg(r, 1) /\ w.t = "window" /\ w.id = hub[r].id
                         /\ w.req = r /\ w.k = 1 /\ w.n = Window
  BY <1>1, WindowTyped
<1>3. PICK fs \in Seq(Frame) : fs = <<w>> /\ \A a \in 1 .. Len(fs) : fs[a] = w
  <2>1. <<w>> \in Seq(Frame) /\ \A a \in 1 .. Len(<<w>>) : <<w>>[a] = w
    OBVIOUS
  <2> QED BY <2>1
<1>4. toClient' = Sent(toClient, fs)
  BY <1>1, <1>2, <1>3
<1>5. /\ OnRecord(r) /\ Served(r) /\ hub[r].grants = 0 /\ hub[r].out = 0
      /\ hub[r].lastGranted = 0 /\ hub[r].got = <<>> /\ hub[r].id < nextId
      /\ hub[r].browser # "ended"
  BY <1>1 DEF StreamIInv, ProxyInv, OnRecord, Served, IdsInv, Current
<1>6. HubStays
  <2>1. ASSUME NEW q \in Reqs
        PROVE  /\ hub'[q].id = hub[q].id
               /\ hub'[q].phase = "idle" <=> hub[q].phase = "idle"
               /\ Served(q)' => Served(q)
               /\ hub[q].grants <= hub'[q].grants
    <3>1. CASE q = r
      BY <1>1, <1>5, <3>1
    <3>2. CASE q # r
      <4>1. hub'[q] = hub[q] /\ hub[q].grants \in Nat
        BY <1>1, <3>2 DEF StreamIInv, StreamTypeOK, HubState
      <4> QED BY <4>1 DEF Served
    <3> QED BY <3>1, <3>2
  <2> QED BY <1>1, <2>1 DEF HubStays
<1>7. \A a \in 1 .. Len(fs) : Told(fs[a])
  BY <1>1, <1>2, <1>3, <1>5 DEF Told, CreditFor
<1>8. \A q \in Reqs : q # r => HubQuiet(q)
  BY <1>1 DEF HubQuiet, HubKept
<1>9. ASSUME NEW q \in Reqs PROVE OnRecord(q)'
  <2>1. CASE q = r
    BY <1>1, <1>5, <2>1 DEF OnRecord
  <2>2. CASE q # r
    BY <1>1, <1>8, <2>2, HubQuietRecord
  <2> QED BY <2>1, <2>2
<1>10. ASSUME NEW q \in Reqs \ cut, q # r PROVE Intact(q)'
  <2>1. up' = up /\ cut \subseteq cut' /\ q \notin cut' /\ clientVars' = clientVars
        /\ HubQuiet(q) /\ hub'[q] = hub[q]
    BY <1>1, <1>8, <1>10 DEF channelVars
  <2>2. \A a \in 1 .. Len(fs) : fs[a].t = "window" => fs[a].req # q
    BY <1>2, <1>3, <1>10
  <2>3. PICK v \in Seq(Frame) : v = toProxy' /\ v = toProxy
    BY <1>1 DEF StreamIInv, StreamTypeOK
  <2> QED BY <1>1, <1>4, <2>1, <2>2, <2>3, HubQuietIntact
<1>11. ASSUME r \notin cut PROVE Intact(r)'
  <2>1. /\ Intact(r) /\ cut' = cut /\ task' = task /\ streams' = streams /\ toProxy' = toProxy
        /\ up' = up /\ clientVars' = clientVars
    BY <1>1, <1>11 DEF StreamIInv, UncutInv, clientVars, channelVars
  <2>2. task[r].phase # "none" /\ up
    BY <1>1, <1>5, <2>1 DEF Intact, Unknown
  <2>3. Unknown(r)'
    BY <2>1, <2>2 DEF Unknown
  <2>4. OwnId(r)'
    <3>1. \A q \in Reqs : Sends(q, hub[r].id)' => q = r
      BY <1>1, <1>5, <2>1 DEF Sends, Intact, OwnId
    <3> QED BY <1>1, <1>5, <2>1, <3>1 DEF Intact, OwnId
  <2>5. BodyInOrder(r)'
    <3>1. BodyInOrder(r) /\ DataOf(r)' = DataOf(r)
      BY <1>1, <2>1 DEF Intact, DataOf
    <3> QED BY <1>1, <1>5, <2>1, <3>1 DEF BodyInOrder
  <2>6. Account(r)'
    <3>1. w \in CreditOf(r) /\ hub'[r].grants = hub[r].grants + 1 /\ w.k = hub[r].grants + 1
      BY <1>1, <1>2, <1>5 DEF CreditOf
    <3>2. toClient' = toClient \o <<w>>
      BY <1>3, <1>4, <2>2 DEF Sent
    <3> QED BY <1>1, <1>11, <2>1, <2>2, <3>1, <3>2, GrantAccount
  <2>7. Renewed(r)'
    <3>1. Window \in Nat \ {0}
      BY StreamAssumption
    <3> QED BY <1>1, <1>5, <3>1 DEF Renewed
  <2>8. EndedWhole(r)'
    BY <1>1, <1>5 DEF EndedWhole
  <2> QED BY <2>3, <2>4, <2>5, <2>6, <2>7, <2>8 DEF Intact
<1>12. \A q \in Reqs \ cut : Intact(q)'
  BY <1>10, <1>11
<1> QED BY <1>1, <1>4, <1>6, <1>7, <1>9, <1>12, HubStaysInv

(* The hub hands a piece to the browser and renews the credit when half a   *)
(* window has come.                                                         *)
LEMMA PayloadTyped ==
  ASSUME StreamIInv, toProxy # <<>>, toProxy' = Tail(toProxy),
         Head(toProxy).t = "data", OnPayload(Head(toProxy)),
         UNCHANGED <<nextId, clientVars, channelVars>>
  PROVE  \E r \in Registered(Head(toProxy).id), w \in Frame, out \in Nat, renew \in BOOLEAN :
           /\ r \in Reqs /\ hub[r].phase = "open" /\ hub[r].id = Head(toProxy).id
           /\ StreamTypeOK'
           /\ out = hub[r].out + Head(toProxy).n
           /\ renew <=> 2 * (out - hub[r].lastGranted) >= Window
           /\ \A q \in Reqs : q # r => hub'[q] = hub[q]
           /\ hub'[r].phase = "open" /\ hub'[r].browser = hub[r].browser
           /\ hub'[r].id = hub[r].id /\ hub'[r].out = out
           /\ hub'[r].got = Append(hub[r].got, <<Head(toProxy).req, Head(toProxy).k>>)
           /\ hub'[r].lastGranted = IF renew THEN out ELSE hub[r].lastGranted
           /\ hub'[r].grants = IF renew THEN hub[r].grants + 1 ELSE hub[r].grants
           /\ w.t = "window" /\ w.id = hub[r].id /\ w.req = r
           /\ w.k = hub[r].grants + 1 /\ w.n = Window
           /\ toClient' = IF renew THEN Sent(toClient, <<w>>) ELSE toClient
<1>1. PICK f \in Frame : f = Head(toProxy)
  BY HeadOfProxy
<1>2. f.req \in Reqs /\ f.t = "data" /\ StreamTypeOK
  <2>1. f = toProxy[1] /\ 1 \in 1 .. Len(toProxy)
    BY <1>1, HeadOfProxy
  <2> QED BY <1>1, <2>1 DEF StreamIInv, ToProxyInv
<1>3. PICK r \in Registered(f.id) :
        LET out   == hub[r].out + f.n
            renew == Renews(out - hub[r].lastGranted)
        IN /\ hub' = [hub EXCEPT ![r].out = out,
                              ![r].got = Append(@, <<f.req, f.k>>),
                              ![r].lastGranted = IF renew THEN out ELSE @,
                              ![r].grants = IF renew THEN @ + 1 ELSE @]
           /\ toClient' = IF renew THEN Sent(toClient, <<WindowMsg(r, hub[r].grants + 1)>>)
                          ELSE toClient
  BY <1>1 DEF OnPayload
<1>4. r \in Reqs /\ hub[r].phase = "open" /\ hub[r].id = f.id /\ hub[r] \in HubState
  BY <1>2, <1>3 DEF Registered, InPhase, StreamTypeOK
<1>5. PICK out : out = hub[r].out + f.n
  OBVIOUS
<1>6. PICK renew \in BOOLEAN : renew <=> 2 * (out - hub[r].lastGranted) >= Window
  OBVIOUS
<1>7. Renews(out - hub[r].lastGranted) <=> renew
  BY <1>6 DEF Renews
<1>8. out \in Nat /\ hub[r].grants + 1 \in Nat /\ <<f.req, f.k>> \in Reqs \X Nat
  BY <1>1, <1>2, <1>4, <1>5 DEF HubState, Frame
<1>9. PICK w \in Frame : /\ w = WindowMsg(r, hub[r].grants + 1)
                         /\ w.t = "window" /\ w.id = hub[r].id /\ w.req = r
                         /\ w.k = hub[r].grants + 1 /\ w.n = Window
  <2>1. hub[r].phase # "idle"
    BY <1>4
  <2> QED BY <1>4, <1>8, <2>1, WindowTyped
<1>10. /\ hub' = [hub EXCEPT ![r].out = out,
                              ![r].got = Append(@, <<f.req, f.k>>),
                              ![r].lastGranted = IF renew THEN out ELSE @,
                              ![r].grants = IF renew THEN @ + 1 ELSE @]
       /\ toClient' = IF renew THEN Sent(toClient, <<w>>) ELSE toClient
  BY <1>3, <1>5, <1>7, <1>9
<1>11. PICK got, lg, g : /\ got = Append(hub[r].got, <<f.req, f.k>>)
                         /\ lg = IF renew THEN out ELSE hub[r].lastGranted
                         /\ g = IF renew THEN hub[r].grants + 1 ELSE hub[r].grants
  OBVIOUS
<1>12. got \in Seq(Reqs \X Nat) /\ lg \in Nat /\ g \in Nat
  <2>1. hub[r].got \in Seq(Reqs \X Nat)
    BY <1>4 DEF HubState
  <2>2. got \in Seq(Reqs \X Nat)
    BY <1>8, <1>11, <2>1
  <2> QED BY <1>4, <1>8, <1>11, <2>2 DEF HubState
<1>13. hub' = [hub EXCEPT ![r].out = out, ![r].got = got, ![r].lastGranted = lg,
                          ![r].grants = g]
  BY <1>2, <1>4, <1>10, <1>11 DEF StreamTypeOK, HubState
<1>14. /\ hub' \in [Reqs -> HubState]
       /\ \A q \in Reqs : q # r => hub'[q] = hub[q]
       /\ hub'[r].phase = "open" /\ hub'[r].browser = hub[r].browser
       /\ hub'[r].id = hub[r].id /\ hub'[r].out = out
       /\ hub'[r].got = got /\ hub'[r].lastGranted = lg /\ hub'[r].grants = g
  BY <1>2, <1>4, <1>8, <1>12, <1>13 DEF StreamTypeOK, HubState
<1>15. StreamTypeOK'
  <2>1. <<w>> \in Seq(Frame)
    OBVIOUS
  <2>3. toProxy' \in Seq(Frame)
    BY HeadOfProxy
  <2>2. toClient' \in Seq(Frame)
    BY <1>2, <1>10, <2>1, SentTyped DEF StreamTypeOK
  <2> QED BY <1>2, <1>14, <2>3, <2>2, HubTypes DEF StreamTypeOK, channelVars
<1>16. r \in Registered(Head(toProxy).id)
  BY <1>1, <1>3
<1>17. /\ StreamTypeOK'
       /\ out = hub[r].out + Head(toProxy).n
       /\ hub[r].phase = "open" /\ hub[r].id = Head(toProxy).id
       /\ hub'[r].got = Append(hub[r].got, <<Head(toProxy).req, Head(toProxy).k>>)
       /\ hub'[r].lastGranted = IF renew THEN out ELSE hub[r].lastGranted
       /\ hub'[r].grants = IF renew THEN hub[r].grants + 1 ELSE hub[r].grants
  BY <1>1, <1>4, <1>5, <1>11, <1>14, <1>15
<1>18. /\ \A q \in Reqs : q # r => hub'[q] = hub[q]
       /\ hub'[r].phase = "open" /\ hub'[r].browser = hub[r].browser
       /\ hub'[r].id = hub[r].id /\ hub'[r].out = out
       /\ w.t = "window" /\ w.id = hub[r].id /\ w.req = r
       /\ w.k = hub[r].grants + 1 /\ w.n = Window
       /\ toClient' = IF renew THEN Sent(toClient, <<w>>) ELSE toClient
  BY <1>9, <1>10, <1>14
<1> QED BY <1>4, <1>6, <1>8, <1>9, <1>16, <1>17, <1>18

(* The next piece of a response follows what the browser has.               *)
LEMMA NextPiece ==
  ASSUME StreamIInv, toProxy # <<>>, Head(toProxy).t = "data",
         NEW r \in Reqs \ cut, Served(r), hub[r].id = Head(toProxy).id
  PROVE  LET n == Len(hub[r].got) IN
         /\ n \in Nat /\ task[r].sent \in Nat /\ n + 1 <= task[r].sent
         /\ Head(toProxy).req = r /\ Head(toProxy).k = n + 1
         /\ Numbered(Tail(toProxy), DataOf(r), n + 1, task[r].sent)
         /\ FinLast(Tail(toProxy), hub[r].id)
         /\ n + 1 \in 1 .. Len(task[r].body) /\ task[r].body \in Seq(Nat)
         /\ Head(toProxy).n = task[r].body[n + 1]
         /\ hub[r].out + Head(toProxy).n = BytesOf(task[r].body)[n + 1]
         /\ BytesOf(task[r].body)[n + 1] <= BytesSent(r)
         /\ up /\ task[r].phase # "none"
<1> DEFINE n == Len(hub[r].got)
           m == task[r].sent
           b == task[r].body
<1>1. /\ BodyInOrder(r) /\ OwnId(r) /\ toProxy \in Seq(Frame) /\ n \in Nat
      /\ b \in Seq(Nat) /\ m \in Nat /\ m \in 0 .. Len(b)
  BY PieceTyped DEF StreamIInv, UncutInv, Intact, StreamTypeOK, HubState
<1>2. up /\ 1 \in 1 .. Len(toProxy) /\ toProxy[1] = Head(toProxy) /\ Head(toProxy) \in Frame
  BY <1>1, TakeFrame DEF StreamIInv, ChannelInv
<1>3. Head(toProxy) \in DataOf(r)
  BY <1>2 DEF DataOf
<1>4. /\ Numbered(toProxy, DataOf(r), n, m) /\ FinLast(toProxy, hub[r].id)
      /\ Head(toProxy).req = r /\ Head(toProxy).n = b[Head(toProxy).k]
      /\ hub[r].out = BytesOf(b)[n]
  BY <1>1, <1>2, <1>3 DEF BodyInOrder
<1>5. task[r].phase # "none"
  BY <1>1, <1>2 DEF OwnId
<1> HIDE DEF n, m, b
<1>6. /\ Head(toProxy).k = n + 1 /\ n + 1 <= m
      /\ Numbered(Tail(toProxy), DataOf(r), n + 1, m)
  BY <1>1, <1>3, <1>4, NumberedTakeIn
<1>7. FinLast(Tail(toProxy), hub[r].id)
  BY <1>1, <1>4, FinLastTake
<1>8. n + 1 \in 1 .. Len(b) /\ n + 1 \in 0 .. Len(b) /\ (n + 1) - 1 = n
  <2>1. n \in Nat /\ m \in Nat /\ m <= Len(b) /\ n + 1 <= m
    BY <1>1, <1>6
  <2>2. Len(b) \in Nat
    BY <1>1
  <2> QED BY <2>1, <2>2
<1>9. BytesOf(b)[n + 1] = BytesOf(b)[n] + b[n + 1]
  BY <1>1, <1>8, BytesStep
<1>10. BytesOf(b)[n + 1] <= BytesOf(b)[m]
  BY <1>1, <1>6, <1>8, BytesGrow
<1>11. BytesOf(b)[m] = BytesSent(r)
  BY DEF b, m, BytesSent
<1> QED BY <1>1, <1>2, <1>4, <1>5, <1>6, <1>7, <1>8, <1>9, <1>10, <1>11 DEF n, m, b

LEMMA SeqTable ==
  ASSUME NEW S, NEW s \in Seq(S)
  PROVE  s = [k \in 1 .. Len(s) |-> s[k]]
<1>1. s \in [1 .. Len(s) -> S]
  OBVIOUS
<1> QED BY <1>1

LEMMA OnPayloadKeeps ==
  ASSUME StreamIInv, toProxy # <<>>, toProxy' = Tail(toProxy),
         Head(toProxy).t = "data", OnPayload(Head(toProxy)),
         UNCHANGED <<nextId, clientVars, channelVars>>
  PROVE  StreamIInv'
<1>1. PICK r \in Registered(Head(toProxy).id), w \in Frame, out \in Nat, renew \in BOOLEAN :
        /\ r \in Reqs /\ hub[r].phase = "open" /\ hub[r].id = Head(toProxy).id
        /\ StreamTypeOK'
        /\ out = hub[r].out + Head(toProxy).n
        /\ renew <=> 2 * (out - hub[r].lastGranted) >= Window
        /\ \A q \in Reqs : q # r => hub'[q] = hub[q]
        /\ hub'[r].phase = "open" /\ hub'[r].browser = hub[r].browser
        /\ hub'[r].id = hub[r].id /\ hub'[r].out = out
        /\ hub'[r].got = Append(hub[r].got, <<Head(toProxy).req, Head(toProxy).k>>)
        /\ hub'[r].lastGranted = IF renew THEN out ELSE hub[r].lastGranted
        /\ hub'[r].grants = IF renew THEN hub[r].grants + 1 ELSE hub[r].grants
        /\ w.t = "window" /\ w.id = hub[r].id /\ w.req = r
        /\ w.k = hub[r].grants + 1 /\ w.n = Window
        /\ toClient' = IF renew THEN Sent(toClient, <<w>>) ELSE toClient
  BY PayloadTyped
<1>2. PICK fs \in Seq(Frame) : /\ \A a \in 1 .. Len(fs) : fs[a] = w /\ renew
                               /\ toClient' = Sent(toClient, fs)
                               /\ renew => fs = <<w>>
  <2>1. <<w>> \in Seq(Frame) /\ \A a \in 1 .. Len(<<w>>) : <<w>>[a] = w
    OBVIOUS
  <2>2. CASE renew
    BY <1>1, <2>1, <2>2
  <2>3. CASE ~renew
    <3>1. toClient' = Sent(toClient, <<>>)
      BY <1>1, <2>3, NoFrames
    <3> QED BY <2>3, <3>1, NoFrames
  <2> QED BY <2>2, <2>3
<1>3. /\ OnRecord(r) /\ Served(r) /\ Current(r) /\ hub[r].id < nextId
      /\ hub[r].grants \in Nat /\ hub[r].lastGranted \in Nat /\ hub[r].out \in Nat
      /\ hub[r].browser # "ended" /\ hub[r].got \in Seq(Reqs \X Nat)
  BY <1>1 DEF StreamIInv, ProxyInv, OnRecord, Served, IdsInv, Current, StreamTypeOK, HubState
<1>4. /\ hub[r].grants <= hub'[r].grants /\ hub[r].grants + 1 > 0
      /\ renew => hub'[r].grants = hub[r].grants + 1
  BY <1>1, <1>3
<1>5. HubStays
  <2>1. ASSUME NEW q \in Reqs
        PROVE  /\ hub'[q].id = hub[q].id
               /\ hub'[q].phase = "idle" <=> hub[q].phase = "idle"
               /\ Served(q)' => Served(q)
               /\ hub[q].grants <= hub'[q].grants
    <3>1. CASE q = r
      BY <1>1, <1>3, <1>4, <3>1
    <3>2. CASE q # r
      <4>1. hub'[q] = hub[q] /\ hub[q].grants \in Nat
        BY <1>1, <3>2 DEF StreamIInv, StreamTypeOK, HubState
      <4> QED BY <4>1 DEF Served
    <3> QED BY <3>1, <3>2
  <2> QED BY <1>1, <2>1 DEF HubStays
<1>6. \A a \in 1 .. Len(fs) : Told(fs[a])
  <2>1. ASSUME renew PROVE Told(w)
    <3>1. hub[r].grants + 1 <= hub[r].grants + 1
      BY <1>3
    <3> QED BY <1>1, <1>3, <1>4, <2>1, <3>1 DEF Told, CreditFor
  <2> QED BY <1>2, <2>1
<1>7. \A q \in Reqs : q # r => HubQuiet(q)
  BY <1>1 DEF HubQuiet, HubKept
<1>8. ASSUME NEW q \in Reqs PROVE OnRecord(q)'
  <2>1. CASE q = r
    <3>1. hub'[r].grants \in Nat /\ hub[r].grants > 0
      BY <1>1, <1>3 DEF OnRecord, StreamTypeOK, HubState
    <3>2. hub'[r].grants > 0
      BY <1>3, <1>4, <3>1
    <3> QED BY <1>1, <1>3, <3>2, <2>1 DEF OnRecord
  <2>2. CASE q # r
    BY <1>1, <1>7, <2>2, HubQuietRecord
  <2> QED BY <2>1, <2>2
<1>9. ASSUME NEW q \in Reqs \ cut, q # r PROVE Intact(q)'
  <2>1. up' = up /\ cut \subseteq cut' /\ q \notin cut' /\ clientVars' = clientVars
        /\ HubQuiet(q) /\ hub'[q] = hub[q]
    BY <1>1, <1>7, <1>9 DEF channelVars
  <2>2. \A a \in 1 .. Len(fs) : fs[a].t = "window" => fs[a].req # q
    BY <1>1, <1>2, <1>9
  <2>3. PICK v \in Seq(Frame) : v = toProxy' /\ v = Tail(toProxy)
    BY HeadOfProxy
  <2>4. Served(q)' => Head(toProxy).t # "data" \/ Head(toProxy).id # hub[q].id
    BY <1>1, <1>3, <1>5, <1>9 DEF StreamIInv, IdsInv, Current, HubStays
  <2>5. /\ (hub[q].phase = "wait" /\ hub'[q].phase = "acked" => task[q].phase # "none")
        /\ (hub'[q].browser = "ended" => hub[q].browser = "ended")
    BY <2>1
  <2> QED BY <1>1, <1>2, <2>1, <2>2, <2>3, <2>4, <2>5, HubQuietIntact
<1>10. ASSUME r \notin cut PROVE Intact(r)'
  <2> DEFINE n == Len(hub[r].got)
  <2>1. /\ r \in Reqs \ cut /\ n \in Nat /\ task[r].sent \in Nat /\ n + 1 <= task[r].sent
        /\ Head(toProxy).req = r /\ Head(toProxy).k = n + 1
        /\ Numbered(Tail(toProxy), DataOf(r), n + 1, task[r].sent)
        /\ FinLast(Tail(toProxy), hub[r].id)
        /\ out = BytesOf(task[r].body)[n + 1]
        /\ BytesOf(task[r].body)[n + 1] <= BytesSent(r)
        /\ up /\ task[r].phase # "none"
    BY <1>1, <1>3, <1>10, NextPiece
  <2>2. /\ Intact(r) /\ cut' = cut /\ task' = task /\ streams' = streams /\ up' = up
        /\ clientVars' = clientVars /\ toProxy \in Seq(Frame)
    BY <2>1 DEF StreamIInv, UncutInv, clientVars, channelVars, StreamTypeOK
  <2>3. Unknown(r)'
    BY <2>1, <2>2 DEF Unknown
  <2>4. \A a \in 1 .. Len(Tail(toProxy)) :
          \E b \in 1 .. Len(toProxy) : Tail(toProxy)[a] = toProxy[b]
    BY <2>2, TakeFrame
  <2>5. OwnId(r)'
    <3>1. \A q \in Reqs : Sends(q, hub[r].id)' => q = r
      BY <1>1, <1>3, <2>2 DEF Sends, Intact, OwnId
    <3> QED BY <1>1, <1>3, <2>1, <2>2, <3>1 DEF Intact, OwnId
  <2>6. BodyInOrder(r)'
    <3>1. BodyInOrder(r) /\ DataOf(r)' = DataOf(r)
      BY <1>1, <2>2 DEF Intact, DataOf
    <3>2. hub[r].got = [k \in 1 .. n |-> <<r, k>>]
      BY <1>3, <3>1 DEF BodyInOrder
    <3>3. PICK got : got = hub'[r].got
      OBVIOUS
    <3>4. got = Append(hub[r].got, <<r, n + 1>>) /\ Len(got) = n + 1
      BY <1>1, <1>3, <2>1, <3>3
    <3>5. got = [k \in 1 .. Len(got) |-> <<r, k>>]
      <4>1. got \in Seq(Reqs \X Nat) /\ got = [k \in 1 .. Len(got) |-> got[k]]
        <5>1. got \in Seq(Reqs \X Nat)
          BY <1>1, <3>3 DEF StreamTypeOK, HubState
        <5> QED BY <5>1, SeqTable
      <4>2. ASSUME NEW k \in 1 .. Len(got) PROVE got[k] = <<r, k>>
        <5>1. k \in 1 .. n \/ k = n + 1
          BY <2>1, <3>4, <4>2
        <5>2. CASE k = n + 1
          BY <1>3, <3>4, <5>2
        <5>3. CASE k \in 1 .. n
          <6>1. got[k] = hub[r].got[k]
            BY <1>3, <3>4, <5>3
          <6> QED
            <7> HIDE DEF n
            <7> QED BY <3>2, <5>3, <6>1
        <5> QED BY <5>1, <5>2, <5>3
      <4> QED BY <4>1, <4>2
    <3>6. PICK v \in Seq(Frame) : v = toProxy' /\ v = Tail(toProxy)
      BY HeadOfProxy
    <3> HIDE DEF n
    <3>7. /\ Numbered(v, DataOf(r), Len(got), task[r].sent) /\ FinLast(v, hub[r].id)
          /\ out = BytesOf(task[r].body)[Len(got)] /\ Len(got) <= task[r].sent
      BY <2>1, <3>4, <3>6
    <3>8. \A a \in 1 .. Len(v) : v[a] \in DataOf(r) =>
            v[a].req = r /\ v[a].n = task[r].body[v[a].k]
      BY <1>3, <2>4, <3>1, <3>6 DEF BodyInOrder
    <3>9. \A a \in 1 .. Len(v) : v[a].id = hub[r].id /\ v[a].t = "fin" =>
            task[r].phase \in {"slot", "done"} /\ task[r].sent = Len(task[r].body)
      BY <1>3, <2>4, <3>1, <3>6 DEF BodyInOrder
    <3>10. /\ hub'[r].id = hub[r].id /\ hub'[r].out = out /\ hub'[r].got = got
           /\ toProxy' = v /\ task' = task
      BY <1>1, <2>2, <3>3, <3>6
    <3> QED BY <3>1, <3>5, <3>7, <3>8, <3>9, <3>10 DEF BodyInOrder
  <2>7. Account(r)'
    <3>1. CASE renew
      <4>1. w \in CreditOf(r) /\ w.k = hub[r].grants + 1
        BY <1>1 DEF CreditOf
      <4>2. toClient' = toClient \o <<w>>
        BY <1>2, <2>1, <3>1 DEF Sent
      <4> QED BY <1>1, <1>4, <2>1, <2>2, <3>1, <4>1, <4>2, GrantAccount
    <3>2. CASE ~renew
      <4>1. toClient' = toClient /\ hub'[r].grants = hub[r].grants
        BY <1>1, <3>2
      <4>2. Account(r) /\ BytesSent(r)' = BytesSent(r) /\ CreditOf(r)' = CreditOf(r)
            /\ (InHand(r)' => InHand(r))
        BY <2>2 DEF Intact, BytesSent, CreditOf, InHand
      <4>3. \A c \in Nat : Arrived(r, c) => Arrived(r, c)'
        BY <2>2, <4>1, <4>2 DEF Arrived
      <4> QED BY <1>1, <2>2, <4>1, <4>2, <4>3 DEF Account
    <3> QED BY <3>1, <3>2
  <2>8. Renewed(r)'
    <3> HIDE DEF n
    <3>1. Window \in Nat \ {0} /\ Renewed(r) /\ Account(r)
          /\ hub[r].grants > 0
      BY <1>1, <1>3, <2>2, StreamAssumption DEF Intact, OnRecord
    <3>2. BytesSent(r) <= hub[r].grants * Window /\ BytesSent(r) \in Nat
      <4>1. /\ task[r].body \in Seq(Nat) /\ task[r].sent \in 0 .. Len(task[r].body)
        BY <1>1, PieceTyped DEF StreamIInv
      <4> QED BY <3>1, <4>1, BytesStep DEF Account, BytesSent
    <3>3. out <= hub[r].grants * Window
      <4>1. out <= BytesSent(r)
        BY <2>1
      <4>2. hub[r].grants * Window \in Nat
        BY <1>3, <3>1
      <4> QED BY <3>2, <4>1, <4>2
    <3>4. CASE renew
      <4>1. hub'[r].lastGranted = out /\ hub'[r].out = out /\ hub'[r].grants = hub[r].grants + 1
        BY <1>1, <3>4
      <4>2. (hub[r].grants + 1) - 1 = hub[r].grants /\ out <= out /\ 2 * (out - out) < Window
        BY <1>3, <3>1
      <4> QED BY <3>3, <4>1, <4>2 DEF Renewed
    <3>5. CASE ~renew
      <4>1. /\ hub'[r].lastGranted = hub[r].lastGranted /\ hub'[r].out = out
            /\ hub'[r].grants = hub[r].grants
        BY <1>1, <3>5
      <4>2. /\ hub[r].lastGranted <= (hub[r].grants - 1) * Window
            /\ hub[r].lastGranted <= hub[r].out
        BY <1>1, <3>1 DEF Renewed
      <4>3. 2 * (out - hub[r].lastGranted) < Window
        BY <1>1, <1>3, <3>1, <3>5
      <4>4. Head(toProxy).n \in Nat
        BY HeadOfProxy DEF Frame
      <4>5. hub[r].lastGranted <= out
        BY <1>1, <1>3, <4>2, <4>4
      <4> QED BY <4>1, <4>2, <4>3, <4>5 DEF Renewed
    <3> QED BY <3>4, <3>5
  <2>9. EndedWhole(r)'
    BY <1>1, <1>3 DEF EndedWhole
  <2> QED BY <2>3, <2>5, <2>6, <2>7, <2>8, <2>9 DEF Intact
<1>11. \A q \in Reqs \ cut : Intact(q)'
  BY <1>9, <1>10
<1> QED BY <1>1, <1>2, <1>5, <1>6, <1>8, <1>11, HubStaysInv

LEMMA HubReceiveKeeps ==
  ASSUME StreamIInv, HubReceive
  PROVE  StreamIInv'
<1>1. /\ toProxy # <<>> /\ toProxy' = Tail(toProxy)
      /\ UNCHANGED <<nextId, clientVars, channelVars>>
  BY DEF HubReceive
<1>2. CASE Head(toProxy).t = "ack" /\ OnOpenAck(Head(toProxy))
  BY <1>1, <1>2, OnOpenAckKeeps
<1>3. CASE Head(toProxy).t = "data" /\ OnPayload(Head(toProxy))
  BY <1>1, <1>3, OnPayloadKeeps
<1>4. CASE Head(toProxy).t = "fin" /\ EndStream(Head(toProxy), "ended")
  BY <1>1, <1>4, EndStreamKeeps
<1>5. CASE Head(toProxy).t \in {"rst", "close"} /\ EndStream(Head(toProxy), "broken")
  BY <1>1, <1>5, EndStreamKeeps
<1>6. CASE Registered(Head(toProxy).id) = {} /\ UNCHANGED <<hub, toClient>>
  BY <1>1, <1>6, DropDataKeeps
<1> QED BY <1>2, <1>3, <1>4, <1>5, <1>6 DEF HubReceive

(* A new request: its id is beyond those in use.                            *)
LEMMA StartIds ==
  ASSUME StreamIInv, NEW r \in Reqs, NEW kind \in Kinds, StartHttpStream(r, kind)
  PROVE  /\ \A q \in Reqs : q # r => (Current(q)' => Current(q))
         /\ IdsInv' /\ ProxyInv' /\ ClientInv'
<1>1. /\ StreamTypeOK' /\ hub[r].phase = "idle" /\ nextId \in Ids /\ nextId' = nextId + 1
      /\ \A q \in Reqs : q # r => hub'[q] = hub[q]
      /\ hub'[r].phase \in {"wait", "over"} /\ hub'[r].id = nextId
      /\ hub'[r].out = hub[r].out /\ hub'[r].lastGranted = hub[r].lastGranted
      /\ hub'[r].grants = hub[r].grants /\ hub'[r].got = hub[r].got
      /\ hub'[r].browser = hub[r].browser
      /\ cut' = (IF InUse(nextId) THEN cut \cup {r} ELSE cut)
      /\ UNCHANGED <<up, losses, toProxy, clientVars>>
  BY StartTyped
<1>2. task' = task /\ streams' = streams /\ task[r].phase = "none" /\ OnRecord(r)
      /\ hub[r].browser # "ended"
  BY <1>1 DEF clientVars, StreamIInv, ProxyInv, OnRecord
<1>3. ASSUME NEW q \in Reqs, q # r, Current(q)' PROVE Current(q)
  BY <1>1, <1>2, <1>3 DEF Current, Served, InHand
<1>4. nextId \in Nat /\ 0 < nextId /\ nextId < nextId + 1
  BY <1>1 DEF Ids
<1>5. \A q \in Reqs : Current(q) => 0 < hub[q].id /\ hub[q].id < nextId /\ hub[q].id \in Nat
  BY DEF StreamIInv, IdsInv, StreamTypeOK, HubState, Ids
<1>6. IdsInv'
  <2>1. Reqs \ InPhase("idle")' = (Reqs \ InPhase("idle")) \cup {r}
    BY <1>1 DEF InPhase
  <2>2. nextId' <= Cardinality(Reqs \ InPhase("idle")') + 1
    BY <1>1, <2>1, IdLeft
  <2>3. ASSUME NEW q \in Reqs, Current(q)' PROVE 0 < hub'[q].id /\ hub'[q].id < nextId'
    <3>1. CASE q = r
      BY <1>1, <1>4, <3>1
    <3>2. CASE q # r
      <4>1. hub'[q].id = hub[q].id /\ 0 < hub[q].id /\ hub[q].id < nextId /\ hub[q].id \in Nat
        BY <1>1, <1>3, <1>5, <2>3, <3>2
      <4> QED BY <1>1, <1>4, <4>1
    <3> QED BY <3>1, <3>2
  <2>4. ASSUME NEW p \in Reqs, NEW q \in Reqs, Current(p)', Current(q)',
               hub'[p].id = hub'[q].id
        PROVE  p = q
    <3>1. CASE p # r /\ q # r
      BY <1>1, <1>3, <2>4, <3>1 DEF StreamIInv, IdsInv
    <3>2. ASSUME NEW s \in Reqs, s # r, Current(s)' PROVE hub'[s].id # hub'[r].id
      <4>1. hub'[s].id = hub[s].id /\ hub[s].id < nextId /\ hub[s].id \in Nat
        BY <1>1, <1>3, <1>5, <3>2
      <4> QED BY <1>1, <1>4, <4>1
    <3> QED BY <2>4, <3>1, <3>2
  <2> QED BY <2>2, <2>3, <2>4 DEF IdsInv
<1>7. ProxyInv'
  <2>1. OnRecord(r)'
    BY <1>1, <1>2, <1>4 DEF OnRecord
  <2>2. \A q \in Reqs : q # r => OnRecord(q)'
    BY <1>1, <1>2 DEF StreamIInv, ProxyInv, OnRecord
  <2> QED BY <2>1, <2>2 DEF ProxyInv
<1>8. ClientInv'
  <2>1. InStep(r)'
    BY <1>1, <1>2 DEF StreamIInv, ClientInv, InStep, Working
  <2>2. \A q \in Reqs : q # r => InStep(q)'
    BY <1>1, <1>2 DEF StreamIInv, ClientInv, InStep
  <2> QED BY <2>1, <2>2 DEF ClientInv
<1> QED BY <1>3, <1>6, <1>7, <1>8

LEMMA StartToClient ==
  ASSUME StreamIInv, NEW r \in Reqs, NEW kind \in Kinds, StartHttpStream(r, kind)
  PROVE  ToClientInv'
<1>1. /\ StreamTypeOK' /\ hub[r].phase = "idle" /\ nextId \in Ids /\ nextId' = nextId + 1
      /\ \A q \in Reqs : q # r => hub'[q] = hub[q]
      /\ hub'[r].phase \in {"wait", "over"} /\ hub'[r].id = nextId
      /\ \/ toClient' = toClient
         \/ toClient' = Sent(toClient, OpenFrames(r, kind)) /\ hub'[r].phase = "wait"
      /\ UNCHANGED clientVars
  BY StartTyped
<1>2. /\ task' = task /\ task[r].phase = "none" /\ hub[r].id = 0
      /\ toClient \in Seq(Frame) /\ ToClientInv
  BY <1>1 DEF clientVars, StreamIInv, ProxyInv, OnRecord, StreamTypeOK
<1>3. PICK fs \in Seq(Frame) :
        /\ \A a \in 1 .. Len(fs) :
             /\ fs[a].id = nextId
             /\ fs[a].t = "body" \/ (a = 1 /\ fs[a].t = "open" /\ fs[a].req = r)
        /\ toClient' \in {toClient, toClient \o fs}
        /\ toClient' # toClient => hub'[r].phase = "wait"
  <2>1. /\ OpenFrames(r, kind) \in Seq(Frame)
        /\ \A a \in 1 .. Len(OpenFrames(r, kind)) :
              /\ OpenFrames(r, kind)[a].id = nextId
              /\ \/ OpenFrames(r, kind)[a].t = "body"
                 \/ a = 1 /\ OpenFrames(r, kind)[a].t = "open" /\ OpenFrames(r, kind)[a].req = r
    BY <1>1, OpenFramesTyped
  <2> QED BY <1>1, <2>1 DEF Sent
<1>4. PICK u \in Seq(Frame) : u = toClient'
  BY <1>1 DEF StreamTypeOK
<1>5. nextId \in Nat /\ 0 < nextId /\ nextId < nextId + 1
  BY <1>1 DEF Ids
<1>6. \A a \in 1 .. Len(toClient) :
        /\ toClient[a] \in Frame /\ ToClientFrame(toClient[a])
        /\ toClient[a].id \in Nat /\ 0 < toClient[a].id /\ toClient[a].id < nextId
        /\ toClient[a].id # nextId /\ toClient[a].id < nextId + 1
  <2>1. \A a \in 1 .. Len(toClient) : toClient[a] \in Frame /\ ToClientFrame(toClient[a])
    BY <1>2 DEF ToClientInv
  <2>2. ASSUME NEW f \in Frame, ToClientFrame(f)
        PROVE  f.id \in Nat /\ 0 < f.id /\ f.id < nextId /\ f.id # nextId /\ f.id < nextId + 1
    <3>1. f.id \in Nat /\ 0 < f.id /\ f.id < nextId
      BY <2>2 DEF Frame, Ids, ToClientFrame
    <3> QED BY <1>5, <3>1
  <2> QED BY <2>1, <2>2
<1>7. ASSUME NEW a \in 1 .. Len(u)
      PROVE  \/ a \in 1 .. Len(toClient) /\ u[a] = toClient[a]
             \/ /\ a - Len(toClient) \in 1 .. Len(fs) /\ u[a] = fs[a - Len(toClient)]
                /\ hub'[r].phase = "wait" /\ u[a] \in Frame
  <2>1. CASE u = toClient
    BY <1>7, <2>1
  <2>2. CASE u = toClient \o fs /\ u # toClient
    <3>1. hub'[r].phase = "wait" /\ u[a] \in Frame
      BY <1>3, <1>4, <1>7, <2>2
    <3> QED BY <1>2, <1>7, <2>2, <3>1, PutFrames
  <2> QED BY <1>3, <1>4, <2>1, <2>2
<1>8. ASSUME NEW f \in Frame, ToClientFrame(f), f.id < nextId, f.id # nextId,
             f.id < nextId + 1, 0 < f.id
      PROVE  ToClientFrame(f)'
  <2>1. f.t = "open" => OpenFor(f)'
    BY <1>1, <1>2, <1>8 DEF ToClientFrame, OpenFor
  <2>2. f.t = "window" => CreditFor(f)'
    <3>1. 0 # f.id
      BY <1>8
    <3> QED BY <1>1, <1>2, <1>8, <3>1 DEF ToClientFrame, CreditFor
  <2>3. ASSUME Names(f), NEW q \in Reqs, Current(q)', hub'[q].id = f.id PROVE f.req = q
    <3>1. q # r
      BY <1>1, <1>8, <2>3
    <3>2. Current(q) /\ hub[q].id = f.id
      BY <1>1, <2>3, <3>1, StartIds
    <3> QED BY <1>8, <2>3, <3>2 DEF ToClientFrame
  <2> QED BY <1>1, <1>8, <2>1, <2>2, <2>3 DEF ToClientFrame, Names
<1>9. ASSUME NEW f \in Frame, f.id = nextId, hub'[r].phase = "wait",
             f.t = "body" \/ (f.t = "open" /\ f.req = r)
      PROVE  ToClientFrame(f)'
  <2>1. f.t = "open" => OpenFor(f)'
    BY <1>1, <1>2, <1>9 DEF OpenFor
  <2>2. ASSUME Names(f), NEW q \in Reqs, Current(q)', hub'[q].id = f.id PROVE f.req = q
    <3>1. q = r
      BY <1>1, <1>9, <2>2, StartIds DEF IdsInv, Current, Served
    <3> QED BY <1>9, <2>2, <3>1 DEF Names
  <2>3. f.id < nextId'
    BY <1>1, <1>5, <1>9
  <2> QED BY <1>9, <2>1, <2>2, <2>3 DEF ToClientFrame, Names
<1>10. ASSUME NEW a \in 1 .. Len(u) PROVE ToClientFrame(u[a])'
  BY <1>3, <1>6, <1>7, <1>8, <1>9
<1>11. ASSUME NEW a \in 1 .. Len(u), NEW b \in 1 .. Len(u),
              Names(u[a]), Names(u[b]), u[a].id = u[b].id
       PROVE  u[a].req = u[b].req
  <2>1. ASSUME NEW c \in 1 .. Len(u), Names(u[c])
        PROVE  \/ c \in 1 .. Len(toClient) /\ u[c] = toClient[c] /\ u[c].id # nextId
               \/ u[c].id = nextId /\ u[c].req = r
    BY <1>3, <1>6, <1>7, <2>1 DEF Names
  <2>2. CASE /\ a \in 1 .. Len(toClient) /\ u[a] = toClient[a]
             /\ b \in 1 .. Len(toClient) /\ u[b] = toClient[b]
    BY <1>2, <1>11, <2>2 DEF ToClientInv
  <2> QED BY <1>11, <2>1, <2>2
<1>12. ASSUME NEW a \in 1 .. Len(u), NEW b \in 1 .. Len(u),
              u[a].t = "open", u[b].t = "open", u[a].req = u[b].req
       PROVE  a = b
  <2>1. ASSUME NEW c \in 1 .. Len(u), u[c].t = "open"
        PROVE  \/ c \in 1 .. Len(toClient) /\ u[c] = toClient[c] /\ u[c].req # r
               \/ c - Len(toClient) = 1 /\ u[c].req = r /\ c \in Nat
    <3>1. CASE c \in 1 .. Len(toClient) /\ u[c] = toClient[c]
      BY <1>1, <1>6, <2>1, <3>1 DEF ToClientFrame, OpenFor
    <3>2. CASE c - Len(toClient) \in 1 .. Len(fs) /\ u[c] = fs[c - Len(toClient)]
      BY <1>3, <2>1, <3>2
    <3> QED BY <1>7, <3>1, <3>2
  <2>2. CASE /\ a \in 1 .. Len(toClient) /\ u[a] = toClient[a]
             /\ b \in 1 .. Len(toClient) /\ u[b] = toClient[b]
    BY <1>2, <1>12, <2>2 DEF ToClientInv
  <2>3. CASE /\ a - Len(toClient) = 1 /\ b - Len(toClient) = 1 /\ a \in Nat /\ b \in Nat
    <3>1. Len(toClient) \in Nat
      BY <1>2
    <3> QED BY <2>3, <3>1
  <2> QED BY <1>12, <2>1, <2>2, <2>3
<1> QED BY <1>4, <1>10, <1>11, <1>12 DEF ToClientInv, Names

LEMMA StartStreamKeeps ==
  ASSUME StreamIInv, NEW r \in Reqs, NEW kind \in Kinds, StartHttpStream(r, kind)
  PROVE  StreamIInv'
<1>1. /\ StreamTypeOK' /\ hub[r].phase = "idle" /\ nextId \in Ids /\ nextId' = nextId + 1
      /\ \A q \in Reqs : q # r => hub'[q] = hub[q]
      /\ hub'[r].phase \in {"wait", "over"} /\ hub'[r].id = nextId
      /\ hub'[r].out = hub[r].out /\ hub'[r].lastGranted = hub[r].lastGranted
      /\ hub'[r].grants = hub[r].grants /\ hub'[r].got = hub[r].got
      /\ hub'[r].browser = hub[r].browser
      /\ \/ toClient' = toClient
         \/ toClient' = Sent(toClient, OpenFrames(r, kind))
      /\ cut' = (IF InUse(nextId) THEN cut \cup {r} ELSE cut)
      /\ UNCHANGED <<up, losses, toProxy, clientVars>>
  BY StartTyped
<1>2. /\ task' = task /\ streams' = streams /\ task[r].phase = "none" /\ OnRecord(r)
      /\ InStep(r) /\ hub[r].browser # "ended"
  BY <1>1 DEF clientVars, StreamIInv, ProxyInv, OnRecord, ClientInv
<1>3. PICK fs \in Seq(Frame) :
        /\ \A a \in 1 .. Len(fs) : fs[a].t # "window"
        /\ toClient' = Sent(toClient, fs)
  <2>1. CASE toClient' = toClient
    BY <2>1, NoFrames
  <2>2. CASE toClient' = Sent(toClient, OpenFrames(r, kind))
    <3>1. /\ OpenFrames(r, kind) \in Seq(Frame)
          /\ \A a \in 1 .. Len(OpenFrames(r, kind)) : OpenFrames(r, kind)[a].t # "window"
      BY <1>1, OpenFramesTyped
    <3> QED BY <2>2, <3>1
  <2> QED BY <1>1, <2>1, <2>2
<1>4. ASSUME NEW q \in Reqs \ cut', q # r PROVE Intact(q)'
  <2>1. up' = up /\ cut \subseteq cut' /\ q \notin cut' /\ clientVars' = clientVars
        /\ HubQuiet(q) /\ hub'[q] = hub[q]
    BY <1>1, <1>4 DEF HubQuiet, HubKept
  <2>2. \A a \in 1 .. Len(fs) : fs[a].t = "window" => fs[a].req # q
    BY <1>3
  <2>3. PICK v \in Seq(Frame) : v = toProxy' /\ v = toProxy
    BY <1>1 DEF StreamIInv, StreamTypeOK
  <2> QED BY <1>1, <1>3, <2>1, <2>2, <2>3, HubQuietIntact
<1>5. ASSUME r \notin cut' PROVE Intact(r)'
  <2>1. r \notin cut /\ ~InUse(nextId) /\ Intact(r) /\ toProxy' = toProxy
    BY <1>1, <1>5 DEF StreamIInv, UncutInv
  <2>2. /\ streams[nextId] = NoReq
        /\ \A q \in Reqs : ~Sends(q, nextId)
        /\ \A a \in 1 .. Len(toProxy) : toProxy[a].id # nextId
    BY <2>1 DEF InUse, Sends
  <2>3. /\ hub[r].grants = 0 /\ hub[r].out = 0 /\ hub[r].got = <<>>
        /\ task[r].sent = 0 /\ task[r].body = <<>> /\ ~InHand(r)'
    BY <1>1, <1>2 DEF OnRecord, InStep, InHand, Working
  <2>4. Unknown(r)'
    BY <1>1, <1>2, <2>3 DEF Unknown
  <2>5. OwnId(r)'
    <3>1. \A q \in Reqs : ~Sends(q, nextId) => ~Sends(q, hub[r].id)'
      BY <1>1, <1>2 DEF Sends
    <3> QED BY <1>1, <1>2, <2>1, <2>2, <3>1 DEF OwnId
  <2>6. BytesOf(<<>>)[0] = 0
    <3>1. <<>> \in Seq(Nat)
      OBVIOUS
    <3> QED BY <3>1, BytesStep
  <2>7. BodyInOrder(r)'
    <3>1. /\ Len(hub[r].got) = 0 /\ 0 <= 0
          /\ hub[r].got = [k \in 1 .. 0 |-> <<r, k>>]
      BY <2>3
    <3>2. \A a \in 1 .. Len(toProxy) : toProxy[a] \notin DataOf(r)'
      BY <1>1, <2>2 DEF DataOf
    <3>3. PICK S : S = DataOf(r)'
      OBVIOUS
    <3>4. Numbered(toProxy, S, 0, 0)
      BY <3>2, <3>3, NumberedNone DEF StreamIInv, StreamTypeOK
    <3>5. FinLast(toProxy, nextId)
      BY <2>2 DEF FinLast
    <3> QED BY <1>1, <1>2, <2>1, <2>2, <2>3, <2>6, <3>1, <3>2, <3>3, <3>4, <3>5
            DEF BodyInOrder
  <2>8. Account(r)'
    <3>1. 0 <= hub[r].grants * Window /\ hub'[r].grants = hub[r].grants
      BY <1>1, <2>3, StreamAssumption
    <3>2. BytesSent(r)' = 0
      BY <1>2, <2>3, <2>6 DEF BytesSent
    <3> QED BY <1>2, <2>3, <3>1, <3>2 DEF Account
  <2>9. Renewed(r)' /\ EndedWhole(r)'
    BY <1>1, <1>2 DEF Renewed, EndedWhole
  <2> QED BY <2>4, <2>5, <2>7, <2>8, <2>9 DEF Intact
<1>6. UncutInv'
  BY <1>4, <1>5 DEF UncutInv
<1>7. ChannelInv' /\ ToProxyInv'
  BY <1>1 DEF StreamIInv, ChannelInv, ToProxyInv, Sent
<1> QED BY <1>1, <1>6, <1>7, StartIds, StartToClient DEF StreamIInv

-----------------------------------------------------------------------------
(* A request that is not under way when the channel drops.                  *)
LEMMA LostUncut ==
  ASSUME StreamIInv, StreamTypeOK', cut' = cut \cup UnderWay, clientVars' = clientVars,
         NEW r \in Reqs \ cut', HubKept(r),
         hub'[r].phase = hub[r].phase,
         hub'[r].browser = "ended" => hub[r].browser = "ended"
  PROVE  Intact(r)'
<1>1. /\ r \notin cut /\ Intact(r) /\ task' = task
      /\ hub[r].phase \notin {"wait", "acked", "open"}
      /\ task[r].phase \in {"none", "done", "refused"}
  BY DEF StreamIInv, UncutInv, UnderWay, clientVars
<1>2. ~Served(r)' /\ ~InHand(r)'
  BY <1>1 DEF Served, InHand, Working
<1>3. Unknown(r)'
  BY <1>1, <1>2 DEF Intact, Unknown, HubKept
<1>4. OwnId(r)' /\ BodyInOrder(r)'
  BY <1>2 DEF OwnId, BodyInOrder
<1>5. BytesSent(r)' = BytesSent(r)
  BY <1>1 DEF BytesSent
<1>6. Account(r)'
  BY <1>1, <1>2, <1>5 DEF Intact, Account, HubKept
<1>7. Renewed(r)' /\ EndedWhole(r)'
  BY <1>1 DEF Intact, Renewed, EndedWhole, Whole, HubKept
<1> QED BY <1>3, <1>4, <1>6, <1>7 DEF Intact

LEMMA LostRest ==
  ASSUME StreamIInv, StreamTypeOK', ChannelLost
  PROVE  ChannelInv' /\ ToClientInv' /\ ToProxyInv'
<1>1. toClient' = <<>> /\ toProxy' = <<>>
  BY DEF ChannelLost
<1> QED BY <1>1 DEF ChannelInv, ToClientInv, ToProxyInv

LEMMA LostTyped ==
  ASSUME StreamIInv, ChannelLost
  PROVE  /\ up' \in BOOLEAN /\ toClient' \in Seq(Frame) /\ toProxy' \in Seq(Frame)
         /\ cut' \subseteq Reqs /\ losses' \in 0 .. MaxLosses
         /\ cut' = cut \cup UnderWay
<1>1. losses \in 0 .. MaxLosses /\ losses < MaxLosses /\ losses' = losses + 1
  BY DEF StreamIInv, StreamTypeOK, ChannelLost
<1>2. losses' \in 0 .. MaxLosses
  BY <1>1, StreamAssumption
<1>3. UnderWay \subseteq Reqs /\ cut \subseteq Reqs
  BY DEF UnderWay, StreamIInv, StreamTypeOK
<1>4. <<>> \in Seq(Frame)
  OBVIOUS
<1> QED BY <1>2, <1>3, <1>4 DEF ChannelLost

LEMMA DropKeeps ==
  ASSUME StreamIInv, Drop
  PROVE  StreamIInv'
<1>1. ChannelLost /\ UNCHANGED <<proxyVars, clientVars>>
  BY DEF Drop
<1>2. hub' = hub /\ nextId' = nextId /\ task' = task /\ streams' = streams
      /\ clientVars' = clientVars /\ cut' = cut \cup UnderWay
  BY <1>1, LostTyped DEF proxyVars, clientVars
<1>3. StreamTypeOK'
  BY <1>1, <1>2, LostTyped, HubTypes DEF StreamIInv, StreamTypeOK
<1>4. ChannelInv' /\ ToClientInv' /\ ToProxyInv'
  BY <1>1, <1>3, LostRest
<1>5. IdsInv'
  <2>1. \A r \in Reqs : Current(r)' => Current(r)
    BY <1>2 DEF Current, Served, InHand
  <2>2. InPhase("idle")' = InPhase("idle")
    BY <1>2 DEF InPhase
  <2> QED BY <1>2, <2>1, <2>2 DEF StreamIInv, IdsInv
<1>6. ProxyInv' /\ ClientInv'
  BY <1>2 DEF StreamIInv, ProxyInv, ClientInv, OnRecord, InStep
<1>7. UncutInv'
  <2>1. ASSUME NEW r \in Reqs \ cut' PROVE Intact(r)'
    <3>1. HubKept(r) /\ hub'[r] = hub[r]
      BY <1>2 DEF HubKept
    <3> QED BY <1>2, <1>3, <3>1, LostUncut
  <2> QED BY <2>1 DEF UncutInv
<1> QED BY <1>3, <1>4, <1>5, <1>6, <1>7 DEF StreamIInv

LEMMA HubRestartKeeps ==
  ASSUME StreamIInv, HubRestart
  PROVE  StreamIInv'
<1>1. /\ ChannelLost /\ UNCHANGED clientVars /\ nextId' = 1
      /\ hub' = [r \in Reqs |-> IF hub[r].phase = "idle" THEN hub[r] ELSE Ended(r, "broken")]
      /\ StreamTypeOK
  BY DEF StreamIInv, HubRestart
<1>2. task' = task /\ streams' = streams /\ cut' = cut \cup UnderWay
  BY <1>1, LostTyped DEF clientVars
<1>3. ASSUME NEW r \in Reqs
      PROVE  /\ hub'[r] \in HubState /\ HubKept(r)
             /\ hub'[r].phase = IF hub[r].phase = "idle" THEN "idle" ELSE "over"
             /\ hub'[r].browser = "ended" => hub[r].browser = "ended"
  <2>1. Ended(r, "broken") \in HubState /\ Ended(r, "broken").phase = "over"
        /\ (Ended(r, "broken").browser = "ended" => hub[r].browser = "ended")
    BY <1>1, EndedTyped DEF Shown
  <2> QED BY <1>1, <2>1, EndedTyped DEF HubKept, StreamTypeOK
<1>4. IsFiniteSet(Reqs) /\ Cardinality(Reqs) \in Nat
  BY StreamAssumption, FS_CardinalityType
<1>5. StreamTypeOK'
  <2>1. hub' \in [Reqs -> HubState]
    BY <1>1, <1>3
  <2>2. nextId' \in 1 .. Cardinality(Reqs) + 1
    BY <1>1, <1>4
  <2> QED BY <1>1, <2>1, <2>2, LostTyped, HubTypes
<1>6. ChannelInv' /\ ToClientInv' /\ ToProxyInv'
  BY <1>1, <1>5, LostRest
<1>7. \A r \in Reqs : ~Current(r)' \/ r \in cut'
  BY <1>2, <1>3 DEF Current, Served, InHand, Working, UnderWay
<1>8. \A r \in Reqs : ~Current(r)'
  BY <1>3, <1>7 DEF Current, Served, InHand
<1>9. IdsInv'
  <2>1. IsFiniteSet(Reqs \ InPhase("idle")')
    BY <1>4, FS_Subset
  <2>2. PICK n : n = Cardinality(Reqs \ InPhase("idle")')
    OBVIOUS
  <2>3. n \in Nat
    BY <2>1, <2>2, FS_CardinalityType
  <2>4. 1 <= n + 1
    BY <2>3
  <2> QED BY <1>1, <1>8, <2>2, <2>4 DEF IdsInv
<1>10. ProxyInv'
  <2>1. ASSUME NEW r \in Reqs PROVE OnRecord(r)'
    <3>1. OnRecord(r)
      BY DEF StreamIInv, ProxyInv
    <3> QED BY <1>2, <1>3, <3>1 DEF OnRecord, HubKept
  <2> QED BY <2>1 DEF ProxyInv
<1>11. ClientInv'
  BY <1>2, <1>3 DEF StreamIInv, ClientInv, InStep, HubKept
<1>12. UncutInv'
  <2>1. ASSUME NEW r \in Reqs \ cut' PROVE Intact(r)'
    <3>1. hub[r].phase \in {"idle", "over"}
      BY <1>1, <1>2, <2>1 DEF UnderWay, StreamTypeOK, HubState
    <3> QED BY <1>1, <1>2, <1>3, <1>5, <2>1, <3>1, LostUncut
  <2> QED BY <2>1 DEF UncutInv
<1> QED BY <1>5, <1>6, <1>9, <1>10, <1>11, <1>12 DEF StreamIInv

-----------------------------------------------------------------------------
(* The channel comes back: nothing but up changes.                          *)
LEMMA SameRest ==
  ASSUME StreamIInv, StreamTypeOK', ChannelInv', up => up',
         UNCHANGED <<toClient, toProxy, proxyVars, clientVars, cut>>
  PROVE  StreamIInv'
<1>1. /\ toClient' = toClient /\ toProxy' = toProxy /\ hub' = hub /\ nextId' = nextId
      /\ streams' = streams /\ task' = task /\ cut' = cut
  BY DEF proxyVars, clientVars
<1>2. \A r \in Reqs : /\ Served(r)' <=> Served(r)
                      /\ InHand(r)' <=> InHand(r)
                      /\ Current(r)' <=> Current(r)
  BY <1>1 DEF Served, InHand, Current
<1>3. IdsInv' /\ ProxyInv' /\ ClientInv' /\ ToProxyInv'
  BY <1>1, <1>2 DEF StreamIInv, IdsInv, InPhase, ProxyInv, OnRecord, ClientInv, InStep,
     ToProxyInv
<1>4. \A f \in Frame : ToClientFrame(f) => ToClientFrame(f)'
  BY <1>1, <1>2 DEF ToClientFrame, OpenFor, CreditFor
<1>5. ToClientInv'
  <2>1. \A a \in 1 .. Len(toClient) : toClient[a] \in Frame /\ ToClientFrame(toClient[a])
    BY DEF StreamIInv, StreamTypeOK, ToClientInv
  <2>2. PICK u \in Seq(Frame) : u = toClient'
    BY DEF StreamTypeOK
  <2>3. \A a \in 1 .. Len(u) : ToClientFrame(u[a])'
    BY <1>1, <1>4, <2>1, <2>2
  <2> QED BY <1>1, <2>2, <2>3 DEF StreamIInv, ToClientInv, Names
<1>6. ASSUME NEW r \in Reqs \ cut PROVE Intact(r)'
  <2>1. Intact(r)
    BY DEF StreamIInv, UncutInv
  <2>2. Unknown(r)'
    BY <1>1, <1>2, <2>1 DEF Intact, Unknown
  <2>3. OwnId(r)'
    BY <1>1, <1>2, <2>1 DEF Intact, OwnId, Sends
  <2>4. DataOf(r)' = DataOf(r) /\ CreditOf(r)' = CreditOf(r) /\ BytesSent(r)' = BytesSent(r)
    BY <1>1 DEF DataOf, CreditOf, BytesSent
  <2>5. BodyInOrder(r)'
    BY <1>1, <1>2, <2>1, <2>4 DEF Intact, BodyInOrder
  <2>6. \A c \in Nat : Arrived(r, c) => Arrived(r, c)'
    BY <1>1, <2>4 DEF Arrived
  <2>7. Account(r)'
    BY <1>1, <1>2, <2>1, <2>4, <2>6 DEF Intact, Account
  <2>8. Renewed(r)' /\ EndedWhole(r)'
    BY <1>1, <2>1 DEF Intact, Renewed, EndedWhole, Whole
  <2> QED BY <2>2, <2>3, <2>5, <2>7, <2>8 DEF Intact
<1>7. UncutInv'
  BY <1>1, <1>6 DEF UncutInv
<1> QED BY <1>3, <1>5, <1>7 DEF StreamIInv

LEMMA ChannelBackKeeps ==
  ASSUME StreamIInv, ChannelBack
  PROVE  StreamIInv'
<1>1. /\ up' = TRUE /\ UNCHANGED <<toClient, toProxy, proxyVars, clientVars, cut, losses>>
      /\ StreamTypeOK
  BY DEF ChannelBack, StreamIInv
<1>2. StreamTypeOK' /\ ChannelInv'
  BY <1>1, HubTypes DEF StreamTypeOK, proxyVars, ChannelInv
<1> QED BY <1>1, <1>2, SameRest

LEMMA StutterKeeps ==
  ASSUME StreamIInv, UNCHANGED streamVars
  PROVE  StreamIInv'
<1>1. /\ UNCHANGED <<toClient, toProxy, proxyVars, clientVars, cut, losses>> /\ up' = up
      /\ StreamTypeOK
  BY DEF streamVars, proxyVars, clientVars, StreamIInv
<1>2. StreamTypeOK' /\ ChannelInv'
  BY <1>1, HubTypes DEF StreamTypeOK, proxyVars, StreamIInv, ChannelInv
<1> QED BY <1>1, <1>2, SameRest

-----------------------------------------------------------------------------
(* A step of the client that neither takes credit nor sends a piece of a    *)
(* request, as far as the task and its entry go.                            *)
Unopened == {"none", "refused"}
OnTask(r) == task[r].phase \in Working /\ ~task[r].closed

TaskKept(r) ==
  /\ task'[r].id = task[r].id /\ task'[r].credit = task[r].credit
  /\ task'[r].body = task[r].body /\ task'[r].sent = task[r].sent

ClientQuiet(r) ==
  /\ TaskKept(r)
  /\ task'[r].phase = "none" => task[r].phase = "none" /\ task'[r].closed = task[r].closed
  /\ task'[r].phase \in {"body", "fetch"} => task[r].phase \in {"body", "fetch"}
  /\ task'[r].phase \in Unopened <=> task[r].phase \in Unopened
  /\ task[r].phase \in {"slot", "done"} => task'[r].phase \in {"slot", "done"}
  /\ OnTask(r)' => OnTask(r)
  /\ task'[r].phase \in {"body", "parked", "slot"} => ~task'[r].closed
  /\ \A i \in Ids : Sends(r, i)' => Sends(r, i) \/ streams[i] = r
  /\ \A i \in Ids : streams'[i] = r <=> streams[i] = r /\ OnTask(r)'

LEMMA ClientQuietStep ==
  ASSUME StreamIInv, StreamTypeOK', NEW r \in Reqs, ClientQuiet(r), hub' = hub
  PROVE  InStep(r)'
<1>1. InStep(r) /\ task'[r] \in TaskState
  BY DEF StreamIInv, ClientInv, StreamTypeOK
<1>2. task'[r].phase \in Working \cup {"done"} => task[r].phase \in Working \cup {"done"}
  BY DEF ClientQuiet, Unopened, Working, StreamIInv, StreamTypeOK, TaskState
<1> QED BY <1>1, <1>2 DEF InStep, ClientQuiet, TaskKept, Unopened, OnTask

LEMMA ClientQuietIntact ==
  ASSUME StreamIInv, StreamTypeOK', hub' = hub, up' = up, cut' = cut,
         NEW r \in Reqs \ cut, ClientQuiet(r),
         task[r].phase = "none" /\ task'[r].phase # "none" => up,
         Served(r) => \A i \in Ids : i = hub[r].id => streams'[i] \in {NoReq, r},
         Served(r) => \A q \in Reqs : Sends(q, hub[r].id)' => q = r,
         NEW fs \in Seq(Frame), toProxy' = Sent(toProxy, fs),
         Served(r) => \A a \in 1 .. Len(fs) : fs[a].id = hub[r].id =>
           /\ fs[a].t # "data" /\ task'[r].phase # "none"
           /\ fs[a].t = "fin" => /\ task'[r].phase \in {"slot", "done"}
                                 /\ task[r].sent = Len(task[r].body),
         NEW v \in Seq(Frame), v = toClient',
         \/ v = toClient
         \/ /\ toClient # <<>> /\ v = Tail(toClient)
            /\ InHand(r)' => Head(toClient).t # "window" \/ Head(toClient).req # r
  PROVE  Intact(r)'
<1>1. /\ Intact(r) /\ StreamTypeOK /\ toProxy \in Seq(Frame) /\ toClient \in Seq(Frame)
      /\ task'[r].id = task[r].id /\ task'[r].credit = task[r].credit
      /\ task'[r].body = task[r].body /\ task'[r].sent = task[r].sent
      /\ Served(r)' = Served(r)
  BY DEF StreamIInv, UncutInv, StreamTypeOK, ClientQuiet, TaskKept, Served
<1>2. InHand(r)' => InHand(r) /\ OnTask(r)'
  BY DEF InHand, ClientQuiet, OnTask
<1>3. PICK u \in Seq(Frame) : u = toProxy'
  BY DEF StreamTypeOK
<1>4. \A a \in 1 .. Len(u) : \/ \E b \in 1 .. Len(toProxy) : u[a] = toProxy[b]
                             \/ \E b \in 1 .. Len(fs) : u[a] = fs[b]
  <2>1. CASE u = toProxy
    BY <2>1
  <2>2. CASE u = toProxy \o fs
    BY <1>1, <2>2, PutFrames
  <2> QED BY <1>3, <2>1, <2>2 DEF Sent
<1>5. Unknown(r)'
  <2>1. task'[r].phase = "none" => task[r].phase = "none"
    BY DEF ClientQuiet
  <2>2. Served(r) /\ task'[r].phase # "none" => up
    <3>1. CASE task[r].phase # "none"
      BY <1>1, <3>1 DEF Intact, Unknown
    <3>2. CASE task[r].phase = "none" /\ task'[r].phase # "none"
      BY <3>2
    <3> QED BY <3>1, <3>2
  <2> QED BY <1>1, <1>2, <2>1, <2>2 DEF Intact, Unknown
<1>6. OwnId(r)'
  <2>1. ASSUME Served(r), NEW a \in 1 .. Len(u), u[a].id = hub[r].id
        PROVE  task'[r].phase # "none"
    <3>1. CASE \E b \in 1 .. Len(toProxy) : u[a] = toProxy[b]
      BY <1>1, <2>1, <3>1 DEF Intact, OwnId, ClientQuiet
    <3>2. CASE \E b \in 1 .. Len(fs) : u[a] = fs[b]
      BY <2>1, <3>2
    <3> QED BY <1>4, <3>1, <3>2
  <2> QED BY <1>1, <1>3, <2>1 DEF OwnId
<1>7. DataOf(r)' = DataOf(r) /\ CreditOf(r)' = CreditOf(r) /\ BytesSent(r)' = BytesSent(r)
  BY <1>1 DEF DataOf, CreditOf, BytesSent
<1>8. BodyInOrder(r)'
  <2> SUFFICES ASSUME Served(r) PROVE BodyInOrder(r)'
    BY <1>1 DEF BodyInOrder
  <2> DEFINE n == Len(hub[r].got)
             m == task[r].sent
  <2>1. /\ BodyInOrder(r) /\ Numbered(toProxy, DataOf(r), n, m)
        /\ FinLast(toProxy, hub[r].id) /\ n \in Nat /\ m \in Nat
    BY <1>1 DEF Intact, BodyInOrder, StreamTypeOK, HubState, TaskState
  <2>2. \A a \in 1 .. Len(fs) : /\ fs[a] \notin DataOf(r)
                                /\ fs[a].t # "data" \/ fs[a].id # hub[r].id
    BY DEF DataOf
  <2>3. Numbered(u, DataOf(r), n, m) /\ FinLast(u, hub[r].id)
    <3>1. CASE u = toProxy
      BY <2>1, <3>1
    <3>2. CASE u = toProxy \o fs
      <4> HIDE DEF n, m
      <4>1. Numbered(toProxy \o fs, DataOf(r), n, m)
        BY <1>1, <2>1, <2>2, NumberedJoin
      <4>2. FinLast(toProxy \o fs, hub[r].id)
        BY <1>1, <2>1, <2>2, FinLastPut
      <4> QED BY <3>2, <4>1, <4>2
    <3> QED BY <1>3, <3>1, <3>2 DEF Sent
  <2>4. \A a \in 1 .. Len(u) : u[a] \in DataOf(r) =>
          u[a].req = r /\ u[a].n = task[r].body[u[a].k]
    <3>1. ASSUME NEW a \in 1 .. Len(u), u[a] \in DataOf(r)
          PROVE  u[a].req = r /\ u[a].n = task[r].body[u[a].k]
      <4>1. PICK b \in 1 .. Len(toProxy) : u[a] = toProxy[b]
        BY <1>4, <2>2, <3>1
      <4>2. toProxy[b] \in DataOf(r)
        BY <3>1, <4>1
      <4>3. toProxy[b].req = r /\ toProxy[b].n = task[r].body[toProxy[b].k]
        BY <2>1, <4>2 DEF BodyInOrder
      <4> QED BY <4>1, <4>3
    <3> QED BY <3>1
  <2>5. \A a \in 1 .. Len(u) : u[a].id = hub[r].id /\ u[a].t = "fin" =>
          task'[r].phase \in {"slot", "done"} /\ task[r].sent = Len(task[r].body)
    BY <1>4, <2>1 DEF BodyInOrder, ClientQuiet
  <2>6. /\ hub[r].got = [k \in 1 .. n |-> <<r, k>>] /\ n <= m
        /\ hub[r].out = BytesOf(task[r].body)[n]
    BY <2>1 DEF BodyInOrder
  <2> QED BY <1>1, <1>3, <1>7, <2>3, <2>4, <2>5, <2>6 DEF BodyInOrder
<1>9. Account(r)'
  <2>1. Account(r)
    BY <1>1 DEF Intact
  <2>2. ASSUME InHand(r)', NEW c \in Nat, Arrived(r, c) PROVE Arrived(r, c)'
    <3>1. Numbered(toClient, CreditOf(r), c, hub[r].grants) /\ hub[r].grants \in Nat
      BY <1>1, <2>2 DEF Arrived, StreamTypeOK, HubState
    <3>2. Numbered(v, CreditOf(r), c, hub[r].grants)
      <4>1. CASE v = toClient
        BY <3>1, <4>1
      <4>2. CASE toClient # <<>> /\ v = Tail(toClient)
        <5>1. CASE Head(toClient).t # "window" \/ Head(toClient).req # r
          <6>1. Head(toClient) \notin CreditOf(r)
            BY <5>1 DEF CreditOf
          <6> QED BY <1>1, <3>1, <4>2, <6>1, NumberedTakeOut
        <5> QED BY <2>2, <4>2, <5>1
      <4> QED BY <4>1, <4>2
    <3> QED BY <1>1, <1>7, <2>2, <3>2 DEF Arrived
  <2>3. InHand(r)' => \E c \in Nat : Arrived(r, c)'
    BY <1>2, <2>1, <2>2 DEF Account
  <2>4. InHand(r)' => \A i \in Ids : i = hub[r].id => streams'[i] = r
    BY <1>2, <2>1 DEF Account, ClientQuiet
  <2> QED BY <1>1, <1>7, <2>1, <2>3, <2>4 DEF Account
<1>10. Renewed(r)' /\ EndedWhole(r)'
  BY <1>1 DEF Intact, Renewed, EndedWhole, Whole, ClientQuiet
<1> QED BY <1>5, <1>6, <1>8, <1>9, <1>10 DEF Intact

(* The client opens the stream of a request by taking its open frame.       *)
Opens(r) == toClient # <<>> /\ Head(toClient).t = "open" /\ Head(toClient).req = r

LEMMA HeadOfClient ==
  ASSUME StreamIInv, toClient # <<>>, toClient' = Tail(toClient)
  PROVE  /\ up /\ 1 \in 1 .. Len(toClient) /\ toClient[1] = Head(toClient)
         /\ Head(toClient) \in Frame /\ ToClientFrame(Head(toClient))
         /\ Head(toClient).id \in Ids
         /\ \E v \in Seq(Frame) : v = toClient' /\ v = Tail(toClient)
<1>1. toClient \in Seq(Frame)
  BY DEF StreamIInv, StreamTypeOK
<1>2. /\ up /\ 1 \in 1 .. Len(toClient) /\ toClient[1] = Head(toClient)
      /\ Head(toClient) \in Frame
      /\ \E v \in Seq(Frame) : v = toClient' /\ v = Tail(toClient)
  BY <1>1, TakeFrame DEF StreamIInv, ChannelInv
<1>3. ToClientFrame(Head(toClient))
  BY <1>2 DEF StreamIInv, ToClientInv
<1> QED BY <1>2, <1>3 DEF Frame

LEMMA ClientRest ==
  ASSUME StreamIInv, StreamTypeOK', UNCHANGED <<proxyVars, channelVars>>,
         \A r \in Reqs : InStep(r)',
         NEW v \in Seq(Frame), v = toClient',
         v = toClient \/ (toClient # <<>> /\ v = Tail(toClient)),
         \A r \in Reqs : Current(r)' => Current(r) \/ Opens(r),
         \A r \in Reqs : task[r].phase = "none" /\ task'[r].phase # "none" =>
                           Opens(r) /\ v = Tail(toClient),
         NEW fs \in Seq(Frame), toProxy' = Sent(toProxy, fs),
         \A a \in 1 .. Len(fs) : /\ fs[a].t \in {"ack", "data", "fin", "rst", "close"}
                                 /\ fs[a].t = "data" => fs[a].req \in Reqs,
         \A r \in Reqs \ cut : Intact(r)'
  PROVE  StreamIInv'
<1>1. /\ hub' = hub /\ nextId' = nextId /\ up' = up /\ cut' = cut
      /\ toClient \in Seq(Frame) /\ toProxy \in Seq(Frame) /\ ToClientInv /\ IdsInv
  BY DEF proxyVars, channelVars, StreamIInv, StreamTypeOK
<1>2. ASSUME NEW r \in Reqs, Opens(r)
      PROVE  /\ 1 \in 1 .. Len(toClient) /\ toClient[1] = Head(toClient)
             /\ hub[r].id = Head(toClient).id /\ hub[r].phase # "idle"
             /\ 0 < hub[r].id /\ hub[r].id < nextId
             /\ Names(Head(toClient))
             /\ \A q \in Reqs : Current(q) /\ hub[q].id = hub[r].id => q = r
  <2>1. 1 \in 1 .. Len(toClient) /\ toClient[1] = Head(toClient) /\ Head(toClient) \in Frame
    BY <1>1, <1>2, TakeFrame DEF Opens
  <2>2. ToClientFrame(Head(toClient))
    BY <1>1, <2>1 DEF ToClientInv
  <2>3. 0 < Head(toClient).id /\ Head(toClient).id < nextId
    BY <2>1, <2>2 DEF Frame, Ids, ToClientFrame
  <2> QED BY <1>2, <2>1, <2>2, <2>3 DEF Opens, ToClientFrame, OpenFor, Names
<1>3. \A r, q \in Reqs : Opens(r) /\ Opens(q) => r = q
  BY DEF Opens
<1>4. IdsInv'
  <2>1. InPhase("idle")' = InPhase("idle")
    BY <1>1 DEF InPhase
  <2>2. \A r \in Reqs : Current(r)' => 0 < hub[r].id /\ hub[r].id < nextId
    BY <1>1, <1>2 DEF IdsInv
  <2>3. ASSUME NEW r \in Reqs, NEW q \in Reqs, Current(r)', Current(q)',
               hub[r].id = hub[q].id
        PROVE  r = q
    <3>1. CASE Current(r) /\ Current(q)
      BY <1>1, <2>3, <3>1 DEF IdsInv
    <3>2. CASE Opens(r) /\ Current(q)
      BY <1>2, <2>3, <3>2
    <3>3. CASE Current(r) /\ Opens(q)
      BY <1>2, <2>3, <3>3
    <3>4. CASE Opens(r) /\ Opens(q)
      BY <1>3, <3>4
    <3> QED BY <2>3, <3>1, <3>2, <3>3, <3>4
  <2> QED BY <1>1, <2>1, <2>2, <2>3 DEF IdsInv
<1>5. ProxyInv'
  <2>1. ASSUME NEW r \in Reqs PROVE OnRecord(r)'
    <3>1. OnRecord(r)
      BY DEF StreamIInv, ProxyInv
    <3>2. hub[r].phase = "idle" => task'[r].phase = "none"
      BY <1>2, <3>1 DEF OnRecord
    <3> QED BY <1>1, <3>1, <3>2 DEF OnRecord
  <2> QED BY <2>1 DEF ProxyInv
<1>6. ClientInv'
  BY DEF ClientInv
<1>7. \A a \in 1 .. Len(v) : \E b \in 1 .. Len(toClient) :
        v[a] = toClient[b] /\ b = IF v = toClient THEN a ELSE a + 1
  <2>1. CASE v = toClient
    BY <2>1
  <2>2. CASE toClient # <<>> /\ v = Tail(toClient) /\ v # toClient
    BY <1>1, <2>2, TakeFrame
  <2> QED BY <2>1, <2>2
<1>8. ToClientInv'
  <2>1. ASSUME NEW a \in 1 .. Len(v) PROVE ToClientFrame(v[a])'
    <3>1. PICK b \in 1 .. Len(toClient) : /\ v[a] = toClient[b]
                                          /\ b = IF v = toClient THEN a ELSE a + 1
      BY <1>7
    <3>2. PICK g \in Frame : g = v[a]
      BY <1>1, <3>1
    <3>3. ToClientFrame(g)
      BY <1>1, <3>1, <3>2 DEF ToClientInv
    <3>4. g.t = "open" => OpenFor(g)'
      <4> SUFFICES ASSUME g.t = "open", task'[g.req].phase # "none" PROVE FALSE
        BY <1>1, <3>3 DEF ToClientFrame, OpenFor
      <4>1. g.req \in Reqs /\ task[g.req].phase = "none"
        BY <3>3 DEF ToClientFrame, OpenFor
      <4>2. Opens(g.req) /\ v = Tail(toClient)
        BY <4>1
      <4>3. b = 1
        BY <1>1, <1>2, <3>1, <3>2, <4>1, <4>2 DEF ToClientInv, Opens
      <4>4. v # toClient
        <5>1. Len(toClient) \in Nat /\ Len(Tail(toClient)) = Len(toClient) - 1
          BY <1>1, <4>2, TakeFrame DEF Opens
        <5>2. Len(toClient) # Len(toClient) - 1
          BY <5>1
        <5> QED BY <4>2, <5>1, <5>2
      <4>5. b = a + 1
        BY <3>1, <4>4
      <4>6. a \in Nat /\ a > 0
        <5>1. Len(v) \in Nat
          OBVIOUS
        <5> QED BY <5>1
      <4> QED BY <4>3, <4>5, <4>6
    <3>5. g.t = "window" => CreditFor(g)'
      BY <1>1, <3>3 DEF ToClientFrame, CreditFor
    <3>6. ASSUME Names(g), NEW q \in Reqs, Current(q)', hub[q].id = g.id PROVE g.req = q
      <4>1. CASE Current(q)
        BY <3>3, <3>6, <4>1 DEF ToClientFrame
      <4>2. CASE Opens(q)
        <5>1. Names(Head(toClient)) /\ Head(toClient).id = g.id /\ Head(toClient).req = q
          BY <1>2, <3>6, <4>2 DEF Opens
        <5>2. \A c, d \in 1 .. Len(toClient) :
                /\ Names(toClient[c]) /\ Names(toClient[d]) /\ toClient[c].id = toClient[d].id
                => toClient[c].req = toClient[d].req
          BY <1>1 DEF ToClientInv
        <5>3. /\ toClient[b] = g /\ b \in 1 .. Len(toClient)
              /\ toClient[1] = Head(toClient) /\ 1 \in 1 .. Len(toClient)
          BY <1>2, <3>1, <3>2, <4>2
        <5>4. toClient[b].req = toClient[1].req
          BY <3>6, <5>1, <5>2, <5>3
        <5> QED BY <5>1, <5>3, <5>4
      <4> QED BY <3>6, <4>1, <4>2
    <3>7. ToClientFrame(g)'
      BY <1>1, <3>3, <3>4, <3>5, <3>6 DEF ToClientFrame, Names
    <3> QED BY <3>2, <3>7
  <2>2. ASSUME NEW a \in 1 .. Len(v), NEW b \in 1 .. Len(v),
               Names(v[a]), Names(v[b]), v[a].id = v[b].id
        PROVE  v[a].req = v[b].req
    BY <1>1, <1>7, <2>2 DEF ToClientInv
  <2>3. ASSUME NEW a \in 1 .. Len(v), NEW b \in 1 .. Len(v),
               v[a].t = "open", v[b].t = "open", v[a].req = v[b].req
        PROVE  a = b
    <3>1. Len(v) \in Nat
      OBVIOUS
    <3>2. PICK c \in 1 .. Len(toClient) : /\ v[a] = toClient[c]
                                          /\ c = IF v = toClient THEN a ELSE a + 1
      BY <1>7
    <3>3. PICK d \in 1 .. Len(toClient) : /\ v[b] = toClient[d]
                                          /\ d = IF v = toClient THEN b ELSE b + 1
      BY <1>7
    <3>4. c = d
      BY <1>1, <2>3, <3>2, <3>3 DEF ToClientInv
    <3> QED BY <3>1, <3>2, <3>3, <3>4
  <2> QED BY <2>1, <2>2, <2>3 DEF ToClientInv, Names
<1>9. ToProxyInv'
  <2>1. PICK u \in Seq(Frame) : u = toProxy'
    BY DEF StreamTypeOK
  <2>2. \A a \in 1 .. Len(u) : \/ \E b \in 1 .. Len(toProxy) : u[a] = toProxy[b]
                               \/ \E b \in 1 .. Len(fs) : u[a] = fs[b]
    <3>1. CASE u = toProxy
      BY <3>1
    <3>2. CASE u = toProxy \o fs
      BY <1>1, <3>2, PutFrames
    <3> QED BY <2>1, <3>1, <3>2 DEF Sent
  <2> QED BY <2>1, <2>2 DEF StreamIInv, ToProxyInv
<1>10. ChannelInv'
  BY <1>1 DEF StreamIInv, ChannelInv, Sent
<1>11. UncutInv'
  BY <1>1 DEF UncutInv
<1> QED BY <1>4, <1>5, <1>6, <1>8, <1>9, <1>10, <1>11 DEF StreamIInv

LEMMA ClientQuietInv ==
  ASSUME StreamIInv, StreamTypeOK', UNCHANGED <<proxyVars, channelVars>>,
         \A r \in Reqs : ClientQuiet(r),
         NEW v \in Seq(Frame), v = toClient',
         \/ v = toClient
         \/ /\ toClient # <<>> /\ v = Tail(toClient)
            /\ \A r \in Reqs \ cut :
                 InHand(r)' => Head(toClient).t # "window" \/ Head(toClient).req # r,
         \A r \in Reqs : task[r].phase = "none" /\ task'[r].phase # "none" =>
                           Opens(r) /\ v = Tail(toClient),
         NEW fs \in Seq(Frame), toProxy' = Sent(toProxy, fs),
         \A a \in 1 .. Len(fs) : fs[a].t \in {"ack", "fin", "rst", "close"},
         \A r \in Reqs \ cut : \A a \in 1 .. Len(fs) : Served(r) /\ fs[a].id = hub[r].id =>
           /\ task'[r].phase # "none"
           /\ fs[a].t = "fin" => /\ task'[r].phase \in {"slot", "done"}
                                 /\ task[r].sent = Len(task[r].body)
  PROVE  StreamIInv'
<1>1. hub' = hub /\ up' = up /\ cut' = cut
  BY DEF proxyVars, channelVars
<1>2. \A r \in Reqs : InStep(r)'
  BY <1>1, ClientQuietStep
<1>3. \A r \in Reqs : Current(r)' => Current(r)
  BY <1>1 DEF Current, Served, InHand, ClientQuiet, OnTask
<1>4. ASSUME NEW r \in Reqs \ cut PROVE Intact(r)'
  <2>1. Served(r) => hub[r].id \in Ids /\ OwnId(r)
    <3>1. Served(r) => hub[r].phase # "idle"
      BY DEF Served
    <3> QED BY <3>1, IdTyped DEF StreamIInv, UncutInv, Intact
  <2>2. Served(r) => \A i \in Ids : i = hub[r].id => streams'[i] \in {NoReq, r}
    <3>1. ASSUME Served(r), NEW i \in Ids, i = hub[r].id PROVE streams'[i] \in {NoReq, r}
      <4>1. streams[i] \in {NoReq, r} /\ streams'[i] \in Reqs \cup {NoReq} /\ NoReq \notin Reqs
        BY <2>1, <3>1, StreamAssumption DEF OwnId, StreamTypeOK, NoReq
      <4> QED BY <4>1 DEF ClientQuiet
    <3> QED BY <3>1
  <2>3. Served(r) => \A q \in Reqs : Sends(q, hub[r].id)' => q = r
    <3>1. ASSUME Served(r), NEW q \in Reqs, NEW i \in Ids, i = hub[r].id, Sends(q, i)'
          PROVE  q = r
      <4>1. Sends(q, i) \/ streams[i] = q
        BY <3>1 DEF ClientQuiet
      <4>2. streams[i] \in {NoReq, r} /\ NoReq \notin Reqs
        BY <2>1, <3>1, StreamAssumption DEF OwnId, NoReq
      <4> QED BY <2>1, <3>1, <4>1, <4>2 DEF OwnId
    <3> QED BY <1>1, <2>1, <3>1 DEF Sends
  <2>4. Served(r) => \A a \in 1 .. Len(fs) : fs[a].id = hub[r].id =>
           /\ fs[a].t # "data" /\ task'[r].phase # "none"
           /\ fs[a].t = "fin" => /\ task'[r].phase \in {"slot", "done"}
                                 /\ task[r].sent = Len(task[r].body)
    OBVIOUS
  <2>5. task[r].phase = "none" /\ task'[r].phase # "none" => up
    BY DEF Opens, StreamIInv, ChannelInv
  <2>6. \/ v = toClient
        \/ /\ toClient # <<>> /\ v = Tail(toClient)
           /\ InHand(r)' => Head(toClient).t # "window" \/ Head(toClient).req # r
    OBVIOUS
  <2> QED BY <1>1, <2>2, <2>3, <2>4, <2>5, <2>6, ClientQuietIntact
<1> QED BY <1>2, <1>3, <1>4, ClientRest

LEMMA EntryOnTask ==
  ASSUME StreamIInv, NEW r \in Reqs, NEW i \in Ids, streams[i] = r
  PROVE  OnTask(r) /\ task[r].id = i /\ task[r].phase \notin Unopened
  BY DEF StreamIInv, ClientInv, InStep, OnTask, Working, Unopened

LEMMA SameQuiet ==
  ASSUME StreamIInv, NEW r \in Reqs, task'[r] = task[r],
         \A i \in Ids : streams'[i] = r <=> streams[i] = r
  PROVE  ClientQuiet(r)
<1>1. InStep(r)
  BY DEF StreamIInv, ClientInv
<1>2. OnTask(r)' <=> OnTask(r)
  BY DEF OnTask
<1>3. \A i \in Ids : Sends(r, i)' <=> Sends(r, i)
  BY DEF Sends
<1>4. \A i \in Ids : streams'[i] = r <=> streams[i] = r /\ OnTask(r)'
  BY <1>2, EntryOnTask
<1> QED BY <1>1, <1>2, <1>3, <1>4 DEF ClientQuiet, TaskKept, InStep

(* The step of one task that keeps its entry.                               *)
LEMMA MoveQuiet ==
  ASSUME StreamIInv, NEW r \in Reqs,
         NEW p \in {"none", "body", "fetch", "send", "parked", "slot", "done", "refused"},
         task' = [task EXCEPT ![r].phase = p], streams' = streams,
         \/ task[r].phase \in {"fetch", "send"} /\ task[r].closed /\ p = "done"
         \/ task[r].phase = "fetch" /\ ~task[r].closed /\ p = "slot"
         \/ task[r].phase = "send" /\ ~task[r].closed /\ p = "parked"
         \/ task[r].phase = "body" /\ p = "fetch" /\ \E i \in Ids : streams[i] = r
         \/ task[r].phase = "none" /\ p = "refused"
  PROVE  /\ \A q \in Reqs : ClientQuiet(q)
         /\ task' \in [Reqs -> TaskState] /\ streams' \in [Ids -> Reqs \cup {NoReq}]
         /\ \A q \in Reqs : task'[q].sent <= Len(task'[q].body)
         /\ task'[r].phase = p /\ \A q \in Reqs : q # r => task'[q] = task[q]
<1>1. InStep(r) /\ StreamTypeOK
  BY DEF StreamIInv, ClientInv
<1>2. /\ task' \in [Reqs -> TaskState] /\ TaskKept(r)
      /\ task'[r].phase = p /\ task'[r].closed = task[r].closed
      /\ \A q \in Reqs : q # r => task'[q] = task[q]
  BY <1>1 DEF StreamTypeOK, TaskState, TaskKept
<1>3. \A q \in Reqs : q # r => ClientQuiet(q)
  BY <1>2, SameQuiet
<1>4. OnTask(r)' => OnTask(r)
  BY <1>2 DEF OnTask, Working
<1>5. \A i \in Ids : Sends(r, i)' => Sends(r, i) \/ streams[i] = r
  <2>1. ASSUME NEW i \in Ids, Sends(r, i)', task[r].phase = "body" PROVE streams[i] = r
    <3>1. task[r].id = i
      BY <1>2, <2>1 DEF Sends, TaskKept
    <3>2. PICK j \in Ids : streams[j] = r
      BY <2>1
    <3> QED BY <3>1, <3>2, EntryOnTask
  <2> QED BY <1>2, <2>1 DEF Sends
<1>6. \A i \in Ids : streams'[i] = r <=> streams[i] = r /\ OnTask(r)'
  <2>1. ASSUME NEW i \in Ids, streams[i] = r PROVE OnTask(r)'
    <3>1. OnTask(r) /\ task[r].phase \notin Unopened
      BY <2>1, EntryOnTask
    <3> QED BY <1>2, <3>1 DEF OnTask, Working, Unopened
  <2> QED BY <2>1
<1>7. ClientQuiet(r)
  BY <1>1, <1>2, <1>4, <1>5, <1>6 DEF ClientQuiet, Unopened, InStep
<1>8. \A q \in Reqs : task'[q].sent <= Len(task'[q].body)
  BY <1>1, <1>2 DEF StreamTypeOK, TaskKept
<1> QED BY <1>1, <1>2, <1>3, <1>7, <1>8 DEF StreamTypeOK

(* closeStream of an id, and the end of a task with it.                     *)
LEMMA CloseQuiet ==
  ASSUME StreamIInv, NEW i \in Ids,
         task' = TasksClosed(task, i), streams' = StreamsClosed(i)
  PROVE  /\ \A q \in Reqs : ClientQuiet(q)
         /\ task' \in [Reqs -> TaskState] /\ streams' \in [Ids -> Reqs \cup {NoReq}]
         /\ \A q \in Reqs : task'[q].sent <= Len(task'[q].body)
         /\ \A q \in Reqs : task'[q].phase = "none" <=> task[q].phase = "none"
<1>1. StreamTypeOK /\ streams[i] \in Reqs \cup {NoReq} /\ NoReq \notin Reqs
  BY StreamAssumption DEF StreamIInv, StreamTypeOK, NoReq
<1>2. /\ task' \in [Reqs -> TaskState] /\ \A q \in Reqs : TaskKept(q)
      /\ \A q \in Reqs : streams[i] # q => task'[q] = task[q]
      /\ \A q \in Reqs : streams[i] = q => task'[q] = CloseTask(task[q])
  BY <1>1, TasksClosedTyped DEF TaskKept
<1>3. /\ streams' \in [Ids -> Reqs \cup {NoReq}] /\ streams'[i] = NoReq
      /\ \A j \in Ids : j # i => streams'[j] = streams[j]
  BY <1>1, StreamsTyped
<1>4. ASSUME NEW q \in Reqs, streams[i] # q PROVE ClientQuiet(q)
  BY <1>1, <1>2, <1>3, <1>4, SameQuiet
<1>5. ASSUME NEW q \in Reqs, streams[i] = q
      PROVE  ClientQuiet(q) /\ task'[q].phase # "none" /\ task[q].phase # "none"
  <2>1. task[q] \in TaskState /\ OnTask(q) /\ task[q].id = i
    BY <1>1, <1>5, EntryOnTask DEF StreamTypeOK
  <2>2. /\ task'[q].closed
        /\ \/ task'[q].phase = task[q].phase
           \/ task[q].phase \in {"body", "slot"} /\ task'[q].phase = "done"
           \/ task[q].phase = "parked" /\ task'[q].phase = "send"
        /\ task'[q].phase \notin {"body", "slot", "parked"}
    BY <1>2, <1>5, <2>1, CloseTaskTyped
  <2>3. \A j \in Ids : streams'[j] # q
    BY <1>1, <1>3, <2>1, EntryOnTask
  <2>4. task[q].phase \in Working
    BY <2>1 DEF OnTask
  <2> QED BY <1>2, <2>2, <2>3, <2>4 DEF ClientQuiet, OnTask, Sends, Working, Unopened
<1>6. \A q \in Reqs : task'[q].phase = "none" <=> task[q].phase = "none"
  BY <1>2, <1>5
<1>7. \A q \in Reqs : task'[q].sent <= Len(task'[q].body)
  BY <1>1, <1>2 DEF StreamTypeOK, TaskKept
<1> QED BY <1>2, <1>3, <1>4, <1>5, <1>6, <1>7

LEMMA DoneTyped ==
  ASSUME NEW ts \in [Reqs -> TaskState], NEW r \in Reqs
  PROVE  LET u == [ts EXCEPT ![r].phase = "done"] IN
         /\ u \in [Reqs -> TaskState] /\ u[r].phase = "done"
         /\ \A q \in Reqs : q # r => u[q] = ts[q]
         /\ u[r].id = ts[r].id /\ u[r].credit = ts[r].credit
         /\ u[r].body = ts[r].body /\ u[r].sent = ts[r].sent
  BY DEF TaskState

LEMMA EndQuiet ==
  ASSUME StreamIInv, NEW r \in Reqs, task[r].phase \in {"fetch", "send"},
         NEW i \in Ids, task[r].id = i,
         task' = [TasksClosed(task, i) EXCEPT ![r].phase = "done"],
         streams' = StreamsClosed(i)
  PROVE  /\ \A q \in Reqs : ClientQuiet(q)
         /\ task' \in [Reqs -> TaskState] /\ streams' \in [Ids -> Reqs \cup {NoReq}]
         /\ \A q \in Reqs : task'[q].sent <= Len(task'[q].body)
         /\ \A q \in Reqs : task'[q].phase = "none" <=> task[q].phase = "none"
         /\ task'[r].phase = "done"
<1>1. StreamTypeOK /\ streams[i] \in Reqs \cup {NoReq} /\ NoReq \notin Reqs
  BY StreamAssumption DEF StreamIInv, StreamTypeOK, NoReq
<1>11. PICK ts : ts = TasksClosed(task, i)
  OBVIOUS
<1>2. /\ ts \in [Reqs -> TaskState]
      /\ \A q \in Reqs : streams[i] # q => ts[q] = task[q]
      /\ \A q \in Reqs : streams[i] = q => ts[q] = CloseTask(task[q])
      /\ \A q \in Reqs : /\ ts[q].id = task[q].id /\ ts[q].credit = task[q].credit
                         /\ ts[q].body = task[q].body /\ ts[q].sent = task[q].sent
  BY <1>1, <1>11, TasksClosedTyped
<1>3. /\ streams' \in [Ids -> Reqs \cup {NoReq}] /\ streams'[i] = NoReq
      /\ \A j \in Ids : j # i => streams'[j] = streams[j]
  BY <1>1, StreamsTyped
<1>4. task' = [ts EXCEPT ![r].phase = "done"] /\ ts \in [Reqs -> TaskState]
  BY <1>2, <1>11
<1>5. /\ task' \in [Reqs -> TaskState] /\ \A q \in Reqs : TaskKept(q)
      /\ task'[r].phase = "done" /\ \A q \in Reqs : q # r => task'[q] = ts[q]
  <2>1. /\ task' \in [Reqs -> TaskState] /\ task'[r].phase = "done"
        /\ \A q \in Reqs : q # r => task'[q] = ts[q]
        /\ task'[r].id = ts[r].id /\ task'[r].credit = ts[r].credit
        /\ task'[r].body = ts[r].body /\ task'[r].sent = ts[r].sent
    <3> DEFINE u == [ts EXCEPT ![r].phase = "done"]
    <3>1. /\ u \in [Reqs -> TaskState] /\ u[r].phase = "done"
          /\ \A q \in Reqs : q # r => u[q] = ts[q]
          /\ u[r].id = ts[r].id /\ u[r].credit = ts[r].credit
          /\ u[r].body = ts[r].body /\ u[r].sent = ts[r].sent
      BY <1>4, DoneTyped
    <3>2. task' = u
      BY <1>4
    <3> HIDE DEF u
    <3> QED BY <3>1, <3>2
  <2>2. \A q \in Reqs : TaskKept(q)
    BY <1>2, <2>1 DEF TaskKept
  <2> QED BY <2>1, <2>2
<1>6. ASSUME NEW q \in Reqs, q # r, streams[i] # q PROVE ClientQuiet(q)
  BY <1>1, <1>2, <1>3, <1>5, <1>6, SameQuiet
<1>7. ASSUME NEW q \in Reqs, q # r, streams[i] = q
      PROVE  ClientQuiet(q) /\ task'[q].phase # "none" /\ task[q].phase # "none"
  <2>1. task[q] \in TaskState /\ OnTask(q) /\ task[q].id = i
    BY <1>1, <1>7, EntryOnTask DEF StreamTypeOK
  <2>2. /\ task'[q].closed
        /\ \/ task'[q].phase = task[q].phase
           \/ task[q].phase \in {"body", "slot"} /\ task'[q].phase = "done"
           \/ task[q].phase = "parked" /\ task'[q].phase = "send"
        /\ task'[q].phase \notin {"body", "slot", "parked"}
    BY <1>2, <1>5, <1>7, <2>1, CloseTaskTyped
  <2>3. \A j \in Ids : streams'[j] # q
    BY <1>1, <1>3, <2>1, EntryOnTask
  <2>4. task[q].phase \in Working
    BY <2>1 DEF OnTask
  <2> QED BY <1>5, <2>2, <2>3, <2>4 DEF ClientQuiet, OnTask, Sends, Working, Unopened
<1>8. ClientQuiet(r)
  <2>1. \A j \in Ids : streams'[j] # r
    BY <1>1, <1>3, EntryOnTask
  <2> QED BY <1>5, <2>1 DEF ClientQuiet, OnTask, Sends, Working, Unopened
<1>9. \A q \in Reqs : task'[q].phase = "none" <=> task[q].phase = "none"
  <2>1. \A q \in Reqs : q # r /\ streams[i] # q => task'[q] = task[q]
    BY <1>2, <1>5
  <2> QED BY <1>5, <1>7, <2>1
<1>10. \A q \in Reqs : task'[q].sent <= Len(task'[q].body)
  BY <1>1, <1>5 DEF StreamTypeOK, TaskKept
<1> QED BY <1>3, <1>5, <1>6, <1>7, <1>8, <1>9, <1>10

(* Frames of one id.                                                        *)
LEMMA TwoSignals ==
  ASSUME NEW i \in Ids, NEW s \in {"ack", "fin", "rst", "close"},
         NEW t \in {"ack", "fin", "rst", "close"}
  PROVE  \E fs \in Seq(Frame) :
           /\ fs = <<Signal(s, i), Signal(t, i)>>
           /\ \A a \in 1 .. Len(fs) : fs[a].id = i /\ fs[a].t \in {s, t}
<1> DEFINE x == Signal(s, i)
           y == Signal(t, i)
<1>1. x \in Frame /\ x.t = s /\ x.id = i /\ y \in Frame /\ y.t = t /\ y.id = i
  BY SignalTyped
<1> HIDE DEF x, y
<1>2. <<x, y>> \in Seq(Frame) /\ \A a \in 1 .. Len(<<x, y>>) : <<x, y>>[a] \in {x, y}
  BY <1>1
<1> QED BY <1>1, <1>2 DEF x, y

LEMMA OneSignal ==
  ASSUME NEW i \in Ids, NEW s \in {"ack", "fin", "rst", "close"}
  PROVE  \E fs \in Seq(Frame) :
           /\ fs = <<Signal(s, i)>>
           /\ \A a \in 1 .. Len(fs) : fs[a].id = i /\ fs[a].t = s
<1> DEFINE x == Signal(s, i)
<1>1. x \in Frame /\ x.t = s /\ x.id = i
  BY SignalTyped
<1> HIDE DEF x
<1>2. <<x>> \in Seq(Frame) /\ \A a \in 1 .. Len(<<x>>) : <<x>>[a] = x
  BY <1>1
<1> QED BY <1>1, <1>2 DEF x

(* The one request in use with an id whose task sends under it.             *)
LEMMA SenderIsOwner ==
  ASSUME StreamIInv, NEW q \in Reqs, task[q].phase \in {"fetch", "send"}, ~task[q].closed
  PROVE  /\ task[q].id \in Ids
         /\ \A r \in Reqs \ cut : Served(r) /\ hub[r].id = task[q].id => r = q
<1>1. task[q].id \in Ids
  BY IdTyped DEF Working
<1>2. ASSUME NEW r \in Reqs \ cut, Served(r), hub[r].id = task[q].id PROVE r = q
  <2>1. Sends(q, hub[r].id) /\ OwnId(r)
    BY <1>2 DEF Sends, StreamIInv, UncutInv, Intact
  <2> QED BY <1>2, <2>1 DEF OwnId
<1> QED BY <1>1, <1>2

(* Whoever holds the id of a request in use is that request.                *)
LEMMA HolderIsOwner ==
  ASSUME StreamIInv, NEW i \in Ids, streams[i] # NoReq,
         NEW r \in Reqs \ cut, Served(r), hub[r].id = i
  PROVE  streams[i] = r /\ task[r].phase # "none"
<1>1. streams[i] \in {NoReq, r}
  BY DEF StreamIInv, UncutInv, Intact, OwnId
<1> QED BY <1>1, EntryOnTask DEF Unopened

LEMMA StopClosedKeeps ==
  ASSUME StreamIInv, NEW r \in Reqs, StopClosed(r)
  PROVE  StreamIInv'
<1>1. /\ task[r].phase \in {"fetch", "send"} /\ task[r].closed
      /\ task' = [task EXCEPT ![r].phase = "done"]
      /\ UNCHANGED <<toClient, toProxy, streams, proxyVars, channelVars>>
  BY DEF StopClosed
<1>2. /\ \A q \in Reqs : ClientQuiet(q)
      /\ task' \in [Reqs -> TaskState] /\ streams' \in [Ids -> Reqs \cup {NoReq}]
      /\ \A q \in Reqs : task'[q].sent <= Len(task'[q].body)
      /\ task'[r].phase = "done" /\ \A q \in Reqs : q # r => task'[q] = task[q]
  BY <1>1, MoveQuiet
<1>3. StreamTypeOK'
  BY <1>1, <1>2, ClientTypes DEF StreamIInv, StreamTypeOK
<1>4. PICK v \in Seq(Frame) : v = toClient' /\ v = toClient
  BY <1>1 DEF StreamIInv, StreamTypeOK
<1>5. <<>> \in Seq(Frame) /\ toProxy' = Sent(toProxy, <<>>) /\ 1 .. Len(<<>>) = {}
  BY <1>1, NoFrames
<1>6. \A q \in Reqs : ~(task[q].phase = "none" /\ task'[q].phase # "none")
  BY <1>1, <1>2
<1> QED BY <1>1, <1>2, <1>3, <1>4, <1>5, <1>6, ClientQuietInv

LEMMA ParkKeeps ==
  ASSUME StreamIInv, NEW r \in Reqs, Park(r)
  PROVE  StreamIInv'
<1>1. /\ task[r].phase = "send" /\ ~task[r].closed
      /\ task' = [task EXCEPT ![r].phase = "parked"]
      /\ UNCHANGED <<toClient, toProxy, streams, proxyVars, channelVars>>
  BY DEF Park, Sending
<1>2. /\ \A q \in Reqs : ClientQuiet(q)
      /\ task' \in [Reqs -> TaskState] /\ streams' \in [Ids -> Reqs \cup {NoReq}]
      /\ \A q \in Reqs : task'[q].sent <= Len(task'[q].body)
      /\ task'[r].phase = "parked" /\ \A q \in Reqs : q # r => task'[q] = task[q]
  BY <1>1, MoveQuiet
<1>3. StreamTypeOK'
  BY <1>1, <1>2, ClientTypes DEF StreamIInv, StreamTypeOK
<1>4. PICK v \in Seq(Frame) : v = toClient' /\ v = toClient
  BY <1>1 DEF StreamIInv, StreamTypeOK
<1>5. <<>> \in Seq(Frame) /\ toProxy' = Sent(toProxy, <<>>) /\ 1 .. Len(<<>>) = {}
  BY <1>1, NoFrames
<1>6. \A q \in Reqs : ~(task[q].phase = "none" /\ task'[q].phase # "none")
  BY <1>1, <1>2
<1> QED BY <1>1, <1>2, <1>3, <1>4, <1>5, <1>6, ClientQuietInv

LEMMA WithoutBodyKeeps ==
  ASSUME StreamIInv, NEW r \in Reqs, FetchAnswersWithoutBody(r)
  PROVE  StreamIInv'
<1>1. /\ task[r].phase = "fetch" /\ ~task[r].closed
      /\ task' = [task EXCEPT ![r].phase = "slot"]
      /\ toProxy' = Sent(toProxy, <<Signal("ack", task[r].id), Signal("fin", task[r].id)>>)
      /\ UNCHANGED <<toClient, streams, proxyVars, channelVars>>
  BY DEF FetchAnswersWithoutBody
<1>2. /\ \A q \in Reqs : ClientQuiet(q)
      /\ task' \in [Reqs -> TaskState] /\ streams' \in [Ids -> Reqs \cup {NoReq}]
      /\ \A q \in Reqs : task'[q].sent <= Len(task'[q].body)
      /\ task'[r].phase = "slot" /\ \A q \in Reqs : q # r => task'[q] = task[q]
  BY <1>1, MoveQuiet
<1>3. /\ task[r].id \in Ids
      /\ \A q \in Reqs \ cut : Served(q) /\ hub[q].id = task[r].id => q = r
  BY <1>1, SenderIsOwner
<1>4. PICK fs \in Seq(Frame) :
        /\ fs = <<Signal("ack", task[r].id), Signal("fin", task[r].id)>>
        /\ \A a \in 1 .. Len(fs) : fs[a].id = task[r].id /\ fs[a].t \in {"ack", "fin"}
  <2>1. PICK i \in Ids : i = task[r].id
    BY <1>3
  <2>2. "ack" \in {"ack", "fin", "rst", "close"} /\ "fin" \in {"ack", "fin", "rst", "close"}
    OBVIOUS
  <2>3. \E fs \in Seq(Frame) :
          /\ fs = <<Signal("ack", i), Signal("fin", i)>>
          /\ \A a \in 1 .. Len(fs) : fs[a].id = i /\ fs[a].t \in {"ack", "fin"}
    BY <2>2, TwoSignals
  <2> QED BY <2>1, <2>3
<1>5. toProxy' = Sent(toProxy, fs)
  BY <1>1, <1>4
<1>6. StreamTypeOK'
  BY <1>1, <1>2, <1>5, ClientTypes, SentTyped DEF StreamIInv, StreamTypeOK
<1>7. PICK v \in Seq(Frame) : v = toClient' /\ v = toClient
  BY <1>1 DEF StreamIInv, StreamTypeOK
<1>8. \A q \in Reqs : ~(task[q].phase = "none" /\ task'[q].phase # "none")
  BY <1>1, <1>2
<1>9. task[r].sent = Len(task[r].body)
  <2>1. task[r].sent = 0 /\ task[r].body = <<>>
    BY <1>1 DEF StreamIInv, ClientInv, InStep
  <2> QED BY <2>1
<1>10. \A a \in 1 .. Len(fs) : fs[a].t \in {"ack", "fin", "rst", "close"}
  BY <1>4
<1>11. \A q \in Reqs \ cut : \A a \in 1 .. Len(fs) : Served(q) /\ fs[a].id = hub[q].id =>
         /\ task'[q].phase # "none"
         /\ fs[a].t = "fin" => /\ task'[q].phase \in {"slot", "done"}
                               /\ task[q].sent = Len(task[q].body)
  BY <1>2, <1>3, <1>4, <1>9
<1> QED BY <1>1, <1>2, <1>5, <1>6, <1>7, <1>8, <1>10, <1>11, ClientQuietInv

LEMMA EndTaskKeeps ==
  ASSUME StreamIInv, NEW r \in Reqs, task[r].phase \in {"fetch", "send"}, ~task[r].closed,
         NEW frames \in Seq(Frame), EndTask(r, frames),
         \A a \in 1 .. Len(frames) :
           /\ frames[a].id = task[r].id /\ frames[a].t \in {"ack", "fin"}
           /\ frames[a].t = "fin" => task[r].sent = Len(task[r].body)
  PROVE  StreamIInv'
<1>1. /\ task[r].id \in Ids
      /\ \A q \in Reqs \ cut : Served(q) /\ hub[q].id = task[r].id => q = r
  BY SenderIsOwner
<1>2. PICK i \in Ids : i = task[r].id
  BY <1>1
<1>3. /\ task' = [TasksClosed(task, i) EXCEPT ![r].phase = "done"]
      /\ streams' = StreamsClosed(i)
      /\ toProxy' = Sent(toProxy, frames \o CloseFrames(i))
      /\ UNCHANGED <<toClient, proxyVars, channelVars>>
  BY <1>2 DEF EndTask
<1>4. /\ \A q \in Reqs : ClientQuiet(q)
      /\ task' \in [Reqs -> TaskState] /\ streams' \in [Ids -> Reqs \cup {NoReq}]
      /\ \A q \in Reqs : task'[q].sent <= Len(task'[q].body)
      /\ \A q \in Reqs : task'[q].phase = "none" <=> task[q].phase = "none"
      /\ task'[r].phase = "done"
  BY <1>2, <1>3, EndQuiet
<1>5. PICK fs \in Seq(Frame) :
        /\ fs = frames \o CloseFrames(i)
        /\ \A a \in 1 .. Len(fs) :
             /\ fs[a].id = i /\ fs[a].t \in {"ack", "fin", "close"}
             /\ fs[a].t = "fin" => task[r].sent = Len(task[r].body)
  <2>1. PICK cs \in Seq(Frame) :
          cs = CloseFrames(i) /\ \A a \in 1 .. Len(cs) : cs[a].t = "close" /\ cs[a].id = i
    BY StreamsTyped DEF StreamIInv
  <2>2. /\ frames \o cs \in Seq(Frame)
        /\ \A a \in 1 .. Len(frames \o cs) :
             \/ a \in 1 .. Len(frames) /\ (frames \o cs)[a] = frames[a]
             \/ /\ a - Len(frames) \in 1 .. Len(cs)
                /\ (frames \o cs)[a] = cs[a - Len(frames)]
    BY PutFrames
  <2>3. ASSUME NEW a \in 1 .. Len(frames \o cs)
        PROVE  /\ (frames \o cs)[a].id = i /\ (frames \o cs)[a].t \in {"ack", "fin", "close"}
               /\ (frames \o cs)[a].t = "fin" => task[r].sent = Len(task[r].body)
    BY <1>2, <2>1, <2>2
  <2> QED BY <2>1, <2>2, <2>3
<1>6. toProxy' = Sent(toProxy, fs)
  BY <1>3, <1>5
<1>7. StreamTypeOK'
  BY <1>3, <1>4, <1>6, ClientTypes, SentTyped DEF StreamIInv, StreamTypeOK
<1>8. PICK v \in Seq(Frame) : v = toClient' /\ v = toClient
  BY <1>3 DEF StreamIInv, StreamTypeOK
<1>9. \A a \in 1 .. Len(fs) : fs[a].t \in {"ack", "fin", "rst", "close"}
  BY <1>5
<1>10. \A q \in Reqs \ cut : \A a \in 1 .. Len(fs) : Served(q) /\ fs[a].id = hub[q].id =>
         /\ task'[q].phase # "none"
         /\ fs[a].t = "fin" => /\ task'[q].phase \in {"slot", "done"}
                               /\ task[q].sent = Len(task[q].body)
  BY <1>1, <1>2, <1>4, <1>5
<1> QED BY <1>3, <1>4, <1>6, <1>7, <1>8, <1>9, <1>10, ClientQuietInv

LEMMA FetchFailsKeeps ==
  ASSUME StreamIInv, NEW r \in Reqs, FetchFails(r)
  PROVE  StreamIInv'
<1>1. /\ task[r].phase = "fetch" /\ ~task[r].closed
      /\ EndTask(r, <<Signal("ack", task[r].id)>>)
  BY DEF FetchFails
<1>2. task[r].id \in Ids
  BY <1>1, SenderIsOwner
<1>3. PICK fs \in Seq(Frame) : /\ fs = <<Signal("ack", task[r].id)>>
                               /\ \A a \in 1 .. Len(fs) : fs[a].id = task[r].id /\ fs[a].t = "ack"
  BY <1>2, OneSignal
<1> QED BY <1>1, <1>3, EndTaskKeeps

LEMMA EndBodyKeeps ==
  ASSUME StreamIInv, NEW r \in Reqs, EndBody(r)
  PROVE  StreamIInv'
<1>1. /\ task[r].phase = "send" /\ ~task[r].closed /\ ~Unsent(r)
      /\ EndTask(r, <<Signal("fin", task[r].id)>>)
  BY DEF EndBody, Sending
<1>2. task[r].id \in Ids
  BY <1>1, SenderIsOwner
<1>3. PICK fs \in Seq(Frame) : /\ fs = <<Signal("fin", task[r].id)>>
                               /\ \A a \in 1 .. Len(fs) : fs[a].id = task[r].id /\ fs[a].t = "fin"
  BY <1>2, OneSignal
<1>4. task[r].sent = Len(task[r].body)
  <2>1. task[r].sent \in Nat /\ Len(task[r].body) \in Nat /\ task[r].sent <= Len(task[r].body)
    BY PieceTyped DEF StreamIInv, StreamTypeOK
  <2> QED BY <1>1, <2>1 DEF Unsent
<1> QED BY <1>1, <1>3, <1>4, EndTaskKeeps

LEMMA BodyFailsKeeps ==
  ASSUME StreamIInv, NEW r \in Reqs, BodyFails(r)
  PROVE  StreamIInv'
<1>1. /\ task[r].phase = "send" /\ ~task[r].closed /\ EndTask(r, <<>>)
  BY DEF BodyFails, Sending
<1>2. <<>> \in Seq(Frame) /\ 1 .. Len(<<>>) = {}
  BY NoFrames
<1> QED BY <1>1, <1>2, EndTaskKeeps

LEMMA CloseKeeps ==
  ASSUME StreamIInv, NEW i \in Ids,
         task' = TasksClosed(task, i), streams' = StreamsClosed(i),
         UNCHANGED <<proxyVars, channelVars>>,
         NEW v \in Seq(Frame), v = toClient',
         \/ v = toClient
         \/ toClient # <<>> /\ v = Tail(toClient) /\ Head(toClient).t # "window",
         NEW fs \in Seq(Frame), toProxy' = Sent(toProxy, fs),
         \A a \in 1 .. Len(fs) :
           fs[a].id = i /\ fs[a].t \in {"rst", "close"} /\ streams[i] # NoReq
  PROVE  StreamIInv'
<1>1. /\ \A q \in Reqs : ClientQuiet(q)
      /\ task' \in [Reqs -> TaskState] /\ streams' \in [Ids -> Reqs \cup {NoReq}]
      /\ \A q \in Reqs : task'[q].sent <= Len(task'[q].body)
      /\ \A q \in Reqs : task'[q].phase = "none" <=> task[q].phase = "none"
  BY CloseQuiet
<1>2. StreamTypeOK'
  BY <1>1, ClientTypes, SentTyped DEF StreamIInv, StreamTypeOK
<1>3. \A a \in 1 .. Len(fs) : fs[a].t \in {"ack", "fin", "rst", "close"}
  OBVIOUS
<1>4. \A q \in Reqs \ cut : \A a \in 1 .. Len(fs) : Served(q) /\ fs[a].id = hub[q].id =>
         /\ task'[q].phase # "none"
         /\ fs[a].t = "fin" => /\ task'[q].phase \in {"slot", "done"}
                               /\ task[q].sent = Len(task[q].body)
  <2>1. ASSUME NEW q \in Reqs \ cut, NEW a \in 1 .. Len(fs), Served(q), fs[a].id = hub[q].id
        PROVE  task'[q].phase # "none" /\ fs[a].t # "fin"
    <3>1. hub[q].id = i /\ streams[i] # NoReq
      BY <2>1
    <3>2. task[q].phase # "none"
      BY <2>1, <3>1, HolderIsOwner
    <3> QED BY <1>1, <3>2
  <2> QED BY <2>1
<1>5. \A q \in Reqs : ~(task[q].phase = "none" /\ task'[q].phase # "none")
  BY <1>1
<1>6. \/ v = toClient
      \/ /\ toClient # <<>> /\ v = Tail(toClient)
         /\ \A q \in Reqs \ cut :
              InHand(q)' => Head(toClient).t # "window" \/ Head(toClient).req # q
  OBVIOUS
<1> QED BY <1>1, <1>2, <1>3, <1>4, <1>5, <1>6, ClientQuietInv

LEMMA ClientSweepKeeps ==
  ASSUME StreamIInv, NEW i \in Ids, ClientSweep(i)
  PROVE  StreamIInv'
<1>1. /\ task' = TasksClosed(task, i) /\ streams' = StreamsClosed(i)
      /\ toProxy' = Sent(toProxy, CloseFrames(i))
      /\ UNCHANGED <<toClient, proxyVars, channelVars>>
  BY DEF ClientSweep, CloseStream
<1>2. PICK fs \in Seq(Frame) :
        /\ fs = CloseFrames(i)
        /\ \A a \in 1 .. Len(fs) : fs[a].t = "close" /\ fs[a].id = i /\ streams[i] # NoReq
  BY StreamsTyped DEF StreamIInv
<1>3. PICK v \in Seq(Frame) : v = toClient' /\ v = toClient
  BY <1>1 DEF StreamIInv, StreamTypeOK
<1> QED BY <1>1, <1>2, <1>3, CloseKeeps

LEMMA OnCloseKeeps ==
  ASSUME StreamIInv, toClient # <<>>, toClient' = Tail(toClient),
         Head(toClient).t = "close", CloseStream(Head(toClient).id),
         UNCHANGED <<proxyVars, channelVars>>
  PROVE  StreamIInv'
<1>1. PICK i \in Ids : i = Head(toClient).id
  BY HeadOfClient
<1>2. /\ task' = TasksClosed(task, i) /\ streams' = StreamsClosed(i)
      /\ toProxy' = Sent(toProxy, CloseFrames(i))
  BY <1>1 DEF CloseStream
<1>3. PICK fs \in Seq(Frame) :
        /\ fs = CloseFrames(i)
        /\ \A a \in 1 .. Len(fs) : fs[a].t = "close" /\ fs[a].id = i /\ streams[i] # NoReq
  BY StreamsTyped DEF StreamIInv
<1>4. PICK v \in Seq(Frame) : v = toClient' /\ v = Tail(toClient)
  BY HeadOfClient
<1>5. Head(toClient).t # "window" /\ toProxy' = Sent(toProxy, fs)
  BY <1>2, <1>3
<1> QED BY <1>2, <1>3, <1>4, <1>5, CloseKeeps

(* A frame the client takes without doing anything.                         *)
LEMMA IgnoredKeeps ==
  ASSUME StreamIInv, toClient # <<>>, toClient' = Tail(toClient),
         UNCHANGED <<clientVars, toProxy>>, UNCHANGED <<proxyVars, channelVars>>,
         \A r \in Reqs \ cut :
           InHand(r) => Head(toClient).t # "window" \/ Head(toClient).req # r
  PROVE  StreamIInv'
<1>1. task' = task /\ streams' = streams /\ cut' = cut
  BY DEF clientVars, channelVars
<1>2. \A q \in Reqs : ClientQuiet(q)
  BY <1>1, SameQuiet
<1>3. PICK v \in Seq(Frame) : v = toClient' /\ v = Tail(toClient)
  BY HeadOfClient
<1>4. <<>> \in Seq(Frame) /\ toProxy' = Sent(toProxy, <<>>) /\ 1 .. Len(<<>>) = {}
  BY NoFrames
<1>5. StreamTypeOK'
  BY <1>1, <1>3, ClientTypes DEF StreamIInv, StreamTypeOK
<1>6. \A r \in Reqs \ cut :
           InHand(r)' => Head(toClient).t # "window" \/ Head(toClient).req # r
  BY <1>1 DEF InHand
<1>7. \A q \in Reqs : ~(task[q].phase = "none" /\ task'[q].phase # "none")
  BY <1>1
<1> QED BY <1>2, <1>3, <1>4, <1>5, <1>6, <1>7, ClientQuietInv

LEMMA OnBodyKeeps ==
  ASSUME StreamIInv, toClient # <<>>, toClient' = Tail(toClient),
         Head(toClient).t = "body", OnBody(Head(toClient)),
         UNCHANGED <<proxyVars, channelVars>>
  PROVE  StreamIInv'
<1>1. PICK f \in Frame : f = Head(toClient) /\ f.id \in Ids /\ f.t = "body"
  BY HeadOfClient
<1>2. PICK r : r = streams[f.id]
  OBVIOUS
<1>3. \/ UNCHANGED <<clientVars, toProxy>>
      \/ /\ r # NoReq /\ task[r].phase = "body"
         /\ \/ /\ task' = TasksClosed(task, f.id) /\ streams' = StreamsClosed(f.id)
               /\ toProxy' = Sent(toProxy, <<Signal("rst", f.id), Signal("close", f.id)>>)
            \/ /\ task' = [task EXCEPT ![r].phase = "fetch"]
               /\ UNCHANGED <<streams, toProxy>>
  BY <1>1, <1>2 DEF OnBody
<1>4. PICK v \in Seq(Frame) : v = toClient' /\ v = Tail(toClient)
  BY HeadOfClient
<1>5. CASE UNCHANGED <<clientVars, toProxy>>
  BY <1>1, <1>5, IgnoredKeeps
<1>6. CASE /\ r # NoReq
           /\ task' = TasksClosed(task, f.id) /\ streams' = StreamsClosed(f.id)
           /\ toProxy' = Sent(toProxy, <<Signal("rst", f.id), Signal("close", f.id)>>)
  <2>1. PICK i \in Ids : i = f.id
    BY <1>1
  <2>2. PICK fs \in Seq(Frame) :
          /\ fs = <<Signal("rst", i), Signal("close", i)>>
          /\ \A a \in 1 .. Len(fs) : fs[a].id = i /\ fs[a].t \in {"rst", "close"}
    BY TwoSignals
  <2>3. /\ task' = TasksClosed(task, i) /\ streams' = StreamsClosed(i)
        /\ toProxy' = Sent(toProxy, fs) /\ streams[i] # NoReq
        /\ Head(toClient).t # "window"
    BY <1>1, <1>2, <1>6, <2>1, <2>2
  <2> QED BY <1>4, <2>2, <2>3, CloseKeeps
<1>7. CASE /\ r # NoReq /\ task[r].phase = "body"
           /\ task' = [task EXCEPT ![r].phase = "fetch"] /\ UNCHANGED <<streams, toProxy>>
  <2>1. r \in Reqs /\ \E i \in Ids : streams[i] = r
    BY <1>1, <1>2, <1>7 DEF StreamIInv, StreamTypeOK
  <2>2. /\ \A q \in Reqs : ClientQuiet(q)
        /\ task' \in [Reqs -> TaskState] /\ streams' \in [Ids -> Reqs \cup {NoReq}]
        /\ \A q \in Reqs : task'[q].sent <= Len(task'[q].body)
        /\ task'[r].phase = "fetch" /\ \A q \in Reqs : q # r => task'[q] = task[q]
    BY <1>7, <2>1, MoveQuiet
  <2>3. StreamTypeOK'
    BY <1>4, <1>7, <2>2, ClientTypes DEF StreamIInv, StreamTypeOK
  <2>4. <<>> \in Seq(Frame) /\ toProxy' = Sent(toProxy, <<>>) /\ 1 .. Len(<<>>) = {}
    BY <1>7, NoFrames
  <2>5. \A q \in Reqs : ~(task[q].phase = "none" /\ task'[q].phase # "none")
    BY <1>7, <2>2
  <2>6. \A q \in Reqs \ cut :
          InHand(q)' => Head(toClient).t # "window" \/ Head(toClient).req # q
    BY <1>1
  <2> QED BY <1>4, <2>2, <2>3, <2>4, <2>5, <2>6, ClientQuietInv
<1> QED BY <1>3, <1>5, <1>6, <1>7

(* At the limit the client acknowledges a stream and closes it.             *)
LEMMA RefusedKeeps ==
  ASSUME StreamIInv, toClient # <<>>, toClient' = Tail(toClient),
         Head(toClient).t = "open",
         task' = [task EXCEPT ![Head(toClient).req].phase = "refused"],
         toProxy' = Sent(toProxy, <<Signal("ack", Head(toClient).id),
                                    Signal("close", Head(toClient).id)>>),
         UNCHANGED streams, UNCHANGED <<proxyVars, channelVars>>
  PROVE  StreamIInv'
<1>1. PICK f \in Frame : f = Head(toClient) /\ f.id \in Ids /\ f.t = "open" /\ ToClientFrame(f)
  BY HeadOfClient
<1>2. f.req \in Reqs /\ hub[f.req].id = f.id /\ task[f.req].phase = "none"
      /\ \A q \in Reqs : Current(q) /\ hub[q].id = f.id => f.req = q
  BY <1>1 DEF ToClientFrame, OpenFor, Names
<1>3. PICK r \in Reqs : r = f.req
  BY <1>2
<1>4. task' = [task EXCEPT ![r].phase = "refused"] /\ streams' = streams
      /\ task[r].phase = "none"
  BY <1>1, <1>2, <1>3
<1>5. /\ \A q \in Reqs : ClientQuiet(q)
      /\ task' \in [Reqs -> TaskState] /\ streams' \in [Ids -> Reqs \cup {NoReq}]
      /\ \A q \in Reqs : task'[q].sent <= Len(task'[q].body)
      /\ task'[r].phase = "refused" /\ \A q \in Reqs : q # r => task'[q] = task[q]
  BY <1>4, MoveQuiet
<1>6. PICK v \in Seq(Frame) : v = toClient' /\ v = Tail(toClient)
  BY HeadOfClient
<1>7. PICK i \in Ids : i = f.id
  BY <1>1
<1>8. PICK fs \in Seq(Frame) :
        /\ fs = <<Signal("ack", i), Signal("close", i)>>
        /\ \A a \in 1 .. Len(fs) : fs[a].id = i /\ fs[a].t \in {"ack", "close"}
  BY TwoSignals
<1>9. toProxy' = Sent(toProxy, fs)
  BY <1>1, <1>7, <1>8
<1>10. StreamTypeOK'
  BY <1>5, <1>6, <1>9, ClientTypes, SentTyped DEF StreamIInv, StreamTypeOK
<1>11. \A q \in Reqs : task[q].phase = "none" /\ task'[q].phase # "none" =>
                         Opens(q) /\ v = Tail(toClient)
  BY <1>1, <1>3, <1>5, <1>6 DEF Opens
<1>12. \A q \in Reqs \ cut : \A a \in 1 .. Len(fs) : Served(q) /\ fs[a].id = hub[q].id =>
         /\ task'[q].phase # "none"
         /\ fs[a].t = "fin" => /\ task'[q].phase \in {"slot", "done"}
                               /\ task[q].sent = Len(task[q].body)
  <2>1. ASSUME NEW q \in Reqs \ cut, NEW a \in 1 .. Len(fs), Served(q), fs[a].id = hub[q].id
        PROVE  task'[q].phase # "none" /\ fs[a].t # "fin"
    <3>1. q = r
      BY <1>2, <1>3, <1>7, <1>8, <2>1 DEF Current
    <3> QED BY <1>5, <1>8, <3>1
  <2> QED BY <2>1
<1>13. \A a \in 1 .. Len(fs) : fs[a].t \in {"ack", "fin", "rst", "close"}
  BY <1>8
<1>14. \A q \in Reqs \ cut :
         InHand(q)' => Head(toClient).t # "window" \/ Head(toClient).req # q
  OBVIOUS
<1> QED BY <1>5, <1>6, <1>9, <1>10, <1>11, <1>12, <1>13, <1>14, ClientQuietInv

(* What a task sends under its id does not touch the other requests.        *)
LEMMA OthersIntact ==
  ASSUME StreamIInv, StreamTypeOK', UNCHANGED <<proxyVars, channelVars>>,
         streams' = streams, toClient' = toClient,
         NEW r \in Reqs, task[r].phase \in {"fetch", "send"}, ~task[r].closed,
         task'[r].id = task[r].id,
         \A q \in Reqs : q # r => task'[q] = task[q],
         NEW fs \in Seq(Frame), toProxy' = Sent(toProxy, fs),
         \A a \in 1 .. Len(fs) : fs[a].id = task[r].id
  PROVE  \A q \in Reqs : q # r => InStep(q)' /\ (q \notin cut => Intact(q)')
<1>1. hub' = hub /\ up' = up /\ cut' = cut
  BY DEF proxyVars, channelVars
<1>2. /\ task[r].id \in Ids
      /\ \A q \in Reqs \ cut : Served(q) /\ hub[q].id = task[r].id => q = r
  BY SenderIsOwner
<1>3. PICK v \in Seq(Frame) : v = toClient' /\ v = toClient
  BY DEF StreamTypeOK
<1>4. ASSUME NEW q \in Reqs, q # r PROVE InStep(q)' /\ (q \notin cut => Intact(q)')
  <2>1. ClientQuiet(q)
    BY <1>4, SameQuiet
  <2>2. InStep(q)'
    BY <1>1, <2>1, ClientQuietStep
  <2>3. ASSUME q \notin cut PROVE Intact(q)'
    <3>1. q \in Reqs \ cut /\ OwnId(q)
      BY <2>3 DEF StreamIInv, UncutInv, Intact
    <3>2. Served(q) => hub[q].id # task[r].id
      BY <1>2, <1>4, <3>1
    <3>3. Served(q) => \A i \in Ids : i = hub[q].id => streams'[i] \in {NoReq, q}
      BY <3>1 DEF OwnId
    <3>4. Served(q) => \A s \in Reqs : Sends(s, hub[q].id)' => s = q
      BY <1>1, <3>1, <3>2 DEF OwnId, Sends
    <3>5. Served(q) => \A a \in 1 .. Len(fs) : fs[a].id = hub[q].id =>
           /\ fs[a].t # "data" /\ task'[q].phase # "none"
           /\ fs[a].t = "fin" => /\ task'[q].phase \in {"slot", "done"}
                                 /\ task[q].sent = Len(task[q].body)
      BY <3>2
    <3>6. task[q].phase = "none" /\ task'[q].phase # "none" => up
      BY <1>4
    <3> QED BY <1>1, <1>3, <2>1, <3>1, <3>3, <3>4, <3>5, <3>6, ClientQuietIntact
  <2> QED BY <2>2, <2>3
<1> QED BY <1>4

(* The upstream answers: the body begins.                                   *)
LEMMA AnswerIntact ==
  ASSUME StreamIInv, StreamTypeOK', UNCHANGED <<proxyVars, channelVars>>,
         streams' = streams, toClient' = toClient,
         NEW r \in Reqs \ cut, task[r].phase = "fetch", ~task[r].closed,
         task'[r].phase = "send", ~task'[r].closed,
         task'[r].id = task[r].id, task'[r].credit = task[r].credit, task'[r].sent = 0,
         \A q \in Reqs : q # r => task'[q] = task[q],
         NEW fs \in Seq(Frame), toProxy' = Sent(toProxy, fs),
         \A a \in 1 .. Len(fs) : fs[a].t = "ack"
  PROVE  Intact(r)'
<1>1. /\ hub' = hub /\ up' = up /\ cut' = cut /\ Intact(r) /\ InHand(r) /\ up
      /\ Served(r)' = Served(r) /\ toProxy \in Seq(Frame)
      /\ DataOf(r)' = DataOf(r) /\ CreditOf(r)' = CreditOf(r)
      /\ task[r].sent = 0 /\ task[r].body = <<>>
  BY DEF proxyVars, channelVars, StreamIInv, UncutInv, InHand, Working, Served, Intact, Unknown,
         DataOf, CreditOf, StreamTypeOK, ClientInv, InStep
<1>2. PICK b \in Seq(Nat) : b = task'[r].body
  <2>1. task'[r].body \in Bodies \cup {<<>>} /\ Bodies \subseteq Seq(Nat \ {0})
    BY StreamAssumption DEF StreamTypeOK, TaskState
  <2>2. \A s \in Seq(Nat \ {0}) : s \in Seq(Nat)
    OBVIOUS
  <2>3. <<>> \in Seq(Nat)
    OBVIOUS
  <2> QED BY <2>1, <2>2, <2>3
<1>3. /\ BytesOf(b)[0] = 0 /\ BytesOf(<<>>)[0] = 0
      /\ BytesSent(r)' = 0 /\ BytesSent(r) = 0
  <2>1. <<>> \in Seq(Nat)
    OBVIOUS
  <2>2. BytesOf(b)[0] = 0 /\ BytesOf(<<>>)[0] = 0
    BY <2>1, BytesStep
  <2> QED BY <1>1, <1>2, <2>2 DEF BytesSent
<1>4. PICK u \in Seq(Frame) : u = toProxy' /\ u = toProxy \o fs
  BY <1>1 DEF StreamTypeOK, Sent
<1>5. Unknown(r)'
  BY <1>1 DEF Intact, Unknown
<1>6. OwnId(r)'
  <2>1. Served(r) => \A q \in Reqs : Sends(q, hub[r].id)' => q = r
    BY <1>1 DEF Sends, Intact, OwnId
  <2> QED BY <1>1, <2>1 DEF Intact, OwnId
<1>7. BodyInOrder(r)'
  <2> SUFFICES ASSUME Served(r) PROVE BodyInOrder(r)'
    BY <1>1 DEF BodyInOrder
  <2> DEFINE n == Len(hub[r].got)
  <2>1. /\ BodyInOrder(r) /\ n \in Nat /\ n <= 0
    BY <1>1 DEF Intact, BodyInOrder, StreamTypeOK, HubState
  <2>2. n = 0
    BY <2>1
  <2>3. /\ Numbered(toProxy, DataOf(r), 0, 0) /\ FinLast(toProxy, hub[r].id)
        /\ hub[r].out = 0 /\ hub[r].got = [k \in 1 .. Len(hub[r].got) |-> <<r, k>>]
        /\ \A a \in 1 .. Len(toProxy) : toProxy[a].id # hub[r].id \/ toProxy[a].t # "fin"
    BY <1>1, <1>3, <2>1, <2>2 DEF BodyInOrder
  <2>4. \A a \in 1 .. Len(fs) : fs[a] \notin DataOf(r) /\ fs[a].t # "data" /\ fs[a].t # "fin"
    BY DEF DataOf
  <2>5. Numbered(u, DataOf(r), 0, 0)
    BY <1>1, <1>4, <2>3, <2>4, NumberedJoin
  <2>6. FinLast(u, hub[r].id)
    BY <1>1, <1>4, <2>3, <2>4, FinLastPut
  <2>7. \A a \in 1 .. Len(u) : u[a] \notin DataOf(r)
    <3>1. ASSUME NEW a \in 1 .. Len(u), u[a] \in DataOf(r) PROVE FALSE
      <4>1. 0 < u[a].k /\ u[a].k <= 0
        BY <2>5, <3>1 DEF Numbered
      <4>2. u[a] \in Frame
        BY <3>1
      <4>3. u[a].k \in Nat
        BY <4>2 DEF Frame
      <4> QED BY <4>1, <4>3
    <3> QED BY <3>1
  <2>8. \A a \in 1 .. Len(u) : u[a].id # hub[r].id \/ u[a].t # "fin"
    BY <1>1, <1>4, <2>3, <2>4, PutFrames
  <2>9. hub[r].out = BytesOf(b)[Len(hub[r].got)] /\ Len(hub[r].got) <= 0
    BY <1>3, <2>1, <2>2, <2>3
  <2> HIDE DEF n
  <2>10. Numbered(u, DataOf(r), Len(hub[r].got), 0)
    BY <2>2, <2>5 DEF n
  <2> QED BY <1>1, <1>2, <1>4, <2>3, <2>6, <2>7, <2>8, <2>9, <2>10 DEF BodyInOrder
<1>8. Account(r)'
  <2>1. \A c \in Nat : Arrived(r, c) => Arrived(r, c)'
    BY <1>1, <1>3 DEF Arrived
  <2> QED BY <1>1, <1>3, <2>1 DEF Intact, Account
<1>9. Renewed(r)' /\ EndedWhole(r)'
  BY <1>1 DEF Intact, Renewed, EndedWhole
<1> QED BY <1>5, <1>6, <1>7, <1>8, <1>9 DEF Intact

LEMMA FetchAnswersKeeps ==
  ASSUME StreamIInv, NEW r \in Reqs, FetchAnswers(r)
  PROVE  StreamIInv'
<1>1. PICK b \in Bodies :
        /\ task[r].phase = "fetch" /\ ~task[r].closed
        /\ task' = [task EXCEPT ![r].phase = "send", ![r].body = b]
        /\ toProxy' = Sent(toProxy, <<Signal("ack", task[r].id)>>)
        /\ UNCHANGED <<toClient, streams, proxyVars, channelVars>>
  BY DEF FetchAnswers
<1>2. InStep(r) /\ StreamTypeOK /\ task[r].sent = 0 /\ Len(b) \in Nat
  <2>1. b \in Seq(Nat \ {0})
    BY StreamAssumption
  <2> QED BY <1>1, <2>1 DEF StreamIInv, ClientInv, InStep
<1>3. /\ task' \in [Reqs -> TaskState] /\ \A q \in Reqs : q # r => task'[q] = task[q]
      /\ task'[r].phase = "send" /\ task'[r].closed = task[r].closed
      /\ task'[r].body = b /\ task'[r].sent = task[r].sent
      /\ task'[r].id = task[r].id /\ task'[r].credit = task[r].credit
  BY <1>1, <1>2 DEF StreamTypeOK, TaskState
<1>4. task[r].id \in Ids
  BY <1>1, SenderIsOwner
<1>5. PICK fs \in Seq(Frame) : /\ fs = <<Signal("ack", task[r].id)>>
                               /\ \A a \in 1 .. Len(fs) : fs[a].id = task[r].id /\ fs[a].t = "ack"
  BY <1>4, OneSignal
<1>6. toProxy' = Sent(toProxy, fs) /\ streams' = streams /\ toClient' = toClient
  BY <1>1, <1>5
<1>7. StreamTypeOK'
  <2>1. \A q \in Reqs : task'[q].sent <= Len(task'[q].body)
    BY <1>2, <1>3 DEF StreamTypeOK
  <2> QED BY <1>1, <1>2, <1>3, <1>6, <2>1, ClientTypes, SentTyped DEF StreamTypeOK
<1>8. \A q \in Reqs : q # r => InStep(q)' /\ (q \notin cut => Intact(q)')
  BY <1>1, <1>3, <1>5, <1>6, <1>7, OthersIntact
<1>9. InStep(r)'
  BY <1>1, <1>2, <1>3 DEF InStep, Working, proxyVars
<1>10. r \notin cut => Intact(r)'
  BY <1>1, <1>2, <1>3, <1>5, <1>6, <1>7, AnswerIntact
<1>11. \A q \in Reqs : Current(q)' => Current(q)
  BY <1>1, <1>3 DEF Current, Served, InHand, Working, proxyVars, channelVars
<1>12. \A q \in Reqs : ~(task[q].phase = "none" /\ task'[q].phase # "none")
  BY <1>1, <1>3
<1>13. PICK v \in Seq(Frame) : v = toClient' /\ v = toClient
  BY <1>2, <1>6 DEF StreamTypeOK
<1>14. \A a \in 1 .. Len(fs) : /\ fs[a].t \in {"ack", "data", "fin", "rst", "close"}
                               /\ fs[a].t = "data" => fs[a].req \in Reqs
  BY <1>5
<1>15. (\A q \in Reqs : InStep(q)') /\ \A q \in Reqs \ cut : Intact(q)'
  BY <1>8, <1>9, <1>10
<1> QED BY <1>1, <1>6, <1>7, <1>11, <1>12, <1>13, <1>14, <1>15, ClientRest

(* A piece is sent: within the credit, and as the next of the body.         *)
LEMMA PieceAccount ==
  ASSUME StreamIInv, NEW r \in Reqs, Unsent(r), HasCredit(r)
  PROVE  LET m == task[r].sent
             b == task[r].body
         IN /\ m \in Nat /\ b \in Seq(Nat) /\ m + 1 \in 0 .. Len(b)
            /\ Piece(r) = b[m + 1] /\ Piece(r) \in Nat \ {0}
            /\ CreditLeft(r) \in Nat
            /\ CreditLeft(r) + Piece(r) = task[r].credit
            /\ BytesOf(b)[m + 1] = BytesSent(r) + Piece(r)
            /\ BytesSent(r) \in Nat /\ m + 1 <= Len(b)
<1> DEFINE m == task[r].sent
           b == task[r].body
<1>1. /\ StreamTypeOK /\ b \in Seq(Nat) /\ m \in 0 .. Len(b) /\ m \in Nat
      /\ m + 1 \in 1 .. Len(b) /\ Piece(r) \in Nat \ {0}
  BY PieceTyped DEF StreamIInv
<1>2. Piece(r) = b[m + 1]
  BY DEF Piece
<1>3. task[r].credit \in Nat /\ task[r].credit >= Piece(r)
  BY <1>1 DEF StreamTypeOK, TaskState, HasCredit
<1>4. CreditLeft(r) \in Nat /\ CreditLeft(r) + Piece(r) = task[r].credit
  BY <1>1, <1>3 DEF CreditLeft
<1>5. BytesSent(r) = BytesOf(b)[m]
  BY DEF BytesSent
<1> HIDE DEF m, b
<1>6. m + 1 \in 0 .. Len(b) /\ m + 1 <= Len(b) /\ (m + 1) - 1 = m
  BY <1>1
<1>7. BytesOf(b)[m + 1] = BytesOf(b)[m] + b[m + 1] /\ BytesOf(b)[m] \in Nat
  BY <1>1, <1>6, BytesStep
<1> QED BY <1>1, <1>2, <1>4, <1>5, <1>6, <1>7 DEF m, b

LEMMA SendIntact ==
  ASSUME StreamIInv, StreamTypeOK', UNCHANGED <<proxyVars, channelVars>>,
         streams' = streams, toClient' = toClient,
         NEW r \in Reqs \ cut, task[r].phase = "send", ~task[r].closed,
         Unsent(r), HasCredit(r),
         task'[r].phase = "send", ~task'[r].closed,
         task'[r].id = task[r].id, task'[r].credit = CreditLeft(r),
         task'[r].sent = task[r].sent + 1, task'[r].body = task[r].body,
         \A q \in Reqs : q # r => task'[q] = task[q],
         NEW f \in Frame, f.t = "data", f.id = task[r].id, f.req = r,
         f.k = task[r].sent + 1, f.n = Piece(r),
         toProxy' = Sent(toProxy, <<f>>)
  PROVE  Intact(r)'
<1>1. /\ hub' = hub /\ up' = up /\ cut' = cut /\ Intact(r) /\ InHand(r) /\ up
      /\ Served(r)' = Served(r) /\ toProxy \in Seq(Frame)
      /\ DataOf(r)' = DataOf(r) /\ CreditOf(r)' = CreditOf(r)
      /\ task[r].id = hub[r].id
  BY DEF proxyVars, channelVars, StreamIInv, UncutInv, InHand, Working, Served, Intact, Unknown,
         DataOf, CreditOf, StreamTypeOK, ClientInv, InStep
<1> DEFINE m == task[r].sent
           b == task[r].body
           p == Piece(r)
           s == BytesSent(r)
<1>2. /\ m \in Nat /\ b \in Seq(Nat) /\ p = b[m + 1] /\ p \in Nat \ {0}
      /\ CreditLeft(r) \in Nat /\ CreditLeft(r) + p = task[r].credit
      /\ BytesOf(b)[m + 1] = s + p /\ s \in Nat
  BY PieceAccount
<1>3. BytesSent(r)' = s + p
  BY <1>2 DEF BytesSent
<1>4. PICK u \in Seq(Frame) : u = toProxy' /\ u = toProxy \o <<f>>
  BY <1>1 DEF StreamTypeOK, Sent
<1>5. <<f>> \in Seq(Frame) /\ Len(<<f>>) = 1 /\ \A a \in 1 .. Len(<<f>>) : <<f>>[a] = f
  OBVIOUS
<1>6. Unknown(r)'
  BY <1>1 DEF Intact, Unknown
<1>7. OwnId(r)'
  <2>1. Served(r) => \A q \in Reqs : Sends(q, hub[r].id)' => q = r
    BY <1>1 DEF Sends, Intact, OwnId
  <2> QED BY <1>1, <2>1 DEF Intact, OwnId
<1>8. BodyInOrder(r)'
  <2> SUFFICES ASSUME Served(r) PROVE BodyInOrder(r)'
    BY <1>1 DEF BodyInOrder
  <2> DEFINE n == Len(hub[r].got)
  <2>1. /\ BodyInOrder(r) /\ n \in Nat /\ n <= m
        /\ Numbered(toProxy, DataOf(r), n, m) /\ FinLast(toProxy, hub[r].id)
        /\ hub[r].out = BytesOf(b)[n] /\ hub[r].got = [k \in 1 .. n |-> <<r, k>>]
        /\ \A a \in 1 .. Len(toProxy) : toProxy[a].id # hub[r].id \/ toProxy[a].t # "fin"
    BY <1>1 DEF Intact, BodyInOrder, StreamTypeOK, HubState
  <2>2. f \in DataOf(r) /\ f.k = m + 1
    BY <1>1 DEF DataOf
  <2>3. Numbered(u, DataOf(r), n, m + 1) /\ n <= m + 1
    <3>1. m \in Nat /\ n \in Nat /\ n <= m /\ toProxy \in Seq(Frame)
          /\ Numbered(toProxy, DataOf(r), n, m) /\ u = toProxy \o <<f>>
      BY <1>1, <1>2, <1>4, <2>1
    <3> HIDE DEF n, m
    <3>2. Numbered(toProxy \o <<f>>, DataOf(r), n, m + 1)
      BY <2>2, <3>1, NumberedPut
    <3> QED BY <3>1, <3>2
  <2>4. FinLast(u, hub[r].id)
    <3>1. \A a \in 1 .. Len(<<f>>) : <<f>>[a].t # "fin" \/ <<f>>[a].id # hub[r].id
      BY <1>5
    <3> QED BY <1>1, <1>4, <1>5, <2>1, <3>1, FinLastPut
  <2>5. \A a \in 1 .. Len(u) : \/ \E c \in 1 .. Len(toProxy) : u[a] = toProxy[c]
                               \/ u[a] = f
    <3>1. PICK fs \in Seq(Frame) : fs = <<f>> /\ \A a \in 1 .. Len(fs) : fs[a] = f
      BY <1>5
    <3>2. toProxy \in Seq(Frame) /\ u = toProxy \o fs
      BY <1>1, <1>4, <3>1
    <3>3. \A a \in 1 .. Len(u) :
            \/ a \in 1 .. Len(toProxy) /\ u[a] = toProxy[a]
            \/ a - Len(toProxy) \in 1 .. Len(fs) /\ u[a] = fs[a - Len(toProxy)]
      BY <3>2, PutFrames
    <3> QED BY <3>1, <3>3
  <2>6. ASSUME NEW a \in 1 .. Len(u), u[a] \in DataOf(r)
        PROVE  u[a].req = r /\ u[a].n = b[u[a].k]
    <3>1. CASE u[a] = f
      BY <1>2, <3>1
    <3>2. ASSUME NEW c \in 1 .. Len(toProxy), u[a] = toProxy[c]
          PROVE  u[a].req = r /\ u[a].n = b[u[a].k]
      BY <2>1, <2>6, <3>2 DEF BodyInOrder
    <3> QED BY <2>5, <3>1, <3>2
  <2>7. \A a \in 1 .. Len(u) : u[a].id # hub[r].id \/ u[a].t # "fin"
    BY <2>1, <2>5
  <2>8. task'[r].sent = m + 1 /\ task'[r].body = b /\ hub' = hub
        /\ DataOf(r)' = DataOf(r) /\ u = toProxy'
    BY <1>1, <1>4
  <2>9. /\ n <= m + 1 /\ hub[r].out = BytesOf(b)[n]
        /\ hub[r].got = [k \in 1 .. n |-> <<r, k>>]
    BY <2>1, <2>3
  <2> HIDE DEF m, b
  <2> QED BY <2>3, <2>4, <2>6, <2>7, <2>8, <2>9 DEF BodyInOrder
<1>9. Account(r)'
  <2> DEFINE g == hub[r].grants
             l == CreditLeft(r)
  <2>1. Account(r) /\ g \in Nat /\ Window \in Nat \ {0}
    BY <1>1, StreamAssumption DEF Intact, StreamIInv, StreamTypeOK, HubState
  <2>2. PICK c \in Nat : Arrived(r, c)
    BY <1>1, <2>1 DEF Account
  <2>3. /\ s + task[r].credit = c * Window /\ c <= g
        /\ Numbered(toClient, CreditOf(r), c, g)
    BY <2>2 DEF Arrived
  <2>4. (s + p) + l = c * Window
    <3>1. /\ l \in Nat /\ l + p = task[r].credit /\ p \in Nat /\ s \in Nat
          /\ s + task[r].credit = c * Window
      BY <1>2, <2>3
    <3> HIDE DEF l, p, s
    <3> QED BY <3>1
  <2>5. Arrived(r, c)'
    BY <1>1, <1>3, <2>3, <2>4 DEF Arrived
  <2>6. s + p <= c * Window /\ c # 0
    <3>1. /\ l \in Nat /\ c * Window \in Nat /\ (c = 0 => c * Window = 0)
          /\ p \in Nat \ {0} /\ s \in Nat
      BY <1>2, <2>1
    <3> DEFINE w == c * Window
    <3>2. (s + p) + l = w /\ w \in Nat /\ (c = 0 => w = 0)
      BY <2>4, <3>1
    <3> HIDE DEF l, p, s, w
    <3>3. s + p <= w /\ w # 0
      BY <3>1, <3>2
    <3> QED BY <3>2, <3>3 DEF w
  <2>7. c * Window <= g * Window
    <3>1. PICK d \in Nat : g = c + d
      <4>1. g - c \in Nat /\ g = c + (g - c)
        <5> HIDE DEF g
        <5> QED BY <2>1, <2>3
      <4> QED BY <4>1
    <3>2. g * Window = c * Window + d * Window /\ d * Window \in Nat /\ c * Window \in Nat
      <4> HIDE DEF g
      <4> QED BY <2>1, <3>1
    <3> HIDE DEF g
    <3> QED BY <3>2
  <2>8. s + p <= g * Window /\ g # 0
    <3>5. s + p \in Nat
      <4>1. s \in Nat /\ p \in Nat
        BY <1>2
      <4> HIDE DEF s, p
      <4> QED BY <4>1
    <3>1. c * Window \in Nat /\ g * Window \in Nat /\ s + p \in Nat
          /\ g \in Nat /\ c <= g /\ c # 0
      BY <2>1, <2>3, <2>6, <3>5
    <3> DEFINE x == s + p
               y == c * Window
               z == g * Window
    <3>2. x \in Nat /\ y \in Nat /\ z \in Nat /\ x <= y /\ y <= z
      BY <2>6, <2>7, <3>1
    <3> HIDE DEF x, y, z
    <3>3. x <= z
      BY <3>2
    <3>4. g # 0
      <4> HIDE DEF g
      <4> QED BY <3>1
    <3> QED BY <3>3, <3>4 DEF x, z
  <2>9. \A i \in Ids : i = hub[r].id => streams'[i] = r
    BY <1>1, <2>1 DEF Account
  <2>10. InHand(r)' => \E d \in Nat : Arrived(r, d)'
    BY <2>5
  <2> QED BY <1>1, <1>3, <2>8, <2>9, <2>10 DEF Account
<1>10. Renewed(r)' /\ EndedWhole(r)'
  BY <1>1 DEF Intact, Renewed, EndedWhole
<1> QED BY <1>6, <1>7, <1>8, <1>9, <1>10 DEF Intact

LEMMA SendPieceKeeps ==
  ASSUME StreamIInv, NEW r \in Reqs, SendPiece(r)
  PROVE  StreamIInv'
<1>1. /\ task[r].phase = "send" /\ ~task[r].closed /\ Unsent(r) /\ HasCredit(r)
      /\ task' = [task EXCEPT ![r].credit = CreditLeft(r), ![r].sent = @ + 1]
      /\ toProxy' = Sent(toProxy, <<Msg("data", task[r].id, r, task[r].sent + 1, Piece(r))>>)
      /\ UNCHANGED <<toClient, streams, proxyVars, channelVars>>
  BY DEF SendPiece, Sending
<1>2. /\ InStep(r) /\ StreamTypeOK /\ task[r].sent \in Nat /\ task[r].sent + 1 \in Nat
      /\ task[r].sent + 1 <= Len(task[r].body)
      /\ CreditLeft(r) \in Nat /\ Piece(r) \in Nat
  BY <1>1, PieceAccount DEF StreamIInv, ClientInv
<1>3. /\ task' \in [Reqs -> TaskState] /\ \A q \in Reqs : q # r => task'[q] = task[q]
      /\ task'[r].phase = "send" /\ task'[r].closed = task[r].closed
      /\ task'[r].body = task[r].body /\ task'[r].sent = task[r].sent + 1
      /\ task'[r].id = task[r].id /\ task'[r].credit = CreditLeft(r)
  <2>1. PICK n, l : n = task[r].sent + 1 /\ l = CreditLeft(r)
    OBVIOUS
  <2>2. task' = [task EXCEPT ![r].credit = l, ![r].sent = n] /\ n \in Nat /\ l \in Nat
    BY <1>1, <1>2, <2>1
  <2>3. /\ task' \in [Reqs -> TaskState] /\ \A q \in Reqs : q # r => task'[q] = task[q]
        /\ task'[r].phase = task[r].phase /\ task'[r].closed = task[r].closed
        /\ task'[r].body = task[r].body /\ task'[r].sent = n
        /\ task'[r].id = task[r].id /\ task'[r].credit = l
    BY <1>2, <2>2 DEF StreamTypeOK, TaskState
  <2> QED BY <1>1, <2>1, <2>3
<1>4. task[r].id \in Ids /\ r \in Reqs \cup {NoReq}
  BY <1>1, SenderIsOwner
<1>5. PICK f \in Frame : /\ f = Msg("data", task[r].id, r, task[r].sent + 1, Piece(r))
                         /\ f.t = "data" /\ f.id = task[r].id /\ f.req = r
                         /\ f.k = task[r].sent + 1 /\ f.n = Piece(r)
  BY <1>2, <1>4, MsgTyped
<1>6. PICK fs \in Seq(Frame) : fs = <<f>> /\ \A a \in 1 .. Len(fs) : fs[a] = f
  <2>1. <<f>> \in Seq(Frame) /\ \A a \in 1 .. Len(<<f>>) : <<f>>[a] = f
    OBVIOUS
  <2> QED BY <2>1
<1>7. toProxy' = Sent(toProxy, fs) /\ streams' = streams /\ toClient' = toClient
  BY <1>1, <1>5, <1>6
<1>8. StreamTypeOK'
  <2>1. \A q \in Reqs : task'[q].sent <= Len(task'[q].body)
    BY <1>2, <1>3 DEF StreamTypeOK
  <2> QED BY <1>1, <1>2, <1>3, <1>7, <2>1, ClientTypes, SentTyped DEF StreamTypeOK
<1>9. \A q \in Reqs : q # r => InStep(q)' /\ (q \notin cut => Intact(q)')
  <2>1. \A a \in 1 .. Len(fs) : fs[a].id = task[r].id
    BY <1>5, <1>6
  <2> QED BY <1>1, <1>3, <1>7, <1>8, <2>1, OthersIntact
<1>10. InStep(r)'
  BY <1>1, <1>2, <1>3 DEF InStep, Working, proxyVars
<1>11. r \notin cut => Intact(r)'
  BY <1>1, <1>3, <1>5, <1>6, <1>7, <1>8, SendIntact
<1>12. \A q \in Reqs : Current(q)' => Current(q)
  BY <1>1, <1>3 DEF Current, Served, InHand, Working, proxyVars, channelVars
<1>13. \A q \in Reqs : ~(task[q].phase = "none" /\ task'[q].phase # "none")
  BY <1>1, <1>3
<1>14. PICK v \in Seq(Frame) : v = toClient' /\ v = toClient
  BY <1>2, <1>7 DEF StreamTypeOK
<1>15. \A a \in 1 .. Len(fs) : /\ fs[a].t \in {"ack", "data", "fin", "rst", "close"}
                               /\ fs[a].t = "data" => fs[a].req \in Reqs
  BY <1>5, <1>6
<1>16. (\A q \in Reqs : InStep(q)') /\ \A q \in Reqs \ cut : Intact(q)'
  BY <1>9, <1>10, <1>11
<1> QED BY <1>1, <1>7, <1>8, <1>12, <1>13, <1>14, <1>15, <1>16, ClientRest

(* A window arrives for the request that holds the stream.                  *)
LEMMA WindowIntact ==
  ASSUME StreamIInv, StreamTypeOK', UNCHANGED <<proxyVars, channelVars>>,
         streams' = streams, toProxy' = toProxy,
         toClient # <<>>, toClient' = Tail(toClient), Head(toClient).t = "window",
         NEW r \in Reqs \ cut, streams[Head(toClient).id] = r,
         task'[r].phase = IF task[r].phase = "parked" THEN "send" ELSE task[r].phase,
         task'[r].closed = task[r].closed,
         task'[r].id = task[r].id, task'[r].credit = task[r].credit + Window,
         task'[r].sent = task[r].sent, task'[r].body = task[r].body,
         \A q \in Reqs : q # r => task'[q] = task[q]
  PROVE  Intact(r)'
<1>1. PICK f \in Frame : /\ f = Head(toClient) /\ f.id \in Ids /\ f.t = "window"
                         /\ ToClientFrame(f) /\ up
  BY HeadOfClient
<1>2. /\ hub' = hub /\ up' = up /\ cut' = cut /\ Intact(r) /\ InHand(r)
      /\ task[r].id = f.id /\ hub[r].id = f.id /\ task[r].phase # "none"
  <2>1. OnTask(r) /\ task[r].id = f.id /\ task[r].phase \notin Unopened
    BY <1>1, EntryOnTask
  <2> QED BY <1>1, <2>1 DEF proxyVars, channelVars, StreamIInv, UncutInv, InHand, OnTask,
                            ClientInv, InStep, Unopened
<1>3. f.req = r /\ CreditFor(f)
  BY <1>1, <1>2 DEF ToClientFrame, Names, Current
<1>4. /\ Served(r)' = Served(r) /\ DataOf(r)' = DataOf(r) /\ CreditOf(r)' = CreditOf(r)
      /\ BytesSent(r)' = BytesSent(r) /\ f \in CreditOf(r) /\ toClient \in Seq(Frame)
      /\ task'[r].phase # "none"
  BY <1>1, <1>2, <1>3 DEF Served, DataOf, CreditOf, BytesSent, StreamIInv, StreamTypeOK
<1>5. Unknown(r)' /\ Renewed(r)'
  BY <1>1, <1>2, <1>4 DEF Intact, Unknown, Renewed
<1>6. OwnId(r)'
  <2>1. ASSUME Served(r), NEW q \in Reqs, Sends(q, hub[r].id)' PROVE q = r
    <3>1. CASE q = r
      BY <3>1
    <3>2. CASE q # r
      BY <1>2, <2>1, <3>2 DEF Sends, Intact, OwnId
    <3> QED BY <3>1, <3>2
  <2> QED BY <1>2, <1>4, <2>1 DEF Intact, OwnId
<1>7. BodyInOrder(r)'
  <2>1. task'[r].phase \in {"slot", "done"} <=> task[r].phase \in {"slot", "done"}
    OBVIOUS
  <2> QED BY <1>2, <1>4, <2>1 DEF Intact, BodyInOrder
<1>8. Account(r)'
  <2> DEFINE g == hub[r].grants
             s == BytesSent(r)
             d == task[r].credit
  <2>1. /\ Account(r) /\ g \in Nat /\ Window \in Nat /\ d \in Nat /\ s \in Nat
    <3>1. /\ task[r].body \in Seq(Nat) /\ task[r].sent \in 0 .. Len(task[r].body)
      BY PieceTyped DEF StreamIInv
    <3> QED BY <1>2, <3>1, BytesStep, StreamAssumption
            DEF Intact, StreamIInv, StreamTypeOK, HubState, TaskState, BytesSent
  <2>2. PICK c \in Nat : Arrived(r, c)
    BY <1>2, <2>1 DEF Account
  <2>3. /\ s + d = c * Window /\ Numbered(toClient, CreditOf(r), c, g)
    BY <2>2 DEF Arrived
  <2>4. c + 1 <= g /\ Numbered(Tail(toClient), CreditOf(r), c + 1, g)
    <3> HIDE DEF g
    <3> QED BY <1>1, <1>4, <2>1, <2>3, NumberedTakeIn
  <2>5. s + (d + Window) = (c + 1) * Window
    <3>1. (c + 1) * Window = c * Window + Window /\ c * Window \in Nat
      BY <2>1
    <3> HIDE DEF s, d
    <3> QED BY <2>1, <2>3, <3>1
  <2>6. Arrived(r, c + 1)'
    BY <1>2, <1>4, <2>4, <2>5 DEF Arrived
  <2>7. InHand(r)' => \E e \in Nat : Arrived(r, e)'
    BY <2>6
  <2> QED BY <1>2, <1>4, <2>1, <2>7 DEF Account
<1>9. EndedWhole(r)'
  BY <1>2 DEF Intact, EndedWhole, Whole
<1> QED BY <1>5, <1>6, <1>7, <1>8, <1>9 DEF Intact

LEMMA OnWindowKeeps ==
  ASSUME StreamIInv, toClient # <<>>, toClient' = Tail(toClient),
         Head(toClient).t = "window", OnWindow(Head(toClient)),
         UNCHANGED <<proxyVars, channelVars>>
  PROVE  StreamIInv'
<1>1. PICK f \in Frame : /\ f = Head(toClient) /\ f.id \in Ids /\ f.t = "window"
                         /\ ToClientFrame(f) /\ up
  BY HeadOfClient
<1>2. CreditFor(f) /\ f.n = Window /\ StreamTypeOK /\ Window \in Nat
  BY <1>1, StreamAssumption DEF ToClientFrame, CreditFor, StreamIInv
<1>3. PICK r : r = streams[f.id]
  OBVIOUS
<1>4. /\ IF r = NoReq THEN UNCHANGED task
         ELSE task' = [task EXCEPT ![r].credit = @ + f.n,
                                   ![r].phase = IF @ = "parked" THEN "send" ELSE @]
      /\ UNCHANGED <<streams, toProxy>>
  BY <1>1, <1>3 DEF OnWindow
<1>5. \A q \in Reqs \ cut : InHand(q) /\ f.req = q => r = q
  BY <1>1, <1>2, <1>3 DEF CreditFor, StreamIInv, UncutInv, Intact, Account
<1>6. CASE r = NoReq
  <2>1. NoReq \notin Reqs
    BY StreamAssumption DEF NoReq
  <2>2. \A q \in Reqs \ cut :
          InHand(q) => Head(toClient).t # "window" \/ Head(toClient).req # q
    BY <1>1, <1>5, <1>6, <2>1
  <2> QED BY <1>4, <1>6, <2>2, IgnoredKeeps DEF clientVars
<1>7. CASE r # NoReq
  <2>1. r \in Reqs /\ task[r] \in TaskState /\ OnTask(r) /\ task[r].id = f.id
        /\ task[r].phase \notin Unopened
    <3>1. r \in Reqs
      BY <1>1, <1>2, <1>3, <1>7 DEF StreamTypeOK
    <3> QED BY <1>1, <1>2, <1>3, <3>1, EntryOnTask DEF StreamTypeOK
  <2>2. PICK d, p : /\ d = task[r].credit + Window
                    /\ p = IF task[r].phase = "parked" THEN "send" ELSE task[r].phase
    OBVIOUS
  <2>3. /\ d \in Nat
        /\ p \in {"none", "body", "fetch", "send", "parked", "slot", "done", "refused"}
        /\ task' = [task EXCEPT ![r].credit = d, ![r].phase = p]
    BY <1>2, <1>4, <1>7, <2>1, <2>2 DEF StreamTypeOK, TaskState
  <2>4. /\ task' \in [Reqs -> TaskState] /\ \A q \in Reqs : q # r => task'[q] = task[q]
        /\ task'[r].phase = p /\ task'[r].closed = task[r].closed
        /\ task'[r].body = task[r].body /\ task'[r].sent = task[r].sent
        /\ task'[r].id = task[r].id /\ task'[r].credit = d
    BY <1>2, <2>1, <2>3 DEF StreamTypeOK, TaskState
  <2>5. PICK v \in Seq(Frame) : v = toClient' /\ v = Tail(toClient)
    BY HeadOfClient
  <2>6. StreamTypeOK'
    <3>1. \A q \in Reqs : task'[q].sent <= Len(task'[q].body)
      BY <1>2, <2>4 DEF StreamTypeOK
    <3> QED BY <1>2, <1>4, <2>4, <2>5, <3>1, ClientTypes DEF StreamTypeOK
  <2>7. <<>> \in Seq(Frame) /\ toProxy' = Sent(toProxy, <<>>) /\ 1 .. Len(<<>>) = {}
    BY <1>4, NoFrames
  <2>8. hub' = hub /\ up' = up /\ cut' = cut
    BY DEF proxyVars, channelVars
  <2>9. \A q \in Reqs : q # r => ClientQuiet(q)
    BY <1>4, <2>4, SameQuiet
  <2>10. \A q \in Reqs : q # r => InStep(q)'
    BY <2>6, <2>8, <2>9, ClientQuietStep
  <2>11. InStep(r)'
    <3>1. InStep(r)
      BY <2>1 DEF StreamIInv, ClientInv
    <3> QED BY <1>4, <2>1, <2>2, <2>4, <2>8, <3>1 DEF InStep, Working, Unopened, OnTask
  <2>12. ASSUME NEW q \in Reqs \ cut, q # r PROVE Intact(q)'
    <3>1. OwnId(q)
      BY <2>12 DEF StreamIInv, UncutInv, Intact
    <3>2. Served(q) => \A i \in Ids : i = hub[q].id => streams'[i] \in {NoReq, q}
      BY <1>4, <3>1 DEF OwnId
    <3>3. Served(q) => \A s \in Reqs : Sends(s, hub[q].id)' => s = q
      <4>1. ASSUME Served(q), NEW s \in Reqs, Sends(s, hub[q].id)' PROVE s = q
        <5>1. CASE s # r
          BY <2>4, <2>8, <3>1, <4>1, <5>1 DEF Sends, OwnId
        <5>2. CASE s = r
          <6>1. f.id = hub[q].id
            BY <2>1, <2>4, <2>8, <4>1, <5>2 DEF Sends
          <6>2. r \in {NoReq, q}
            BY <1>1, <1>3, <3>1, <4>1, <6>1 DEF OwnId
          <6> QED BY <1>7, <2>12, <6>2
        <5> QED BY <5>1, <5>2
      <4> QED BY <4>1
    <3>4. InHand(q)' => Head(toClient).t # "window" \/ Head(toClient).req # q
      BY <1>1, <1>5, <2>4, <2>8, <2>12 DEF InHand
    <3>5. Served(q) => \A a \in 1 .. Len(<<>>) : <<>>[a].id = hub[q].id =>
           /\ <<>>[a].t # "data" /\ task'[q].phase # "none"
           /\ <<>>[a].t = "fin" => /\ task'[q].phase \in {"slot", "done"}
                                   /\ task[q].sent = Len(task[q].body)
      BY <2>7
    <3>6. task[q].phase = "none" /\ task'[q].phase # "none" => up
      BY <1>1
    <3>7. /\ ClientQuiet(q)
          /\ \/ v = toClient
             \/ /\ toClient # <<>> /\ v = Tail(toClient)
                /\ InHand(q)' => Head(toClient).t # "window" \/ Head(toClient).req # q
      BY <2>5, <2>9, <2>12, <3>4
    <3> QED BY <2>5, <2>6, <2>7, <2>8, <2>12, <3>2, <3>3, <3>5, <3>6, <3>7, ClientQuietIntact
  <2>13. ASSUME r \notin cut PROVE Intact(r)'
    <3>1. /\ streams' = streams /\ toProxy' = toProxy /\ r \in Reqs \ cut
          /\ streams[Head(toClient).id] = r
          /\ task'[r].phase = IF task[r].phase = "parked" THEN "send" ELSE task[r].phase
          /\ task'[r].credit = task[r].credit + Window
      BY <1>1, <1>3, <1>4, <2>1, <2>2, <2>4, <2>13
    <3> QED BY <2>4, <2>6, <3>1, WindowIntact
  <2>14. \A q \in Reqs : Current(q)' => Current(q)
    BY <2>1, <2>2, <2>4, <2>8 DEF Current, Served, InHand, Working, OnTask
  <2>15. \A q \in Reqs : ~(task[q].phase = "none" /\ task'[q].phase # "none")
    BY <2>1, <2>4 DEF Unopened
  <2>16. (\A q \in Reqs : InStep(q)') /\ \A q \in Reqs \ cut : Intact(q)'
    BY <2>10, <2>11, <2>12, <2>13
  <2> QED BY <2>5, <2>6, <2>7, <2>14, <2>15, <2>16, ClientRest
<1> QED BY <1>6, <1>7

(* The client opens a stream for a request.                                 *)
LEMMA OpenedIntact ==
  ASSUME StreamIInv, StreamTypeOK', UNCHANGED <<proxyVars, channelVars>>,
         toProxy' = toProxy, toClient # <<>>, toClient' = Tail(toClient),
         NEW r \in Reqs \ cut, Opens(r), NEW i \in Ids, hub[r].id = i,
         task[r].phase = "none", task'[r].phase \in {"body", "fetch"},
         task'[r].id = i, task'[r].credit = task[r].credit,
         task'[r].sent = task[r].sent, task'[r].body = task[r].body,
         \A q \in Reqs : q # r => task'[q] = task[q],
         streams' = [streams EXCEPT ![i] = r]
  PROVE  Intact(r)'
<1>1. /\ hub' = hub /\ up' = up /\ cut' = cut /\ Intact(r) /\ up
      /\ toClient \in Seq(Frame) /\ streams'[i] = r
      /\ Served(r)' = Served(r) /\ DataOf(r)' = DataOf(r) /\ CreditOf(r)' = CreditOf(r)
      /\ BytesSent(r)' = BytesSent(r)
  BY DEF proxyVars, channelVars, StreamIInv, UncutInv, ChannelInv, StreamTypeOK,
         Served, DataOf, CreditOf, BytesSent
<1>2. /\ hub[r].phase \in {"idle", "wait", "over"} /\ hub[r].grants = 0
      /\ task[r].sent = 0 /\ task[r].body = <<>> /\ task[r].credit = 0
  BY <1>1 DEF Intact, Unknown, StreamIInv, ClientInv, InStep
<1>3. Unknown(r)'
  BY <1>1 DEF Unknown
<1>4. OwnId(r)'
  <2>1. ASSUME Served(r), NEW q \in Reqs, Sends(q, hub[r].id)' PROVE q = r
    <3>1. CASE q = r
      BY <3>1
    <3>2. CASE q # r
      BY <1>1, <2>1, <3>2 DEF Sends, Intact, OwnId
    <3> QED BY <3>1, <3>2
  <2> QED BY <1>1, <2>1 DEF OwnId
<1>5. BodyInOrder(r)'
  <2>1. Served(r) => \A a \in 1 .. Len(toProxy) : toProxy[a].id # hub[r].id
    BY <1>1 DEF Intact, OwnId
  <2> QED BY <1>1, <2>1 DEF Intact, BodyInOrder
<1>6. Account(r)'
  <2>1. \A a \in 1 .. Len(toClient) : toClient[a] \notin CreditOf(r)
    <3>1. ASSUME NEW a \in 1 .. Len(toClient), toClient[a] \in CreditOf(r) PROVE FALSE
      <4>1. CreditFor(toClient[a]) /\ toClient[a].req = r
        BY <3>1 DEF CreditOf, StreamIInv, ToClientInv, ToClientFrame
      <4>2. toClient[a] \in Frame
        BY <1>1
      <4>3. 0 < toClient[a].k /\ toClient[a].k <= 0 /\ toClient[a].k \in Nat
        BY <1>2, <4>1, <4>2 DEF CreditFor, Frame
      <4> QED BY <4>3
    <3> QED BY <3>1
  <2>2. Numbered(toClient, CreditOf(r), 0, 0)
    BY <1>1, <2>1, NumberedNone
  <2>3. Head(toClient) \notin CreditOf(r)
    BY <1>1, <2>1, TakeFrame
  <2>4. Numbered(Tail(toClient), CreditOf(r), 0, 0)
    BY <1>1, <2>2, <2>3, NumberedTakeOut
  <2>5. BytesSent(r) = 0 /\ Window \in Nat
    <3>1. <<>> \in Seq(Nat)
      OBVIOUS
    <3> QED BY <1>2, <3>1, BytesStep, StreamAssumption DEF BytesSent
  <2>6. Arrived(r, 0)'
    BY <1>1, <1>2, <2>4, <2>5 DEF Arrived
  <2>7. 0 <= 0 * Window
    BY <2>5
  <2> QED BY <1>1, <1>2, <2>5, <2>6, <2>7 DEF Account
<1>7. Renewed(r)' /\ EndedWhole(r)'
  BY <1>1, <1>2 DEF Intact, Renewed, EndedWhole
<1> QED BY <1>3, <1>4, <1>5, <1>6, <1>7 DEF Intact

LEMMA OpenedKeeps ==
  ASSUME StreamIInv, toClient # <<>>, toClient' = Tail(toClient),
         Head(toClient).t = "open",
         NEW p \in {"body", "fetch"},
         task' = [task EXCEPT ![Head(toClient).req].phase = p,
                              ![Head(toClient).req].id = Head(toClient).id],
         streams' = [streams EXCEPT ![Head(toClient).id] = Head(toClient).req],
         toProxy' = toProxy, UNCHANGED <<proxyVars, channelVars>>
  PROVE  StreamIInv'
<1>1. PICK f \in Frame : /\ f = Head(toClient) /\ f.id \in Ids /\ f.t = "open"
                         /\ ToClientFrame(f) /\ up
  BY HeadOfClient
<1>2. f.req \in Reqs /\ hub[f.req].id = f.id /\ task[f.req].phase = "none"
      /\ \A q \in Reqs : Current(q) /\ hub[q].id = f.id => f.req = q
  BY <1>1 DEF ToClientFrame, OpenFor, Names
<1>3. PICK r \in Reqs : r = f.req
  BY <1>2
<1>4. PICK i \in Ids : i = f.id
  BY <1>1
<1>5. /\ task' = [task EXCEPT ![r].phase = p, ![r].id = i]
      /\ streams' = [streams EXCEPT ![i] = r] /\ task[r].phase = "none" /\ hub[r].id = i
      /\ \A q \in Reqs : Current(q) /\ hub[q].id = i => r = q
      /\ StreamTypeOK /\ Opens(r)
  BY <1>1, <1>2, <1>3, <1>4 DEF Opens, StreamIInv
<1>6. /\ task' \in [Reqs -> TaskState] /\ \A q \in Reqs : q # r => task'[q] = task[q]
      /\ task'[r].phase = p /\ task'[r].closed = task[r].closed
      /\ task'[r].body = task[r].body /\ task'[r].sent = task[r].sent
      /\ task'[r].id = i /\ task'[r].credit = task[r].credit
  BY <1>5 DEF StreamTypeOK, TaskState
<1>7. /\ streams' \in [Ids -> Reqs \cup {NoReq}] /\ streams'[i] = r
      /\ \A j \in Ids : j # i => streams'[j] = streams[j]
  <2>1. streams \in [Ids -> Reqs \cup {NoReq}] /\ streams' = [streams EXCEPT ![i] = r]
    BY <1>5 DEF StreamTypeOK
  <2> QED BY <2>1
<1>8. PICK v \in Seq(Frame) : v = toClient' /\ v = Tail(toClient)
  BY HeadOfClient
<1>9. StreamTypeOK'
  <2>1. \A q \in Reqs : task'[q].sent <= Len(task'[q].body)
    BY <1>5, <1>6 DEF StreamTypeOK
  <2> QED BY <1>5, <1>6, <1>7, <1>8, <2>1, ClientTypes DEF StreamTypeOK
<1>10. <<>> \in Seq(Frame) /\ toProxy' = Sent(toProxy, <<>>) /\ 1 .. Len(<<>>) = {}
  BY NoFrames
<1>11. hub' = hub /\ up' = up /\ cut' = cut
  BY DEF proxyVars, channelVars
<1>12. ASSUME NEW q \in Reqs PROVE InStep(q)'
  <2>1. InStep(q)
    BY DEF StreamIInv, ClientInv
  <2>2. CASE q # r
    <3>1. \A j \in Ids : streams'[j] = q => streams[j] = q
      BY <1>7, <2>2
    <3> QED BY <1>6, <1>11, <2>1, <2>2, <3>1 DEF InStep
  <2>3. CASE q = r
    <3>1. \A j \in Ids : streams[j] # r
      BY <1>5, EntryOnTask DEF Unopened
    <3>2. \A j \in Ids : streams'[j] = r => j = i
      BY <1>7, <3>1
    <3> QED BY <1>5, <1>6, <1>11, <2>1, <2>3, <3>2 DEF InStep, Working
  <2> QED BY <2>2, <2>3
<1>13. ASSUME NEW q \in Reqs \ cut, q # r PROVE Intact(q)'
  <2>1. OwnId(q) /\ (Served(q) => hub[q].id # i)
    BY <1>5, <1>13 DEF StreamIInv, UncutInv, Intact, Current
  <2>2. streams[i] # q
    <3>1. ASSUME streams[i] = q PROVE FALSE
      <4>1. OnTask(q) /\ task[q].id = i
        BY <1>13, <3>1, EntryOnTask
      <4>2. InHand(q) /\ hub[q].id = i
        BY <1>13, <4>1 DEF InHand, OnTask, StreamIInv, ClientInv, InStep
      <4> QED BY <1>5, <1>13, <4>2 DEF Current
    <3> QED BY <3>1
  <2>3. ClientQuiet(q)
    <3>1. \A j \in Ids : streams'[j] = q <=> streams[j] = q
      BY <1>7, <1>13, <2>2
    <3> QED BY <1>6, <1>13, <3>1, SameQuiet
  <2>4. Served(q) => \A j \in Ids : j = hub[q].id => streams'[j] \in {NoReq, q}
    BY <1>7, <2>1 DEF OwnId
  <2>5. Served(q) => \A s \in Reqs : Sends(s, hub[q].id)' => s = q
    <3>1. ASSUME Served(q), NEW s \in Reqs, Sends(s, hub[q].id)' PROVE s = q
      <4>1. s # r
        BY <1>6, <1>11, <2>1, <3>1 DEF Sends
      <4> QED BY <1>6, <1>11, <2>1, <3>1, <4>1 DEF Sends, OwnId
    <3> QED BY <3>1
  <2>6. Served(q) => \A a \in 1 .. Len(<<>>) : <<>>[a].id = hub[q].id =>
           /\ <<>>[a].t # "data" /\ task'[q].phase # "none"
           /\ <<>>[a].t = "fin" => /\ task'[q].phase \in {"slot", "done"}
                                   /\ task[q].sent = Len(task[q].body)
    BY <1>10
  <2>7. task[q].phase = "none" /\ task'[q].phase # "none" => up
    BY <1>1
  <2>8. \/ v = toClient
        \/ /\ toClient # <<>> /\ v = Tail(toClient)
           /\ InHand(q)' => Head(toClient).t # "window" \/ Head(toClient).req # q
    BY <1>8
  <2> QED BY <1>8, <1>9, <1>10, <1>11, <1>13, <2>3, <2>4, <2>5, <2>6, <2>7, <2>8,
             ClientQuietIntact
<1>14. r \notin cut => Intact(r)'
  BY <1>5, <1>6, <1>9, OpenedIntact
<1>15. \A q \in Reqs : Current(q)' => Current(q) \/ Opens(q)
  BY <1>5, <1>6, <1>11 DEF Current, Served, InHand
<1>16. \A q \in Reqs : task[q].phase = "none" /\ task'[q].phase # "none" =>
                         Opens(q) /\ v = Tail(toClient)
  BY <1>5, <1>6, <1>8
<1>17. (\A q \in Reqs : InStep(q)') /\ \A q \in Reqs \ cut : Intact(q)'
  BY <1>12, <1>13, <1>14
<1>18. \A a \in 1 .. Len(<<>>) : /\ <<>>[a].t \in {"ack", "data", "fin", "rst", "close"}
                                 /\ <<>>[a].t = "data" => <<>>[a].req \in Reqs
  BY <1>10
<1> QED BY <1>8, <1>9, <1>10, <1>15, <1>16, <1>17, <1>18, ClientRest

LEMMA OnStreamOpenKeeps ==
  ASSUME StreamIInv, toClient # <<>>, toClient' = Tail(toClient),
         Head(toClient).t = "open", OnStreamOpen(Head(toClient)),
         UNCHANGED <<proxyVars, channelVars>>
  PROVE  StreamIInv'
<1>1. CASE Cardinality(Active) >= MaxStreams
  <2>1. /\ task' = [task EXCEPT ![Head(toClient).req].phase = "refused"]
        /\ toProxy' = Sent(toProxy, <<Signal("ack", Head(toClient).id),
                                      Signal("close", Head(toClient).id)>>)
        /\ UNCHANGED streams
    BY <1>1 DEF OnStreamOpen
  <2> QED BY <2>1, RefusedKeeps
<1>2. CASE ~(Cardinality(Active) >= MaxStreams)
  <2>1. PICK p \in {"body", "fetch"} : p = IF NeedsBody(Head(toClient)) THEN "body" ELSE "fetch"
    OBVIOUS
  <2>2. /\ task' = [task EXCEPT ![Head(toClient).req].phase = p,
                                ![Head(toClient).req].id = Head(toClient).id]
        /\ streams' = [streams EXCEPT ![Head(toClient).id] = Head(toClient).req]
        /\ UNCHANGED toProxy
    BY <1>2, <2>1 DEF OnStreamOpen
  <2> QED BY <2>2, OpenedKeeps
<1> QED BY <1>1, <1>2

LEMMA ClientReceiveKeeps ==
  ASSUME StreamIInv, ClientReceive
  PROVE  StreamIInv'
<1>1. /\ toClient # <<>> /\ toClient' = Tail(toClient)
      /\ UNCHANGED <<proxyVars, channelVars>>
  BY DEF ClientReceive
<1>2. CASE Head(toClient).t = "open" /\ OnStreamOpen(Head(toClient))
  BY <1>1, <1>2, OnStreamOpenKeeps
<1>3. CASE Head(toClient).t = "body" /\ OnBody(Head(toClient))
  BY <1>1, <1>3, OnBodyKeeps
<1>4. CASE Head(toClient).t = "window" /\ OnWindow(Head(toClient))
  BY <1>1, <1>4, OnWindowKeeps
<1>5. CASE Head(toClient).t = "close" /\ CloseStream(Head(toClient).id)
  BY <1>1, <1>5, OnCloseKeeps
<1> QED BY <1>2, <1>3, <1>4, <1>5 DEF ClientReceive

LEMMA StreamNextKeeps ==
  ASSUME StreamIInv, [StreamNext]_streamVars
  PROVE  StreamIInv'
<1>1. ASSUME NEW r \in Reqs, Browser(r) PROVE StreamIInv'
  BY <1>1, StartStreamKeeps, BrowserLeavesKeeps DEF Browser
<1>2. ASSUME NEW r \in Reqs, HubStep(r) PROVE StreamIInv'
  BY <1>2, AckTimeoutKeeps, RegisterKeeps, HubSweepKeeps DEF HubStep
<1>3. ASSUME NEW r \in Reqs, ClientStep(r) PROVE StreamIInv'
  <2>1. CASE FetchAnswers(r) \/ FetchAnswersWithoutBody(r) \/ FetchFails(r)
    BY <2>1, FetchAnswersKeeps, WithoutBodyKeeps, FetchFailsKeeps
  <2>2. CASE StopClosed(r) \/ SendPiece(r) \/ Park(r)
    BY <2>2, StopClosedKeeps, SendPieceKeeps, ParkKeeps
  <2>3. CASE EndBody(r) \/ BodyFails(r)
    BY <2>3, EndBodyKeeps, BodyFailsKeeps
  <2> QED BY <1>3, <2>1, <2>2, <2>3 DEF ClientStep
<1>4. ASSUME NEW id \in Ids, ClientSweep(id) PROVE StreamIInv'
  BY <1>4, ClientSweepKeeps
<1>5. CASE HubReceive
  BY <1>5, HubReceiveKeeps
<1>6. CASE ClientReceive
  BY <1>6, ClientReceiveKeeps
<1>7. CASE Drop
  BY <1>7, DropKeeps
<1>8. CASE ChannelBack
  BY <1>8, ChannelBackKeeps
<1>9. CASE HubRestart
  BY <1>9, HubRestartKeeps
<1>10. CASE Stopped \/ UNCHANGED streamVars
  BY <1>10, StutterKeeps DEF Stopped
<1> QED BY <1>1, <1>2, <1>3, <1>4, <1>5, <1>6, <1>7, <1>8, <1>9, <1>10 DEF StreamNext

LEMMA StreamStart ==
  ASSUME StreamInit
  PROVE  StreamIInv
<1>1. /\ IsFiniteSet(Reqs) /\ Cardinality(Reqs) \in Nat /\ NoReq \notin Reqs
      /\ MaxLosses \in Nat
  BY StreamAssumption, FS_CardinalityType DEF NoReq
<1>2. /\ up = TRUE /\ toClient = <<>> /\ toProxy = <<>> /\ nextId = 1
      /\ cut = {} /\ losses = 0
      /\ hub = [r \in Reqs |-> [phase |-> "idle", id |-> 0, out |-> 0, lastGranted |-> 0,
                                grants |-> 0, browser |-> "none", got |-> <<>>]]
      /\ streams = [i \in Ids |-> NoReq]
      /\ task = [r \in Reqs |-> [phase |-> "none", id |-> 0, closed |-> FALSE,
                                 credit |-> 0, body |-> <<>>, sent |-> 0]]
  BY DEF StreamInit
<1>3. \A r \in Reqs :
        /\ hub[r].phase = "idle" /\ hub[r].id = 0 /\ hub[r].out = 0
        /\ hub[r].lastGranted = 0 /\ hub[r].grants = 0
        /\ hub[r].browser = "none" /\ hub[r].got = <<>>
        /\ task[r].phase = "none" /\ task[r].id = 0 /\ task[r].closed = FALSE
        /\ task[r].credit = 0 /\ task[r].body = <<>> /\ task[r].sent = 0
  BY <1>2
<1>4. StreamTypeOK
  <2>1. <<>> \in Seq(Frame) /\ <<>> \in Seq(Reqs \X Nat) /\ Len(<<>>) = 0
    OBVIOUS
  <2>2. hub \in [Reqs -> HubState]
    BY <1>2, <2>1 DEF HubState
  <2>3. task \in [Reqs -> TaskState]
    BY <1>2 DEF TaskState
  <2>4. streams \in [Ids -> Reqs \cup {NoReq}]
    BY <1>2
  <2>5. nextId \in 1 .. Cardinality(Reqs) + 1 /\ losses \in 0 .. MaxLosses
    BY <1>1, <1>2
  <2>6. \A r \in Reqs : task[r].sent <= Len(task[r].body)
    BY <1>3, <2>1
  <2> QED BY <1>2, <2>1, <2>2, <2>3, <2>4, <2>5, <2>6 DEF StreamTypeOK
<1>5. \A r \in Reqs : ~Served(r) /\ ~InHand(r) /\ BytesSent(r) = 0
  <2>1. <<>> \in Seq(Nat)
    OBVIOUS
  <2> QED BY <1>3, <2>1, BytesStep DEF Served, InHand, Working, BytesSent
<1>6. ChannelInv /\ ToClientInv /\ ToProxyInv
  BY <1>2 DEF ChannelInv, ToClientInv, ToProxyInv
<1>7. IdsInv
  <2>1. Reqs \ InPhase("idle") = {}
    BY <1>3 DEF InPhase
  <2>2. Cardinality({}) = 0
    BY FS_EmptySet
  <2>3. nextId <= Cardinality(Reqs \ InPhase("idle")) + 1
    <3>1. Cardinality(Reqs \ InPhase("idle")) = 0
      BY <2>1, <2>2
    <3>2. nextId = 1
      BY <1>2
    <3>3. 1 <= 0 + 1
      OBVIOUS
    <3> QED BY <3>1, <3>2, <3>3
  <2> QED BY <1>5, <2>3 DEF IdsInv, Current
<1>8. ProxyInv
  BY <1>3 DEF ProxyInv, OnRecord
<1>9. ClientInv
  BY <1>1, <1>2, <1>3 DEF ClientInv, InStep, Working
<1>10. UncutInv
  <2>1. ASSUME NEW r \in Reqs PROVE Intact(r)
    <3>1. Window \in Nat
      BY StreamAssumption
    <3>2. Account(r)
      BY <1>3, <1>5, <3>1 DEF Account
    <3> QED BY <1>3, <1>5, <3>2 DEF Intact, Unknown, OwnId, BodyInOrder, Renewed, EndedWhole
  <2> QED BY <2>1 DEF UncutInv
<1> QED BY <1>4, <1>6, <1>7, <1>8, <1>9, <1>10 DEF StreamIInv

(* Whatever browsers, hub and client do, whatever the channel loses and     *)
(* however often the hub starts again: the invariant that ties the hub's    *)
(* and the client's record of a stream to the frames between them           *)
(* (TunnelProxy, TunnelClient).                                             *)
THEOREM StreamInvariance ==
  StreamSpec => []StreamIInv
<1>1. StreamInit => StreamIInv
  BY StreamStart
<1>2. StreamIInv /\ [StreamNext]_streamVars => StreamIInv'
  BY StreamNextKeeps
<1> QED BY <1>1, <1>2, PTL DEF StreamSpec

(* The state keeps its types: ids within the requests that came, credit and *)
(* counts natural, no more pieces sent than the body has.                   *)
THEOREM StreamTypeCorrect ==
  StreamSpec => []StreamTypeOK
<1>1. StreamIInv => StreamTypeOK
  BY DEF StreamIInv
<1> QED BY <1>1, StreamInvariance, PTL

(* A response the browser saw end normally is whole, its own and in order,  *)
(* unless the channel dropped under it or a restarted hub gave it an id     *)
(* still in use (onHttpFrame, sendPayload, closeStream "done").             *)
THEOREM EndedIsCompleteHolds ==
  StreamSpec => []EndedIsComplete
<1>1. StreamIInv => EndedIsComplete
  BY DEF StreamIInv, UncutInv, Intact, EndedWhole, EndedIsComplete
<1> QED BY <1>1, StreamInvariance, PTL

(* The client never sends a byte the hub has not granted, whatever the      *)
(* sizes of pieces and window (sendPayload, grantCredit).                   *)
THEOREM SentWithinGrantsHolds ==
  StreamSpec => []SentWithinGrants
<1>1. StreamIInv => SentWithinGrants
  BY DEF StreamIInv, UncutInv, Intact, Account, SentWithinGrants
<1> QED BY <1>1, StreamInvariance, PTL

-----------------------------------------------------------------------------
(* A parked task waits for credit it does not have: whatever gives it       *)
(* credit, or closes its stream, wakes it.                                  *)
Waits(r) == task[r].phase = "parked" => Unsent(r) /\ ~HasCredit(r)
WaitsForCredit == \A r \in Reqs : Waits(r)

LEMMA ParkedKept ==
  ASSUME NEW r \in Reqs, Waits(r),
         task'[r].phase = "parked" => task'[r] = task[r]
  PROVE  Waits(r)'
  BY DEF Waits, Unsent, HasCredit, Piece

LEMMA WakesClosed ==
  ASSUME StreamIInv, NEW i \in Ids
  PROVE  \A q \in Reqs : LET t == TasksClosed(task, i)[q] IN
                           t.phase = "parked" => t = task[q]
<1>1. ASSUME NEW q \in Reqs
      PROVE  TasksClosed(task, i)[q].phase = "parked" => TasksClosed(task, i)[q] = task[q]
  <2>1. StreamTypeOK /\ task[q] \in TaskState
    BY DEF StreamIInv, StreamTypeOK
  <2>2. CASE streams[i] # q
    BY <2>1, <2>2, TasksClosedTyped
  <2>3. CASE streams[i] = q
    <3>1. TasksClosed(task, i)[q] = CloseTask(task[q])
      BY <2>1, <2>3, TasksClosedTyped
    <3>2. CloseTask(task[q]).phase # "parked"
      BY <2>1, CloseTaskTyped
    <3> QED BY <3>1, <3>2
  <2> QED BY <2>2, <2>3
<1> QED BY <1>1

(* A step that moves one task, to a phase other than parked.                *)
LEMMA MovesAwake ==
  ASSUME StreamIInv, NEW r \in Reqs, NEW t \in TaskState, t.phase # "parked",
         task' = [task EXCEPT ![r] = t]
  PROVE  \A q \in Reqs : task'[q].phase = "parked" => task'[q] = task[q]
<1>1. task \in [Reqs -> TaskState]
  BY DEF StreamIInv, StreamTypeOK
<1> QED BY <1>1

LEMMA AwakeClient ==
  ASSUME StreamIInv, NEW r \in Reqs, ClientStep(r), ~Park(r)
  PROVE  \A q \in Reqs : task'[q].phase = "parked" => task'[q] = task[q]
<1>1. task \in [Reqs -> TaskState]
  BY DEF StreamIInv, StreamTypeOK
<1>2. ASSUME NEW frames, EndTask(r, frames), task[r].phase \in {"fetch", "send"}
      PROVE  \A q \in Reqs : task'[q].phase = "parked" => task'[q] = task[q]
  <2>1. PICK i \in Ids : i = task[r].id
    BY <1>2, IdTyped DEF Working
  <2>2. PICK ts : ts = TasksClosed(task, i)
    OBVIOUS
  <2>3. /\ ts \in [Reqs -> TaskState]
        /\ \A q \in Reqs : ts[q].phase = "parked" => ts[q] = task[q]
    BY <2>2, TasksClosedTyped, WakesClosed DEF StreamIInv
  <2>4. task' = [ts EXCEPT ![r].phase = "done"]
    BY <1>2, <2>1, <2>2 DEF EndTask
  <2>5. task'[r].phase = "done" /\ \A q \in Reqs : q # r => task'[q] = ts[q]
    BY <2>3, <2>4, DoneTyped
  <2> QED BY <2>3, <2>5
<1>3. CASE FetchAnswers(r) \/ FetchAnswersWithoutBody(r) \/ StopClosed(r)
  BY <1>1, <1>3 DEF FetchAnswers, FetchAnswersWithoutBody, StopClosed, TaskState
<1>4. CASE SendPiece(r)
  <2>1. PICK l, n : l = CreditLeft(r) /\ n = task[r].sent + 1
    OBVIOUS
  <2>2. task' = [task EXCEPT ![r].credit = l, ![r].sent = n] /\ task[r].phase = "send"
    BY <1>4, <2>1 DEF SendPiece, Sending
  <2> QED BY <1>1, <2>2 DEF TaskState
<1>5. CASE FetchFails(r) \/ EndBody(r) \/ BodyFails(r)
  BY <1>2, <1>5 DEF FetchFails, EndBody, BodyFails, Sending
<1> QED BY <1>3, <1>4, <1>5 DEF ClientStep

LEMMA ParkWaits ==
  ASSUME StreamIInv, WaitsForCredit, NEW r \in Reqs, Park(r)
  PROVE  WaitsForCredit'
<1>1. /\ task \in [Reqs -> TaskState] /\ Unsent(r) /\ ~HasCredit(r)
      /\ task' = [task EXCEPT ![r].phase = "parked"]
  BY DEF StreamIInv, StreamTypeOK, Park
<1>2. /\ task'[r].credit = task[r].credit /\ task'[r].sent = task[r].sent
      /\ task'[r].body = task[r].body /\ \A q \in Reqs : q # r => task'[q] = task[q]
  BY <1>1 DEF TaskState
<1>3. Waits(r)'
  BY <1>1, <1>2 DEF Waits, Unsent, HasCredit, Piece
<1>4. \A q \in Reqs : q # r => Waits(q)'
  BY <1>2, ParkedKept DEF WaitsForCredit
<1> QED BY <1>3, <1>4 DEF WaitsForCredit

LEMMA AwakeReceive ==
  ASSUME StreamIInv, ClientReceive
  PROVE  \A q \in Reqs : task'[q].phase = "parked" => task'[q] = task[q]
<1>1. task \in [Reqs -> TaskState]
  BY DEF StreamIInv, StreamTypeOK
<1>2. PICK f \in Frame : f = Head(toClient) /\ f.id \in Ids /\ ToClientFrame(f)
  BY HeadOfClient DEF ClientReceive
<1>3. CASE f.t = "open" /\ OnStreamOpen(f)
  <2>1. f.req \in Reqs
    BY <1>2, <1>3 DEF ToClientFrame, OpenFor
  <2>2. PICK p \in {"body", "fetch"} : p = IF NeedsBody(f) THEN "body" ELSE "fetch"
    OBVIOUS
  <2>3. \/ task' = [task EXCEPT ![f.req].phase = "refused"]
        \/ task' = [task EXCEPT ![f.req].phase = p, ![f.req].id = f.id]
    BY <1>3, <2>2 DEF OnStreamOpen
  <2> QED BY <1>1, <2>1, <2>3 DEF TaskState
<1>4. CASE f.t = "body" /\ OnBody(f)
  <2>1. PICK r : r = streams[f.id]
    OBVIOUS
  <2>2. \/ task' = task
        \/ task' = TasksClosed(task, f.id)
        \/ r # NoReq /\ task' = [task EXCEPT ![r].phase = "fetch"]
    BY <1>4, <2>1 DEF OnBody, clientVars
  <2>3. r \in Reqs \cup {NoReq}
    BY <1>2, <2>1 DEF StreamIInv, StreamTypeOK
  <2>4. CASE task' = TasksClosed(task, f.id)
    BY <1>2, <2>4, WakesClosed
  <2> QED BY <1>1, <2>2, <2>3, <2>4 DEF TaskState
<1>5. CASE f.t = "window" /\ OnWindow(f)
  <2>1. PICK r : r = streams[f.id]
    OBVIOUS
  <2>2. PICK d, p : /\ d = task[r].credit + f.n
                    /\ p = IF task[r].phase = "parked" THEN "send" ELSE task[r].phase
    OBVIOUS
  <2>3. r \in Reqs \cup {NoReq}
    BY <1>2, <2>1 DEF StreamIInv, StreamTypeOK
  <2>4. \/ task' = task
        \/ r \in Reqs /\ task' = [task EXCEPT ![r].credit = d, ![r].phase = p]
    BY <1>1, <1>5, <2>1, <2>2, <2>3 DEF OnWindow, TaskState
  <2> QED BY <1>1, <2>2, <2>4 DEF TaskState
<1>6. CASE f.t = "close" /\ CloseStream(f.id)
  BY <1>2, <1>6, WakesClosed DEF CloseStream
<1> QED BY <1>2, <1>3, <1>4, <1>5, <1>6 DEF ClientReceive

LEMMA WaitsKept ==
  ASSUME StreamIInv, WaitsForCredit, [StreamNext]_streamVars
  PROVE  WaitsForCredit'
<1>1. ASSUME \A q \in Reqs : task'[q].phase = "parked" => task'[q] = task[q]
      PROVE  WaitsForCredit'
  BY <1>1, ParkedKept DEF WaitsForCredit
<1>2. ASSUME task' = task PROVE WaitsForCredit'
  BY <1>1, <1>2
<1>3. ASSUME NEW r \in Reqs, Browser(r) \/ HubStep(r) PROVE task' = task
  BY <1>3 DEF Browser, HubStep, StartHttpStream, BrowserLeaves, AckTimeout, Register,
              HubSweep, clientVars
<1>4. ASSUME NEW r \in Reqs, ClientStep(r) PROVE WaitsForCredit'
  BY <1>1, <1>4, AwakeClient, ParkWaits
<1>5. ASSUME NEW id \in Ids, ClientSweep(id) PROVE WaitsForCredit'
  <2>1. task' = TasksClosed(task, id)
    BY <1>5 DEF ClientSweep, CloseStream
  <2> QED BY <1>1, <2>1, WakesClosed
<1>6. CASE HubReceive \/ Drop \/ ChannelBack \/ HubRestart \/ Stopped \/ UNCHANGED streamVars
  BY <1>2, <1>6 DEF HubReceive, Drop, ChannelBack, HubRestart, Stopped, clientVars, streamVars
<1>7. CASE ClientReceive
  BY <1>1, <1>7, AwakeReceive
<1> QED BY <1>2, <1>3, <1>4, <1>5, <1>6, <1>7 DEF StreamNext

(* Were no credit and no data on its way, a parked task would hold more     *)
(* than half a window, which is enough for a piece that fits.               *)
LEMMA NoneStalls ==
  ASSUME PiecesFit, StreamIInv, WaitsForCredit
  PROVE  NoCreditStall
<1> SUFFICES ASSUME NEW r \in Reqs, task[r].phase = "parked", hub[r].phase = "open",
                    r \notin cut,
                    ~ \E i \in 1 .. Len(toClient) :
                        toClient[i].id = task[r].id /\ toClient[i].t \in {"window", "close"},
                    ~ \E i \in 1 .. Len(toProxy) :
                        toProxy[i].id = task[r].id /\ toProxy[i].t = "data"
             PROVE  FALSE
  BY DEF NoCreditStall
<1> DEFINE W == Window
           g == hub[r].grants
           o == hub[r].out
           l == hub[r].lastGranted
           d == task[r].credit
           m == task[r].sent
           n == Len(hub[r].got)
<1>1. /\ Intact(r) /\ InHand(r) /\ Served(r) /\ StreamTypeOK /\ task[r].id = hub[r].id
      /\ Unsent(r) /\ ~HasCredit(r)
      /\ g \in Nat /\ o \in Nat /\ l \in Nat /\ d \in Nat /\ m \in Nat /\ n \in Nat
      /\ W \in Nat /\ toClient \in Seq(Frame) /\ toProxy \in Seq(Frame)
  <2>1. StreamTypeOK /\ Intact(r) /\ InStep(r) /\ Waits(r)
    BY DEF StreamIInv, UncutInv, ClientInv, WaitsForCredit
  <2>2. /\ InHand(r) /\ Served(r) /\ task[r].id = hub[r].id
        /\ Unsent(r) /\ ~HasCredit(r)
    BY <2>1 DEF InStep, InHand, Served, Working, Waits
  <2>3. hub[r] \in HubState /\ task[r] \in TaskState
        /\ toClient \in Seq(Frame) /\ toProxy \in Seq(Frame)
    BY <2>1 DEF StreamTypeOK
  <2>4. g \in Nat /\ o \in Nat /\ l \in Nat /\ d \in Nat /\ m \in Nat /\ n \in Nat
    BY <2>3 DEF HubState, TaskState
  <2>5. W \in Nat
    BY StreamAssumption
  <2> QED BY <2>1, <2>2, <2>3, <2>4, <2>5
<1>2. PICK c \in Nat : Arrived(r, c)
  BY <1>1 DEF Intact, Account
<1>3. c = g
  <2>1. \A a \in 1 .. Len(toClient) : toClient[a] \notin CreditOf(r)
    BY <1>1 DEF CreditOf, StreamIInv, ToClientInv, ToClientFrame, CreditFor
  <2>2. Numbered(toClient, CreditOf(r), c, g) /\ c <= g
    BY <1>2 DEF Arrived
  <2>3. g <= c
    <3> HIDE DEF g
    <3> QED BY <1>1, <2>1, <2>2, NumberedNone DEF g
  <2> HIDE DEF g
  <2> QED BY <1>1, <2>2, <2>3 DEF g
<1>4. m = n
  <2>1. \A a \in 1 .. Len(toProxy) : toProxy[a] \notin DataOf(r)
    BY <1>1 DEF DataOf
  <2>2. Numbered(toProxy, DataOf(r), n, m) /\ n <= m
    BY <1>1 DEF Intact, BodyInOrder
  <2>3. m <= n
    BY <1>1, <2>1, <2>2, NumberedNone
  <2> HIDE DEF m, n
  <2> QED BY <1>1, <2>2, <2>3 DEF m, n
<1>5. o = BytesSent(r)
  BY <1>1, <1>4 DEF Intact, BodyInOrder, BytesSent
<1>6. o + d = g * W
  BY <1>2, <1>3, <1>5 DEF Arrived
<1>7. l <= (g - 1) * W /\ 2 * (o - l) < W
  BY <1>1 DEF Intact, Renewed
<1>8. d < Piece(r) /\ Piece(r) \in Nat /\ 2 * Piece(r) <= W + 2
  <2>1. Piece(r) \in Nat \ {0} /\ task[r].sent + 1 \in 1 .. Len(task[r].body)
    BY <1>1, PieceTyped
  <2>2. ~(d >= Piece(r))
    BY <1>1 DEF HasCredit
  <2>3. task[r].body \in Bodies
    <3>1. task[r].body # <<>>
      BY <2>1
    <3> QED BY <1>1, <3>1 DEF StreamTypeOK, TaskState
  <2>4. 2 * Piece(r) <= W + 2
    BY <2>1, <2>3 DEF PiecesFit, Piece
  <2> HIDE DEF d
  <2> QED BY <1>1, <2>1, <2>2, <2>4 DEF d
<1> HIDE DEF W, g, o, l, d
<1>9. (g - 1) * W = g * W - W /\ g * W \in Nat
  BY <1>1
<1> DEFINE x == g * W
           p == Piece(r)
<1>10. /\ x \in Nat /\ W \in Nat /\ p \in Nat /\ o \in Nat /\ l \in Nat /\ d \in Nat
       /\ o + d = x /\ l <= x - W /\ 2 * (o - l) < W /\ d < p /\ 2 * p <= W + 2
  BY <1>1, <1>6, <1>7, <1>8, <1>9
<1> HIDE DEF x, p
<1> QED BY <1>10

(* While no piece is larger than what is left of a window when it is not    *)
(* yet half consumed: no task waits for credit for ever, and none is spent  *)
(* that was not granted (awaitCredit, grantCredit, onHttpFrame).            *)
THEOREM CreditSoundHolds ==
  ASSUME PiecesFit
  PROVE  StreamSpec => []CreditSound
<1>1. StreamInit => WaitsForCredit
  BY DEF StreamInit, WaitsForCredit, Waits
<1>2. StreamIInv /\ WaitsForCredit /\ [StreamNext]_streamVars => WaitsForCredit'
  BY WaitsKept
<1>3. StreamIInv /\ WaitsForCredit => CreditSound
  <2>1. StreamIInv => SentWithinGrants
    BY DEF StreamIInv, UncutInv, Intact, Account, SentWithinGrants
  <2> QED BY <2>1, NoneStalls DEF CreditSound
<1> QED BY <1>1, <1>2, <1>3, StreamInvariance, PTL DEF StreamSpec

=============================================================================
