--------------------------- MODULE SessionGateway ---------------------------
(***************************************************************************)
(* Sessions of one peer: SessionGateway and HubSessionStore at the hub     *)
(* (packages/ws-tunnel/src/proxy), OpenSession and the composition of      *)
(* packages/ws-tunnel-hub, ClientSessionServer and ClientSessionStore at   *)
(* the peer (packages/ws-tunnel/src/session).                              *)
(*                                                                         *)
(* A call of openSession takes the next id.  The channel is the one of     *)
(* PeerChannel, reduced to what its users see: it is up, or the hub still  *)
(* holds a socket that the peer has given up (dead), or it has none.       *)
(* Sessions reach their TTL or idle limit at any time.                     *)
(***************************************************************************)
EXTENDS Naturals, Sequences

CONSTANTS
  MaxOpens,     \* bound: calls of openSession
  MaxSessions,  \* maxSessionsPerPeer
  MaxFaults     \* bound: lost channels, restarts, failures of signer and audit
                \* statements

ASSUME ConstantsAssumption ==
  MaxOpens \in Nat \ {0} /\ MaxSessions \in Nat \ {0} /\ MaxFaults \in Nat

Ids == 1 .. MaxOpens

VARIABLES
  call,     \* where openSession of the id is
  hub,      \* HubSessionStore, in the order of its Map
  record,   \* audit record of the session: "open" and "closing" while the
            \* statements are under way that open or close it; "cut": it is
            \* left as it is, a statement failed or the hub process died
  link,     \* the channel: "up", "dead", "down"
  toPeer,   \* control frames on their way to the peer
  toHub,    \* acknowledgements on their way to the hub
  peer,     \* ClientSessionStore
  signing,  \* sessions whose token the peer is signing
  \* for the properties only:
  overlap,  \* two calls have been under way at once
  raced,    \* ids that were under way, or not the first, when a new peer
            \* process registered
  lost,     \* ids whose session-end has not reached the peer
  faults

hubVars     == <<call, hub, record>>
channelVars == <<link, toPeer, toHub>>
peerVars    == <<peer, signing>>
history     == <<overlap, raced, lost>>
vars        == <<hubVars, channelVars, peerVars, history, faults>>

(* audit: the record is being written; recorded: it is, and openSession    *)
(* has not gone on yet.                                                    *)
CallStates   == {"none", "waiting", "audit", "recorded", "opened", "failed"}
RecordStates == {"none", "open", "closing", "closed", "cut"}

Frames == [type : {"open-session", "session-end"}, id : Ids]

TypeOK ==
  /\ call \in [Ids -> CallStates]
  /\ hub \in Seq(Ids)
  /\ record \in [Ids -> RecordStates]
  /\ link \in {"up", "dead", "down"}
  /\ toPeer \in Seq(Frames) /\ toHub \in Seq(Ids)
  /\ peer \subseteq Ids /\ signing \subseteq Ids
  /\ overlap \in BOOLEAN /\ raced \subseteq Ids /\ lost \subseteq Ids
  /\ faults \in 0 .. MaxFaults

Init ==
  /\ call = [s \in Ids |-> "none"] /\ hub = << >>
  /\ record = [s \in Ids |-> "none"]
  /\ link = "up" /\ toPeer = << >> /\ toHub = << >>
  /\ peer = {} /\ signing = {}
  /\ overlap = FALSE /\ raced = {} /\ lost = {} /\ faults = 0

-----------------------------------------------------------------------------
Fault == faults < MaxFaults /\ faults' = faults + 1

Known   == {hub[k] : k \in 1 .. Len(hub)}
Pending == {s \in Ids : call[s] \in {"waiting", "audit", "recorded"}}

Frame(t, s) == [type |-> t, id |-> s]

(* A session is closed by its place in the store; 0 stands for none.       *)
Places == 0 .. Len(hub)
At(k)  == IF k = 0 THEN {} ELSE {hub[k]}

Without(k) ==
  IF k = 0 THEN hub ELSE SubSeq(hub, 1, k - 1) \o SubSeq(hub, k + 1, Len(hub))

(* The session that has to make room for a new one.                        *)
InTheWay == IF Len(hub) >= MaxSessions THEN 1 ELSE 0

(* Mutant: the frame has the name of another message.                      *)
CloseFrames(k) == IF k = 0 THEN << >> ELSE <<Frame("stream-close", hub[k])>>

EndFrames(k) == IF k = 0 THEN << >> ELSE <<Frame("session-end", hub[k])>>

(* closeSession: out of the store, session-end to the peer; the statement  *)
(* that closes the audit record begins.  Frames for a socket that the peer *)
(* has given up, or that is not there, go nowhere.                         *)
CloseAndSend(k, l, more) ==
  /\ hub' = Without(k)
  /\ record' = [s \in Ids |-> IF s \in At(k) THEN "closing" ELSE record[s]]
  /\ toPeer' = IF l = "up" THEN toPeer \o EndFrames(k) \o more ELSE toPeer
  /\ lost' = IF l = "up" THEN lost ELSE lost \cup At(k)

-----------------------------------------------------------------------------
(* POST /sessions, or an access without a session: openSession up to its   *)
(* first await.  A peer without a channel is refused, and has by then lost *)
(* the session that was in the way.                                        *)
OpenSession(s) ==
  /\ call[s] = "none" /\ \A i \in Ids : i < s => call[i] # "none"
  /\ \/ /\ link = "down"
        /\ call' = [call EXCEPT ![s] = "failed"]
        /\ CloseAndSend(InTheWay, link, << >>)
        /\ UNCHANGED overlap
     \/ /\ link # "down"
        /\ call' = [call EXCEPT ![s] = "waiting"]
        /\ CloseAndSend(InTheWay, link, <<Frame("open-session", s)>>)
        /\ overlap' = (overlap \/ Pending # {})
  /\ UNCHANGED <<link, toHub, peerVars, raced, faults>>

AckTimeout(s) ==
  /\ call[s] = "waiting"
  /\ call' = [call EXCEPT ![s] = "failed"]
  /\ UNCHANGED <<hub, record, channelVars, peerVars, history, faults>>

(* Mutant: an acknowledgement revives a call that has timed out.           *)
AcceptsLate(s) == call[s] \in {"waiting", "failed"}

(* pendingAcks has an entry for the id.                                    *)
Accepts(s) == call[s] = "waiting"

HubReceives ==
  /\ toHub # << >>
  /\ toHub' = Tail(toHub)
  /\ call' = IF Accepts(Head(toHub)) THEN [call EXCEPT ![Head(toHub)] = "audit"] ELSE call
  /\ UNCHANGED <<hub, record, link, toPeer, peerVars, history, faults>>

(* The audit record is written; openSession still waits for the answer.    *)
AuditOpens(s) ==
  /\ call[s] = "audit"
  /\ call' = [call EXCEPT ![s] = "recorded"]
  /\ record' = [record EXCEPT ![s] = "open"]
  /\ UNCHANGED <<hub, channelVars, peerVars, history, faults>>

(* Only then is the session registered.                                    *)
Register(s) ==
  /\ call[s] = "recorded"
  /\ call' = [call EXCEPT ![s] = "opened"]
  /\ hub' = Append(hub, s)
  /\ UNCHANGED <<record, channelVars, peerVars, history, faults>>

(* Mutant: fail-open, the session is registered without its record.        *)
RegisterUnaudited(s) ==
  /\ call[s] = "audit" /\ Fault
  /\ call' = [call EXCEPT ![s] = "opened"]
  /\ hub' = Append(hub, s)
  /\ UNCHANGED <<record, channelVars, peerVars, history>>

(* The session is not opened; its record is not there, or it is and only   *)
(* the answer was lost.                                                    *)
AuditFails(s) ==
  /\ call[s] = "audit" /\ Fault
  /\ call' = [call EXCEPT ![s] = "failed"]
  /\ record' \in {record, [record EXCEPT ![s] = "cut"]}
  /\ UNCHANGED <<hub, channelVars, peerVars, history>>

(* The end of audit.close, for which nobody waits; a failure is logged at  *)
(* most.                                                                   *)
AuditCloses(s) ==
  /\ record[s] = "closing"
  /\ record' = [record EXCEPT ![s] = "closed"]
  /\ UNCHANGED <<call, hub, channelVars, peerVars, history, faults>>

AuditCloseFails(s) ==
  /\ record[s] = "closing" /\ Fault
  /\ record' = [record EXCEPT ![s] = "cut"]
  /\ UNCHANGED <<call, hub, channelVars, peerVars, history>>

(* sweep closes the sessions that have reached their limit, one after the  *)
(* other; a step is one of them.                                           *)
Sweep ==
  /\ \E k \in Places \ {0} : CloseAndSend(k, link, << >>)
  /\ UNCHANGED <<call, link, toHub, peerVars, overlap, raced, faults>>

-----------------------------------------------------------------------------
(* onOpenSession puts the session into the store before it signs.          *)
PeerReceives ==
  /\ toPeer # << >>
  /\ toPeer' = Tail(toPeer)
  /\ LET f == Head(toPeer) IN
       \/ /\ f.type = "open-session"
          /\ peer' = peer \cup {f.id} /\ signing' = signing \cup {f.id}
       \/ /\ f.type = "session-end"
          /\ peer' = peer \ {f.id} /\ UNCHANGED signing
  /\ UNCHANGED <<hubVars, link, toHub, history, faults>>

(* The token is signed and the acknowledgement goes out, if it can.        *)
PeerSigns(s) ==
  /\ s \in signing
  /\ signing' = signing \ {s}
  /\ toHub' = IF link = "up" THEN Append(toHub, s) ELSE toHub
  /\ UNCHANGED <<hubVars, link, toPeer, peer, history, faults>>

(* The failure is logged; the session stays in the store.                  *)
SignFails(s) ==
  /\ s \in signing /\ Fault
  /\ signing' = signing \ {s}
  /\ UNCHANGED <<hubVars, channelVars, peer, history>>

-----------------------------------------------------------------------------
Ending == {toPeer[k].id : k \in {i \in 1 .. Len(toPeer) : toPeer[i].type = "session-end"}}

(* The peer loses the channel, and with it what is on its way to it.       *)
Drop ==
  /\ link = "up" /\ Fault
  /\ link' = "dead" /\ toPeer' = << >>
  /\ lost' = lost \cup Ending
  /\ UNCHANGED <<hubVars, toHub, peerVars, overlap, raced>>

(* The hub sees its socket close, behind the last frame of it.             *)
Detach ==
  /\ link = "dead" /\ toHub = << >>
  /\ link' = "down"
  /\ UNCHANGED <<hubVars, toPeer, toHub, peerVars, history, faults>>

(* Mutant: no session is closed when a peer registers again.               *)
NothingStale == 0

(* onPeerRegistered: the session of the peer that is found first.          *)
Stale == IF hub = << >> THEN 0 ELSE 1

(* The peer registers again, over a new socket, perhaps as a new process.  *)
(* What the old socket still holds may arrive or not.                      *)
Reconnect ==
  /\ link # "up"
  /\ link' = "up"
  /\ toHub' \in {toHub, << >>}
  /\ CloseAndSend(Stale, "up", << >>)
  /\ \/ UNCHANGED <<peerVars, raced>>
     \/ /\ peer' = {} /\ signing' = {}
        /\ raced' = raced \cup Pending \cup {hub[k] : k \in 2 .. Len(hub)}
  /\ UNCHANGED <<call, overlap, faults>>

(* A new hub process knows no session; the calls under way fail, and no    *)
(* record is closed any more.                                              *)
HubRestart ==
  /\ Fault
  /\ call' = [s \in Ids |-> IF s \in Pending THEN "failed" ELSE call[s]]
  /\ hub' = << >>
  /\ record' = [s \in Ids |-> IF record[s] \in {"open", "closing"} THEN "cut" ELSE record[s]]
  /\ link' = "down" /\ toPeer' = << >> /\ toHub' = << >>
  /\ lost' = lost \cup Known \cup Ending
  /\ UNCHANGED <<peerVars, overlap, raced>>

-----------------------------------------------------------------------------
Next ==
  \/ \E s \in Ids : \/ OpenSession(s) \/ AckTimeout(s)
                    \/ AuditOpens(s) \/ AuditFails(s) \/ Register(s)
                    \/ AuditCloses(s) \/ AuditCloseFails(s)
                    \/ PeerSigns(s) \/ SignFails(s)
  \/ HubReceives \/ Sweep \/ PeerReceives
  \/ Drop \/ Detach \/ Reconnect \/ HubRestart

Spec == Init /\ [][Next]_vars

-----------------------------------------------------------------------------
(* A session that the hub would inject into a request is one that the peer *)
(* accepts, whatever happened to channel and peer before: a registration   *)
(* closes the session of the process before (main.ts:90).  Not covered by  *)
(* the code are a second session, and calls that a registration overtakes. *)
HubKnowsLive ==
  link = "up" => \A s \in Known : s \in peer \/ s \in raced

AtRest == link = "up" /\ toPeer = << >> /\ toHub = << >> /\ signing = {} /\ Pending = {}

(* Nothing is left behind at the peer but sessions whose opening failed    *)
(* at the hub (late acknowledgement, failed audit) and sessions whose end  *)
(* the channel swallowed: replacement, expiry and reconnection all reach   *)
(* the peer, in any order with opens that are under way.                   *)
OrphanExplained ==
  AtRest => \A s \in peer : s \in Known \/ call[s] = "failed" \/ s \in lost

(* What the hub injects and what the peer accepts are the same sessions,   *)
(* but for the ones these two exceptions name.                             *)
EndsAgree == HubKnowsLive /\ OrphanExplained

(* A peer has no more sessions than allowed unless two calls overlapped:   *)
(* the count is taken before the awaits and the entry made after them.     *)
LimitUnlessOverlap == overlap \/ Len(hub) <= MaxSessions

(* The same of all calls, as the comment on maxSessionsPerPeer has it ("at *)
(* most so many sessions of a peer at once"): false of two that overlap.   *)
LimitHolds == Len(hub) <= MaxSessions

(* Fail-closed, at both ends of a session: what is registered has an open  *)
(* audit record, and no record stays open behind a session that has left   *)
(* the store, or was never entered, but those of a failed audit statement  *)
(* and of a hub process that died.                                         *)
AuditAgrees ==
  \A s \in Ids :
    /\ s \in Known => record[s] = "open"
    /\ record[s] = "open" => s \in Known \/ call[s] = "recorded"
=============================================================================
