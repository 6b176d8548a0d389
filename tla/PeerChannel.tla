----------------------------- MODULE PeerChannel -----------------------------
(***************************************************************************)
(* The uplink of one peer: TunnelConnector (packages/ws-tunnel), which     *)
(* dials the hub, registers, sends heartbeats and reconnects with backoff, *)
(* and PeerChannelHub with RegisterPeer and PeerConnectionTracker          *)
(* (packages/ws-tunnel-hub), which authenticates a register frame          *)
(* asynchronously, replaces the peer's previous socket and cleans up when  *)
(* a socket closes.                                                        *)
(*                                                                         *)
(* Every dial uses a socket of its own.  A socket has two ends that learn  *)
(* of its end separately; its line may go silent without either end being  *)
(* told.  A slot is used again once both ends are closed and nothing       *)
(* refers to it.                                                           *)
(***************************************************************************)
EXTENDS Naturals, SequencesExt

CONSTANTS
  Slots,      \* bound: sockets that exist at once, 1 .. n
  Urls,       \* number of hub URLs, tried in order
  DownUrls,   \* URLs whose host refuses connections
  MaxFaults   \* bound: refusals, losses, errors, timeouts and stop commands

ASSUME ConstantsAssumption ==
  /\ Slots \in Nat \ {0} /\ Urls \in Nat \ {0}
  /\ DownUrls \subseteq 1 .. Urls /\ MaxFaults \in Nat

Socks == 1 .. Slots
None  == 0

VARIABLES
  state,       \* stateValue of the connector
  socket,      \* its socket field, None before the first and after stop()
  live,        \* the socket whose events carry the current generation
  stopped,
  urlIndex,
  timers,      \* which of its timers are armed
  conn,        \* per slot: the connector's end
  peer,        \* per slot: the hub's end
  line,        \* per slot: frames get through
  toHub, toConn,   \* per slot: frames under way
  reg,         \* per slot: how far handleRegister is
  registered,  \* the hub's sockets.get(peerId)
  tracker,     \* PeerConnectionTracker.statusOf(peerId)
  faults

connVars == <<state, socket, live, stopped, urlIndex, timers>>
hubVars  == <<registered, tracker>>
netVars  == <<conn, peer, line, toHub, toConn, reg>>
vars     == <<connVars, hubVars, netVars, faults>>

TypeOK ==
  /\ state \in {"offline", "connecting", "connected", "backoff"}
  /\ socket \in Socks \cup {None} /\ live \in Socks \cup {None} /\ stopped \in BOOLEAN
  /\ urlIndex \in 1 .. Urls
  /\ timers \subseteq {"register", "heartbeat", "reconnect"}
  /\ conn \in [Socks -> {"opening", "open", "closing", "closed"}]
  /\ peer \in [Socks -> {"open", "closing", "closed"}]
  /\ line \in [Socks -> BOOLEAN]
  /\ toHub \in [Socks -> Seq({"register", "heartbeat", "close"})]
  /\ toConn \in [Socks -> Seq({"ack", "reject", "close"})]
  /\ reg \in [Socks -> {"none", "pending", "done", "failed"}]
  /\ registered \in Socks \cup {None}
  /\ tracker \in {"idle", "connected", "stale", "error"}
  /\ faults \in 0 .. MaxFaults

Init ==
  /\ state = "offline" /\ socket = None /\ live = None /\ stopped = FALSE
  /\ urlIndex = 1 /\ timers = {}
  /\ conn = [s \in Socks |-> "closed"] /\ peer = [s \in Socks |-> "closed"]
  /\ line = [s \in Socks |-> TRUE]
  /\ toHub = [s \in Socks |-> <<>>] /\ toConn = [s \in Socks |-> <<>>]
  /\ reg = [s \in Socks |-> "none"]
  /\ registered = None /\ tracker = "idle" /\ faults = 0

-----------------------------------------------------------------------------
(* The network.                                                            *)
Put(queues, s, frame) ==
  IF line[s] THEN [queues EXCEPT ![s] = Append(@, frame)] ELSE queues

Free == {s \in Socks : /\ conn[s] = "closed" /\ peer[s] = "closed"
                       /\ reg[s] # "pending" /\ s # registered}

Fault == faults < MaxFaults /\ faults' = faults + 1

-----------------------------------------------------------------------------
(* The connector.                                                          *)
Live(s) == s = live

(* tryUrl: a new generation on a new socket.                               *)
Dial(u) ==
  /\ Free # {}
  /\ LET s == CHOOSE f \in Free : \A g \in Free : f <= g IN
       /\ socket' = s /\ live' = s
       /\ conn' = [conn EXCEPT ![s] = "opening"]
       /\ line' = [line EXCEPT ![s] = TRUE]
       /\ toHub' = [toHub EXCEPT ![s] = <<>>]
       /\ toConn' = [toConn EXCEPT ![s] = <<>>]
       /\ reg' = [reg EXCEPT ![s] = "none"]
  /\ urlIndex' = u
  /\ UNCHANGED peer

(* connect(): all timers cleared, the first URL.                           *)
Connect ==
  /\ state' = "connecting" /\ timers' = {}
  /\ Dial(1)

Start ==
  /\ state = "offline"
  /\ stopped' = FALSE
  /\ Connect
  /\ UNCHANGED <<hubVars, faults>>

Reconnect ==
  /\ "reconnect" \in timers
  /\ Connect
  /\ UNCHANGED <<stopped, hubVars, faults>>

(* Mutant: backoff goes on after stop().                                   *)
BackoffAlways(kept) == state' = "backoff" /\ timers' = {"reconnect"}

(* enterBackoff, entered with the timers kept.                             *)
Backoff(kept) ==
  IF stopped THEN timers' = kept /\ UNCHANGED state
  ELSE state' = "backoff" /\ timers' = {"reconnect"}

EnterBackoff == Backoff(timers)

(* close() on the connector's end.                                         *)
CloseConn(s) ==
  IF s # None /\ conn[s] \in {"opening", "open"}
  THEN /\ conn' = [conn EXCEPT ![s] =
                     IF @ = "open" /\ line[s] THEN "closing" ELSE "closed"]
       /\ toHub' = IF conn[s] = "open" THEN Put(toHub, s, "close") ELSE toHub
  ELSE UNCHANGED <<conn, toHub>>

(* closeAndBackoff: late events of the socket are ignored from now on.     *)
CloseAndBackoff ==
  /\ live' = None
  /\ Backoff({})
  /\ CloseConn(socket)
  /\ UNCHANGED <<socket, stopped, urlIndex>>

(* The upgrade succeeds; onOpen sends the register frame.                  *)
Open(s) ==
  /\ conn[s] = "opening" /\ urlIndex \notin DownUrls
  /\ conn' = [conn EXCEPT ![s] = "open"] /\ peer' = [peer EXCEPT ![s] = "open"]
  /\ IF Live(s) /\ ~stopped
     THEN /\ toHub' = Put(toHub, s, "register")
          /\ timers' = timers \cup {"register"}
     ELSE UNCHANGED <<toHub, timers>>
  /\ UNCHANGED <<state, socket, live, stopped, urlIndex, hubVars, line, toConn, reg,
                 faults>>

(* The host refuses: an error and a close event, but no onRejected.        *)
Refused(s) ==
  /\ conn[s] = "opening"
  /\ (urlIndex \in DownUrls /\ UNCHANGED faults) \/ Fault
  /\ conn' = [conn EXCEPT ![s] = "closed"]
  /\ EnterBackoff
  /\ UNCHANGED <<socket, live, stopped, urlIndex, hubVars, peer, line, toHub, toConn,
                 reg>>

(* Mutant: one index too far.                                              *)
NextUrlPastEnd == urlIndex <= Urls

NextUrl == urlIndex < Urls

(* onRejected, an HTTP answer to the upgrade: the next URL, or backoff.    *)
Rejected(s) ==
  /\ conn[s] = "opening" /\ urlIndex \notin DownUrls /\ Fault
  /\ IF NextUrl
     THEN urlIndex' = urlIndex + 1 /\ UNCHANGED <<conn, state, timers>>
     ELSE /\ conn' = [conn EXCEPT ![s] = "closed"]
          /\ EnterBackoff
          /\ UNCHANGED urlIndex
  /\ UNCHANGED <<socket, live, stopped, hubVars, peer, line, toHub, toConn, reg>>

(* The register timer: the hub is silent, or merely slow.                  *)
RegisterTimeout ==
  /\ "register" \in timers
  /\ (~line[socket] /\ UNCHANGED faults) \/ Fault
  /\ CloseAndBackoff
  /\ UNCHANGED <<hubVars, peer, line, toConn, reg>>

(* register-ack ok: the first heartbeat makes it connected.  It is not     *)
(* checked whether stop() was called meanwhile, which dropped the socket.  *)
OnAck(s) ==
  /\ state' = "connected"
  /\ timers' = (timers \ {"register"}) \cup {"heartbeat"}
  /\ toHub' = IF s = socket /\ conn[s] = "open" THEN Put(toHub, s, "heartbeat")
              ELSE toHub
  /\ UNCHANGED <<socket, live, stopped, urlIndex, conn>>

(* onClose                                                                 *)
OnClosed(s) ==
  /\ conn' = [conn EXCEPT ![s] = "closed"]
  /\ IF ~Live(s) THEN UNCHANGED <<state, timers>>
     ELSE IF stopped THEN state' = "offline" /\ UNCHANGED timers
     ELSE EnterBackoff
  /\ UNCHANGED <<socket, live, stopped, urlIndex, toHub>>

ReceiveConn(s) ==
  /\ conn[s] \in {"open", "closing"} /\ toConn[s] # <<>>
  /\ toConn' = [toConn EXCEPT ![s] = Tail(@)]
  /\ \/ Head(toConn[s]) = "ack" /\ Live(s) /\ OnAck(s)
     \/ Head(toConn[s]) = "reject" /\ Live(s) /\ CloseAndBackoff
     \/ Head(toConn[s]) = "close" /\ OnClosed(s)
     \/ Head(toConn[s]) # "close" /\ ~Live(s) /\ UNCHANGED <<connVars, conn, toHub>>
  /\ UNCHANGED <<hubVars, peer, line, reg, faults>>

(* The closing handshake ends, or is given up.                             *)
ConnCloseDone(s) ==
  /\ conn[s] = "closing"
  /\ OnClosed(s)
  /\ UNCHANGED <<hubVars, peer, line, toConn, reg, faults>>

Responsive == socket # None /\ line[socket] /\ conn[socket] = "open"

(* Mutant: missing pongs are not looked at.                                *)
HeartbeatBlind ==
  /\ "heartbeat" \in timers
  /\ toHub' = IF Responsive /\ ~Contains(toHub[socket], "heartbeat")
              THEN Put(toHub, socket, "heartbeat") ELSE toHub
  /\ UNCHANGED <<connVars, conn, hubVars, peer, line, toConn, reg, faults>>

(* sendHeartbeat: pongs have stayed out for livenessTimeoutMs, or not.     *)
Heartbeat ==
  /\ "heartbeat" \in timers
  /\ IF Responsive
     THEN /\ ~Contains(toHub[socket], "heartbeat")   \* bound
          /\ toHub' = Put(toHub, socket, "heartbeat")
          /\ UNCHANGED <<connVars, conn>>
     ELSE CloseAndBackoff
  /\ UNCHANGED <<hubVars, peer, line, toConn, reg, faults>>

Stop ==
  /\ (stopped /\ UNCHANGED faults) \/ Fault
  /\ stopped' = TRUE /\ state' = "offline" /\ timers' = {} /\ socket' = None
  /\ CloseConn(socket)
  /\ UNCHANGED <<live, urlIndex, hubVars, peer, line, toConn, reg>>

-----------------------------------------------------------------------------
(* The hub.                                                                *)

(* The close handler: it knows the peer only once handleRegister is        *)
(* through, and cleans up only for the registered socket.                  *)
Detach(s) ==
  IF reg[s] = "done" /\ registered = s THEN registered' = None /\ tracker' = "idle"
  ELSE UNCHANGED hubVars

HubClosed(s) ==
  /\ peer' = [peer EXCEPT ![s] = "closed"]
  /\ Detach(s)

OnRegister(s) ==
  /\ reg' = [reg EXCEPT ![s] = IF @ = "none" THEN "pending" ELSE @]
  /\ UNCHANGED <<hubVars, peer>>

(* markHeartbeat: an error is not cleared.                                 *)
OnHeartbeat(s) ==
  /\ tracker' = IF reg[s] = "done" /\ tracker = "stale" THEN "connected" ELSE tracker
  /\ UNCHANGED <<registered, peer, reg>>

ReceiveHub(s) ==
  /\ peer[s] \in {"open", "closing"} /\ toHub[s] # <<>>
  /\ toHub' = [toHub EXCEPT ![s] = Tail(@)]
  /\ \/ Head(toHub[s]) = "register" /\ OnRegister(s)
     \/ Head(toHub[s]) = "heartbeat" /\ OnHeartbeat(s)
     \/ Head(toHub[s]) = "close" /\ HubClosed(s) /\ UNCHANGED reg
  /\ UNCHANGED <<connVars, conn, line, toConn, faults>>

HubCloseDone(s) ==
  /\ peer[s] = "closing"
  /\ HubClosed(s)
  /\ UNCHANGED <<connVars, conn, line, toHub, toConn, reg, faults>>

(* Mutant: the previous socket of the peer is not closed.                  *)
PreviousLeft(s) == {}

(* The socket that a successful registration of s replaces.                *)
Previous(s) == {registered} \ {None, s}

(* RegisterPeer.execute, once authenticate() has accepted the token.       *)
RegisterPeer(s) ==
  /\ reg[s] = "pending"
  /\ reg' = [reg EXCEPT ![s] = "done"]
  /\ tracker' = "connected"

(* The rest of handleRegister: the newest to be through wins, whether or   *)
(* not its socket is still open.                                           *)
Registers(s) ==
  /\ RegisterPeer(s)
  /\ registered' = s
  /\ peer' = [p \in Socks |->
       IF p \in Previous(s) /\ peer[p] = "open" THEN "closing" ELSE peer[p]]
  /\ toConn' = [p \in Socks |->
       CASE p = s /\ peer[s] = "open" /\ line[s] -> Append(toConn[s], "ack")
         [] p \in Previous(s) /\ peer[p] = "open" /\ line[p] -> Append(toConn[p], "close")
         [] OTHER -> toConn[p]]
  /\ UNCHANGED <<connVars, conn, line, toHub, faults>>

(* The token is not accepted (or the store fails): reject and close.       *)
RegisterFails(s) ==
  /\ reg[s] = "pending" /\ Fault
  /\ reg' = [reg EXCEPT ![s] = "failed"]
  /\ peer' = [peer EXCEPT ![s] = IF @ = "open" THEN "closing" ELSE @]
  /\ toConn' = [toConn EXCEPT ![s] =
       IF peer[s] = "open" /\ line[s] THEN @ \o <<"reject", "close">> ELSE @]
  /\ UNCHANGED <<connVars, hubVars, conn, line, toHub>>

(* tracker.sweep(): no heartbeat for staleTimeoutMs, so the line is dead.  *)
Sweep ==
  /\ tracker = "connected" /\ registered # None
  /\ ~line[registered] \/ conn[registered] # "open" \/ peer[registered] # "open"
  /\ tracker' = "stale"
  /\ UNCHANGED <<connVars, registered, netVars, faults>>

(* The error handler of a socket; a close follows.                         *)
HubError(s) ==
  /\ peer[s] = "open" /\ Fault
  /\ tracker' = IF reg[s] = "done" /\ tracker # "idle" THEN "error" ELSE tracker
  /\ peer' = [peer EXCEPT ![s] = "closing"]
  /\ toConn' = Put(toConn, s, "close")
  /\ UNCHANGED <<connVars, registered, conn, line, toHub, reg>>

-----------------------------------------------------------------------------
(* Network faults: a reset that both ends see, a line that goes silent, a  *)
(* hub end that the system closes on a silent line.                        *)
Reset(s) ==
  /\ conn[s] = "open" /\ peer[s] = "open" /\ line[s] /\ Fault
  /\ toHub' = [toHub EXCEPT ![s] = <<"close">>]
  /\ toConn' = [toConn EXCEPT ![s] = <<"close">>]
  /\ UNCHANGED <<connVars, hubVars, conn, peer, line, reg>>

Silence(s) ==
  /\ conn[s] = "open" /\ peer[s] = "open" /\ line[s] /\ Fault
  /\ line' = [line EXCEPT ![s] = FALSE]
  /\ toHub' = [toHub EXCEPT ![s] = <<>>] /\ toConn' = [toConn EXCEPT ![s] = <<>>]
  /\ UNCHANGED <<connVars, hubVars, conn, peer, reg>>

HubGivesUp(s) ==
  /\ peer[s] = "open" /\ ~line[s]
  /\ HubClosed(s)
  /\ UNCHANGED <<connVars, conn, line, toHub, toConn, reg, faults>>

-----------------------------------------------------------------------------
Fortune(s) == Rejected(s) \/ RegisterFails(s) \/ HubError(s) \/ Reset(s) \/ Silence(s)
Dialled(s) == Open(s) \/ Refused(s)

Next ==
  \/ Start \/ Stop \/ Reconnect \/ RegisterTimeout \/ Heartbeat \/ Sweep
  \/ \E s \in Socks :
       \/ Dialled(s) \/ ReceiveConn(s) \/ ConnCloseDone(s)
       \/ ReceiveHub(s) \/ Registers(s) \/ HubCloseDone(s) \/ HubGivesUp(s)
       \/ Fortune(s)

Spec == Init /\ [][Next]_vars

(* Timers fire, a dial is answered, frames on a line that is up arrive,    *)
(* the credential store answers.  Commands and faults may never come.      *)
FairSpec ==
  /\ Spec
  /\ WF_vars(Reconnect) /\ WF_vars(RegisterTimeout) /\ WF_vars(Heartbeat)
  /\ \A s \in Socks :
       /\ WF_vars(Dialled(s))
       /\ WF_vars(ReceiveConn(s) \/ ConnCloseDone(s))
       /\ WF_vars(ReceiveHub(s) \/ HubCloseDone(s))
       /\ WF_vars(Registers(s))

-----------------------------------------------------------------------------
(* A connector that believes itself connected is the one the hub reaches,  *)
(* or word of the contrary is on its way: its line is silent or a close    *)
(* frame is coming (handleRegister's replacement, detach's identity check, *)
(* the generation counter).                                                *)
ConnectedIsReached ==
  state = "connected" /\ socket # None /\ conn[socket] = "open" =>
    \/ registered = socket /\ peer[socket] = "open"
    \/ ~line[socket] \/ Contains(toConn[socket], "close")

(* The connector never holds two connections at a time (closeAndBackoff,   *)
(* tryUrl).                                                                *)
OneConnection ==
  \A s, t \in Socks : {conn[s], conn[t]} \subseteq {"opening", "open"} => s = t

(* One connection at a time, and both ends mean the same one.              *)
AgreedConnection == ConnectedIsReached /\ OneConnection

(* After stop(), whatever arrives late and until start(), no connection is *)
(* dialled, none is registered, and no timer for the next dial is set.  (A *)
(* late acknowledgement may still set the state to connected and start the *)
(* heartbeat timer, which then finds no socket.)                           *)
StopIsFinal ==
  [][stopped /\ stopped' =>
       /\ "reconnect" \notin timers'
       /\ \A s \in Socks :
            /\ conn'[s] = "opening" => conn[s] = "opening"
            /\ Contains(toHub'[s], "register") => Contains(toHub[s], "register")]_vars

(* Both ends agree that the peer is connected, on the same socket.         *)
Settled ==
  /\ state = "connected" /\ socket # None /\ conn[socket] = "open" /\ peer[socket] = "open"
  /\ registered = socket /\ tracker \in {"connected", "error"}

(* However the connection was lost, refused, reset, silenced, timed out or *)
(* replaced by a register that was late, in the end the peer is connected  *)
(* and the hub reaches it on that connection, unless it was never started  *)
(* or has been stopped.                                                    *)
Converges == <>[](state = "offline" \/ stopped \/ Settled)

=============================================================================
