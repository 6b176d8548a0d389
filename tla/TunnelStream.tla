---------------------------- MODULE TunnelStream ----------------------------
(***************************************************************************)
(* HTTP streams of packages/ws-tunnel: the hub's TunnelProxy (browser      *)
(* side) and the peer's TunnelClient (upstream side) multiplex requests    *)
(* over one WebSocket.  A stream is opened, acknowledged, its body flows   *)
(* against credit ("stream-window") and ends with a FIN frame; both sides  *)
(* may close it, time it out or sweep it.  The channel is FIFO while it is *)
(* up; when it drops, what is in flight is lost, and what either side      *)
(* sends until it is up again is silently discarded.                       *)
(*                                                                         *)
(* A response body is the sequence of the sizes of its pieces.  A data     *)
(* frame also carries the name of the request whose response it belongs to *)
(* and the number of its piece, a window frame the request it is for and   *)
(* the number of the grant; no action reads these.                         *)
(*                                                                         *)
(* State and specification have names of their own (losses, streamVars,    *)
(* StreamSpec), for Tunnel_proofs extends PeerChannel too.                 *)
(***************************************************************************)
EXTENDS Integers, FiniteSets, Sequences

CONSTANTS
  Reqs,         \* browser requests, numbered in the order they arrive
  Kinds,        \* kinds of request in use: "get", "post", "emptyPost", "hugePost"
  Bodies,       \* response bodies: sequences of piece sizes
  Window,       \* windowSize
  MaxStreams,   \* maxStreams of both sides
  HubMayRestart, \* TRUE when the hub process may die and start again
  MaxLosses     \* bound: drops of the channel and restarts of the hub

ASSUME StreamAssumption ==
  /\ Reqs \subseteq Nat \ {0} /\ IsFiniteSet(Reqs)
  /\ Kinds \subseteq {"get", "post", "emptyPost", "hugePost"}
  /\ Bodies \subseteq Seq(Nat \ {0})
  /\ Window \in Nat \ {0} /\ MaxStreams \in Nat \ {0}
  /\ HubMayRestart \in BOOLEAN /\ MaxLosses \in Nat

VARIABLES
  up,        \* the WebSocket is open
  toClient,  \* frames from the hub
  toProxy,     \* frames from the client
  nextId,    \* nextStreamId of the hub
  hub,       \* per request: what TunnelProxy knows, and the browser's view
  streams,   \* the client's streams map: id -> request, NoReq when absent
  task,      \* per request: the client's StreamState and its fetchStream
  cut,       \* requests under way at a fault, or given an id still in use
  losses

streamVars == <<up, toClient, toProxy, nextId, hub, streams, task, cut, losses>>

Ids  == 1 .. Cardinality(Reqs)
NoReq == 0   \* no request

\* phase: "wait" in raceAck; "acked" its promise resolved, startHttpStream not
\* yet resumed; "open" in httpStreams; "over".
\* browser: "none" nothing sent, "headers", "ended" (raw.end), "broken"
\* (raw.destroy or process gone), "left" (the browser closed the connection).
HubState == [phase : {"idle", "wait", "acked", "open", "over"},
             id : Ids \cup {0}, out : Nat, lastGranted : Nat, grants : Nat,
             browser : {"none", "headers", "ended", "broken", "left"},
             got : Seq(Reqs \X Nat)]

\* phase: "body" awaits the request body, "fetch" in fetch(), "send" in the
\* body loop, "parked" in awaitCredit, "slot" returned with its entry left in
\* the map, "done" returned; "refused" never had a state.
TaskState == [phase : {"none", "body", "fetch", "send", "parked", "slot", "done",
                       "refused"},
              id : Ids \cup {0}, closed : BOOLEAN, credit : Nat,
              body : Bodies \cup {<<>>}, sent : Nat]

Frame == [t : {"open", "body", "window", "close", "ack", "data", "fin", "rst"},
          id : Ids, req : Reqs \cup {NoReq}, k : Nat, n : Nat]

StreamTypeOK ==
  /\ up \in BOOLEAN
  /\ toClient \in Seq(Frame) /\ toProxy \in Seq(Frame)
  /\ nextId \in 1 .. Cardinality(Reqs) + 1
  /\ hub \in [Reqs -> HubState]
  /\ streams \in [Ids -> Reqs \cup {NoReq}]
  /\ task \in [Reqs -> TaskState]
  /\ \A r \in Reqs : task[r].sent <= Len(task[r].body)
  /\ cut \subseteq Reqs
  /\ losses \in 0 .. MaxLosses

StreamInit ==
  /\ up = TRUE /\ toClient = <<>> /\ toProxy = <<>> /\ nextId = 1
  /\ hub = [r \in Reqs |-> [phase |-> "idle", id |-> 0, out |-> 0, lastGranted |-> 0,
                            grants |-> 0, browser |-> "none", got |-> <<>>]]
  /\ streams = [i \in Ids |-> NoReq]
  /\ task = [r \in Reqs |-> [phase |-> "none", id |-> 0, closed |-> FALSE,
                             credit |-> 0, body |-> <<>>, sent |-> 0]]
  /\ cut = {} /\ losses = 0

-----------------------------------------------------------------------------
(* The channel: a frame is sent when the socket is open, else dropped.     *)
Msg(t, id, req, k, n) == [t |-> t, id |-> id, req |-> req, k |-> k, n |-> n]
Signal(t, id)         == Msg(t, id, NoReq, 0, 0)
WindowMsg(r, k)       == Msg("window", hub[r].id, r, k, Window)

Sent(queue, frames) == IF up THEN queue \o frames ELSE queue

channelVars == <<up, cut, losses>>
proxyVars     == <<hub, nextId>>
clientVars  == <<streams, task>>

-----------------------------------------------------------------------------
(* The hub: TunnelProxy.                                                   *)
InPhase(p) == {r \in Reqs : hub[r].phase = p}

(* httpStreams.get(id) as a set of at most one request.                    *)
Registered(id) == {r \in InPhase("open") : hub[r].id = id}

(* The browser's connection may already be gone, or its response complete. *)
Shown(r, view) ==
  IF hub[r].browser \in {"none", "headers"} THEN view ELSE hub[r].browser

RequestBody(kind, id) ==
  CASE kind = "post"     -> <<Msg("body", id, NoReq, 0, 1)>>
    [] kind = "hugePost" -> <<Msg("body", id, NoReq, 0, 2)>>
    [] OTHER             -> <<>>

(* After a restart of the hub an id may still be in use at the client (by  *)
(* the holder of its entry, or a task that lost its entry to a later one), *)
(* or on its way from it.                                                  *)
InUse(id) ==
  \/ streams[id] # NoReq
  \/ \E q \in Reqs : task[q].id = id /\ task[q].phase \in {"fetch", "send"}
                                    /\ ~task[q].closed
  \/ \E i \in 1 .. Len(toProxy) : toProxy[i].id = id

(* startHttpStream up to its await: at the limit it returns and the        *)
(* hijacked reply is never answered; pending acks do not count.  An empty  *)
(* request body sends no frame, so not even a FIN.                         *)
StartHttpStream(r, kind) ==
  /\ hub[r].phase = "idle" /\ \A q \in Reqs : q < r => hub[q].phase # "idle"
  /\ nextId' = nextId + 1
  /\ IF Cardinality(InPhase("open")) >= MaxStreams
     THEN /\ hub' = [hub EXCEPT ![r].phase = "over", ![r].id = nextId]
          /\ UNCHANGED toClient
     ELSE /\ hub' = [hub EXCEPT ![r].phase = "wait", ![r].id = nextId]
          /\ toClient' = Sent(toClient,
               <<Msg("open", nextId, r, 0, IF kind = "get" THEN 0 ELSE 1)>>
                 \o RequestBody(kind, nextId))
  /\ cut' = IF InUse(nextId) THEN cut \cup {r} ELSE cut
  /\ UNCHANGED <<up, losses, toProxy, clientVars>>

(* raceAck: the timer wins; the peer is not told.                          *)
AckTimeout(r) ==
  /\ hub[r].phase = "wait"
  /\ hub' = [hub EXCEPT ![r].phase = "over"]
  /\ UNCHANGED <<nextId, toClient, toProxy, clientVars, channelVars>>

(* startHttpStream resumes after its await: headers, registration, credit. *)
Register(r) ==
  /\ hub[r].phase = "acked"
  /\ hub' = [hub EXCEPT ![r].phase = "open", ![r].browser = Shown(r, "headers"),
                        ![r].grants = 1]
  /\ toClient' = Sent(toClient, <<WindowMsg(r, 1)>>)
  /\ UNCHANGED <<nextId, toProxy, clientVars, channelVars>>

OnOpenAck(f) ==
  /\ hub' = [r \in Reqs |-> IF hub[r].phase = "wait" /\ hub[r].id = f.id
                            THEN [hub[r] EXCEPT !.phase = "acked"] ELSE hub[r]]
  /\ UNCHANGED toClient

(* cleanupHttp: an unfinished response is destroyed.                       *)
Ended(r, view) == [hub[r] EXCEPT !.phase = "over", !.browser = Shown(r, view)]

EndStream(f, view) ==
  /\ hub' = [r \in Reqs |-> IF r \in Registered(f.id) THEN Ended(r, view) ELSE hub[r]]
  /\ UNCHANGED toClient

(* Mutant: credit is renewed only when a whole window has been consumed.   *)
RenewsAtWindow(consumed) == consumed >= Window

Renews(consumed) == 2 * consumed >= Window

(* onHttpFrame with a payload.                                             *)
OnPayload(f) ==
  \E r \in Registered(f.id) :
    LET out   == hub[r].out + f.n
        renew == Renews(out - hub[r].lastGranted)
    IN /\ hub' = [hub EXCEPT ![r].out = out,
                             ![r].got = Append(@, <<f.req, f.k>>),
                             ![r].lastGranted = IF renew THEN out ELSE @,
                             ![r].grants = IF renew THEN @ + 1 ELSE @]
       /\ toClient' = IF renew THEN Sent(toClient, <<WindowMsg(r, hub[r].grants + 1)>>)
                      ELSE toClient

(* onControlMessage and onBinaryFrame: a frame of a stream that is not     *)
(* registered (yet) is dropped.                                            *)
HubReceive ==
  /\ toProxy # <<>>
  /\ toProxy' = Tail(toProxy)
  /\ LET f == Head(toProxy) IN
       \/ f.t = "ack" /\ OnOpenAck(f)
       \/ f.t = "data" /\ OnPayload(f)
       \/ f.t = "fin" /\ EndStream(f, "ended")
       \/ f.t \in {"rst", "close"} /\ EndStream(f, "broken")
       \/ f.t = "data" /\ Registered(f.id) = {} /\ UNCHANGED <<hub, toClient>>
  /\ UNCHANGED <<nextId, clientVars, channelVars>>

(* raw.onClose: the handler exists only once the stream is registered.     *)
BrowserLeaves(r) ==
  /\ hub[r].phase # "idle" /\ hub[r].browser \in {"none", "headers"}
  /\ IF hub[r].phase = "open"
     THEN /\ hub' = [hub EXCEPT ![r].phase = "over", ![r].browser = "left"]
          /\ toClient' = Sent(toClient, <<Signal("close", hub[r].id)>>)
     ELSE /\ hub' = [hub EXCEPT ![r].browser = "left"]
          /\ UNCHANGED toClient
  /\ UNCHANGED <<nextId, toProxy, clientVars, channelVars>>

(* sweep(): a stream that is idle, or older than maxAgeMs, whichever it is *)
(* doing.                                                                  *)
HubSweep(r) ==
  /\ hub[r].phase = "open"
  /\ hub' = [hub EXCEPT ![r] = Ended(r, "broken")]
  /\ toClient' = Sent(toClient, <<Signal("close", hub[r].id)>>)
  /\ UNCHANGED <<nextId, toProxy, clientVars, channelVars>>

-----------------------------------------------------------------------------
(* The client: TunnelClient.                                               *)
NeedsBody(f) == f.n = 1

(* Mutant: closing a stream does not wake the task that awaits credit.     *)
CloseTaskAsleep(t) ==
  [t EXCEPT !.closed = TRUE, !.phase = CASE t.phase \in {"body", "slot"} -> "done"
                                         [] OTHER -> t.phase]

(* closeStream on a StreamState: its fetch is aborted, its waiter woken.   *)
CloseTask(t) ==
  [t EXCEPT !.closed = TRUE, !.phase = CASE t.phase \in {"body", "slot"} -> "done"
                                         [] t.phase = "parked" -> "send"
                                         [] OTHER -> t.phase]

(* closeStream(id): whoever holds the id, and the hub is always told.      *)
StreamsClosed(id) == [streams EXCEPT ![id] = NoReq]
TasksClosed(ts, id) ==
  IF streams[id] = NoReq THEN ts
  ELSE [ts EXCEPT ![streams[id]] = CloseTask(ts[streams[id]])]
CloseFrames(id) == IF streams[id] = NoReq THEN <<>> ELSE <<Signal("close", id)>>

Active == {i \in Ids : streams[i] # NoReq}

OnStreamOpen(f) ==
  IF Cardinality(Active) >= MaxStreams
  THEN /\ task' = [task EXCEPT ![f.req].phase = "refused"]
       /\ toProxy' = Sent(toProxy, <<Signal("ack", f.id), Signal("close", f.id)>>)
       /\ UNCHANGED streams
  ELSE /\ task' = [task EXCEPT ![f.req].phase = IF NeedsBody(f) THEN "body" ELSE "fetch",
                               ![f.req].id = f.id]
       /\ streams' = [streams EXCEPT ![f.id] = f.req]
       /\ UNCHANGED toProxy

(* onBodyFrame: the last frame starts the fetch, too large a body resets.  *)
OnBody(f) ==
  LET r == streams[f.id] IN
  IF r = NoReq \/ task[r].phase # "body" THEN UNCHANGED <<clientVars, toProxy>>
  ELSE IF f.n > 1
       THEN /\ task' = TasksClosed(task, f.id) /\ streams' = StreamsClosed(f.id)
            /\ toProxy' = Sent(toProxy, <<Signal("rst", f.id), Signal("close", f.id)>>)
       ELSE /\ task' = [task EXCEPT ![r].phase = "fetch"]
            /\ UNCHANGED <<streams, toProxy>>

(* "stream-window": credit is added and the waiter re-checks.              *)
OnWindow(f) ==
  LET r == streams[f.id] IN
  /\ IF r = NoReq THEN UNCHANGED task
     ELSE task' = [task EXCEPT ![r].credit = @ + f.n,
                               ![r].phase = IF @ = "parked" THEN "send" ELSE @]
  /\ UNCHANGED <<streams, toProxy>>

CloseStream(id) ==
  /\ task' = TasksClosed(task, id) /\ streams' = StreamsClosed(id)
  /\ toProxy' = Sent(toProxy, CloseFrames(id))

ClientReceive ==
  /\ toClient # <<>>
  /\ toClient' = Tail(toClient)
  /\ LET f == Head(toClient) IN
       \/ f.t = "open" /\ OnStreamOpen(f)
       \/ f.t = "body" /\ OnBody(f)
       \/ f.t = "window" /\ OnWindow(f)
       \/ f.t = "close" /\ CloseStream(f.id)
  /\ UNCHANGED <<proxyVars, channelVars>>

(* fetchStream: the upstream answers with a body (perhaps an empty one).   *)
FetchAnswers(r) ==
  /\ task[r].phase = "fetch" /\ ~task[r].closed
  /\ \E b \in Bodies : task' = [task EXCEPT ![r].phase = "send", ![r].body = b]
  /\ toProxy' = Sent(toProxy, <<Signal("ack", task[r].id)>>)
  /\ UNCHANGED <<toClient, streams, proxyVars, channelVars>>

(* response.body is null (204, 304, HEAD): FIN, and the state stays.       *)
FetchAnswersWithoutBody(r) ==
  /\ task[r].phase = "fetch" /\ ~task[r].closed
  /\ task' = [task EXCEPT ![r].phase = "slot"]
  /\ toProxy' = Sent(toProxy, <<Signal("ack", task[r].id), Signal("fin", task[r].id)>>)
  /\ UNCHANGED <<toClient, streams, proxyVars, channelVars>>

(* A task that ends by closing the stream id it was opened with, after     *)
(* sending frames.                                                         *)
EndTask(r, frames) ==
  LET id == task[r].id IN
  /\ task' = [TasksClosed(task, id) EXCEPT ![r].phase = "done"]
  /\ streams' = StreamsClosed(id)
  /\ toProxy' = Sent(toProxy, frames \o CloseFrames(id))
  /\ UNCHANGED <<toClient, proxyVars, channelVars>>

(* fetch() rejects: 502.                                                   *)
FetchFails(r) ==
  /\ task[r].phase = "fetch" /\ ~task[r].closed
  /\ EndTask(r, <<Signal("ack", task[r].id)>>)

(* fetch() is aborted, or the loop finds the stream closed.                *)
StopClosed(r) ==
  /\ task[r].phase \in {"fetch", "send"} /\ task[r].closed
  /\ task' = [task EXCEPT ![r].phase = "done"]
  /\ UNCHANGED <<toClient, toProxy, streams, proxyVars, channelVars>>

Sending(r) == task[r].phase = "send" /\ ~task[r].closed
Unsent(r)  == task[r].sent < Len(task[r].body)
Piece(r)   == task[r].body[task[r].sent + 1]

(* Mutant: a piece is sent as soon as there is any credit.                 *)
AnyCredit(r) == task[r].credit > 0

HasCredit(r) == task[r].credit >= Piece(r)

CreditLeft(r) == task[r].credit - Piece(r)

(* sendPayload of the next piece.                                          *)
SendPiece(r) ==
  /\ Sending(r) /\ Unsent(r) /\ HasCredit(r)
  /\ task' = [task EXCEPT ![r].credit = CreditLeft(r), ![r].sent = @ + 1]
  /\ toProxy' = Sent(toProxy,
       <<Msg("data", task[r].id, r, task[r].sent + 1, Piece(r))>>)
  /\ UNCHANGED <<toClient, streams, proxyVars, channelVars>>

(* awaitCredit parks the task.                                             *)
Park(r) ==
  /\ Sending(r) /\ Unsent(r) /\ ~HasCredit(r)
  /\ task' = [task EXCEPT ![r].phase = "parked"]
  /\ UNCHANGED <<toClient, toProxy, streams, proxyVars, channelVars>>

(* The body is through: FIN, then closeStream "done".                      *)
EndBody(r) ==
  /\ Sending(r) /\ ~Unsent(r)
  /\ EndTask(r, <<Signal("fin", task[r].id)>>)

(* Mutant: a body that breaks off is finished like a complete one.         *)
BodyFailsWithFin(r) ==
  /\ Sending(r)
  /\ EndTask(r, <<Signal("fin", task[r].id)>>)

(* reader.read() rejects in the middle of the body.                        *)
BodyFails(r) ==
  /\ Sending(r)
  /\ EndTask(r, <<>>)

(* sweep(): idle or too old.                                               *)
ClientSweep(id) ==
  /\ streams[id] # NoReq
  /\ CloseStream(id)
  /\ UNCHANGED <<toClient, proxyVars, channelVars>>

-----------------------------------------------------------------------------
(* The channel and the hub process.                                        *)
UnderWay == {r \in Reqs : \/ hub[r].phase \in {"wait", "acked", "open"}
                          \/ task[r].phase \notin {"none", "done", "refused"}}

ChannelLost ==
  /\ losses < MaxLosses
  /\ losses' = losses + 1 /\ up' = FALSE /\ cut' = cut \cup UnderWay
  /\ toClient' = <<>> /\ toProxy' = <<>>

(* Neither proxy nor client reacts to the loss of the channel.             *)
Drop ==
  /\ up /\ ChannelLost
  /\ UNCHANGED <<proxyVars, clientVars>>

ChannelBack ==
  /\ ~up
  /\ up' = TRUE
  /\ UNCHANGED <<toClient, toProxy, proxyVars, clientVars, cut, losses>>

(* A new hub process: its streams are gone and ids start again at 1.       *)
HubRestart ==
  /\ HubMayRestart /\ ChannelLost
  /\ nextId' = 1
  /\ hub' = [r \in Reqs |-> IF hub[r].phase = "idle" THEN hub[r] ELSE Ended(r, "broken")]
  /\ UNCHANGED clientVars

-----------------------------------------------------------------------------
Browser(r) ==
  \/ \E kind \in Kinds : StartHttpStream(r, kind)
  \/ BrowserLeaves(r)

HubStep(r) ==
  \/ AckTimeout(r)
  \/ Register(r)
  \/ HubSweep(r)

ClientStep(r) ==
  \/ FetchAnswers(r)
  \/ FetchAnswersWithoutBody(r)
  \/ FetchFails(r)
  \/ StopClosed(r)
  \/ SendPiece(r)
  \/ Park(r)
  \/ EndBody(r)
  \/ BodyFails(r)

(* Nothing is left to do; a task whose entry a re-used id has overwritten  *)
(* waits for ever.                                                         *)
Forgotten(r) ==
  task[r].phase \in {"body", "parked", "slot"} /\ streams[task[r].id] # r

Stopped ==
  /\ \A r \in Reqs : /\ hub[r].phase = "over"
                     /\ task[r].phase \in {"none", "done", "refused"} \/ Forgotten(r)
  /\ toClient = <<>> /\ toProxy = <<>>
  /\ UNCHANGED streamVars

StreamNext ==
  \/ \E r \in Reqs : Browser(r) \/ HubStep(r) \/ ClientStep(r)
  \/ \E id \in Ids : ClientSweep(id)
  \/ HubReceive \/ ClientReceive
  \/ Drop \/ ChannelBack \/ HubRestart
  \/ Stopped

StreamSpec == StreamInit /\ [][StreamNext]_streamVars

(* The event loops run what is queued, the ack timer and both sweeps fire, *)
(* fetch() settles.  Browsers, drops, restarts and reconnections may never *)
(* come.                                                                   *)
FairStreamSpec ==
  /\ StreamSpec
  /\ WF_streamVars(HubReceive) /\ WF_streamVars(ClientReceive)
  /\ \A r \in Reqs : WF_streamVars(ClientStep(r)) /\ WF_streamVars(HubStep(r))
  /\ \A id \in Ids : WF_streamVars(ClientSweep(id))

-----------------------------------------------------------------------------
(* A response that the browser saw end normally is the whole response of   *)
(* its own request, in order, unless the channel dropped under it or a     *)
(* restarted hub gave it an id that was still in use (onHttpFrame,         *)
(* sendPayload, closeStream "done").                                       *)
Whole(r) == [k \in 1 .. Len(task[r].body) |-> <<r, k>>]

EndedIsComplete ==
  \A r \in Reqs : hub[r].browser = "ended" /\ r \notin cut => hub[r].got = Whole(r)

(* The same of a stream whose channel dropped under it, which by the       *)
(* description of the connection is closed: false, because neither end     *)
(* reacts to the drop, and the frames that are lost with it are not missed.*)
DropLeavesNoHole ==
  \A r \in Reqs : hub[r].browser = "ended" => hub[r].got = Whole(r)

(* A task that waits for credit is never forgotten: while both sides hold  *)
(* the stream, a credit message or unconsumed data is on its way           *)
(* (awaitCredit against the half-window renewal in onHttpFrame).           *)
NoCreditStall ==
  \A r \in Reqs :
    task[r].phase = "parked" /\ hub[r].phase = "open" /\ r \notin cut =>
      \/ \E i \in 1 .. Len(toClient) :
           toClient[i].id = task[r].id /\ toClient[i].t \in {"window", "close"}
      \/ \E i \in 1 .. Len(toProxy) :
           toProxy[i].id = task[r].id /\ toProxy[i].t = "data"

(* No piece is larger than what is left of a window when less than half of *)
(* it has been consumed since the last grant: what NoCreditStall rests on. *)
(* chunkSize and windowSize are configured apart; 64K and 256K by default. *)
PiecesFit == \A b \in Bodies : \A k \in 1 .. Len(b) : 2 * b[k] <= Window + 2

(* The client never sends a byte the hub has not granted: what it sent is  *)
(* covered by the windows the hub gave it (sendPayload, grantCredit).      *)
BytesOf(b) ==
  LET bytes[n \in 0 .. Len(b)] == IF n = 0 THEN 0 ELSE bytes[n - 1] + b[n]
  IN  bytes

BytesSent(r) == BytesOf(task[r].body)[task[r].sent]

SentWithinGrants ==
  \A r \in Reqs \ cut : BytesSent(r) <= hub[r].grants * Window

(* Credit is a sound account on both sides: none is spent that was not     *)
(* granted, and none is forgotten while a task waits for it.               *)
CreditSound == NoCreditStall /\ SentWithinGrants

(* No stream is held for ever: the hub's entry and the client's task end,  *)
(* a task parked for credit included (sweep, closeStream's drainWaiting,   *)
(* raceAck).                                                               *)
StreamsEnd ==
  \A r \in Reqs :
    /\ hub[r].phase = "wait" ~> hub[r].phase = "over"
    /\ task[r].id # 0 ~> task[r].phase = "done"

=============================================================================
