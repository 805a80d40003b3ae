------------------------------ MODULE Exchanges ------------------------------
(***************************************************************************)
(* The request path of one worker: worker/ingress.zig (frames of a client  *)
(* stream become a backend stream), worker/worker.zig (drain of backend    *)
(* responses, failures, expiry, close of a session), worker/auth.zig and   *)
(* worker/lifecycle.zig, on the tables of Inflight.  Clients and backends  *)
(* are the environment.                                                    *)
(*                                                                         *)
(* A worker is one thread.  A callback that touches several entries is a   *)
(* sequence of steps of the model, but nothing else moves meanwhile: phase *)
(* and outbox say which callback is being carried out, and every event of  *)
(* the outside waits for Idle.                                             *)
(*                                                                         *)
(* A session is an identity of SessionSlots (slot and generation); a name  *)
(* may be taken again once RemoveSession has run.  A backend stream handle *)
(* may be issued again once nothing mentions it (Fresh), which stands for  *)
(* the endless supply of stream ids.                                       *)
(***************************************************************************)
EXTENDS Inflight, Sequences

CONSTANTS
    Bindings,      \* the transports clients come over: "quic", "wss" or both
    DestIds,       \* identities an auth service hands out (never 0)
    Conns,         \* connections of the backend transport
    ConnOf,        \* backend stream handle -> its connection
    AuthRequired,  \* auth_policy.required
    AuthRouted,    \* auth_policy.route is set, and registered
    LifecycleRouted, \* auth_policy.lifecycle_route, likewise
    MaxExchanges,  \* max_inbound_exchanges_per_connection
    MaxFrames,     \* bound: frames of a client stream after its first,
                   \* and data events of a response before its FIN
    MaxQueue       \* bound: events of a connection waiting for a poll

ASSUME ExchangesAssumption ==
    /\ Bindings \subseteq {"quic", "wss"}
    /\ DestIds \subseteq Nat \ {0}
    /\ Conns \subseteq Nat
    /\ ConnOf \in [Handles -> Conns]
    /\ AuthRequired \in BOOLEAN /\ AuthRouted \in BOOLEAN
    /\ LifecycleRouted \in BOOLEAN
    /\ MaxExchanges \in Nat
    /\ MaxFrames \in Nat
    /\ MaxQueue \in Nat

Cells == Sessions \X Streams   \* a client stream of a session

VARIABLES
    session,    \* the ConnectionContext, as far as requests need it
    exchanges,  \* inbound_exchanges: what the gateway knows of the input
    input,      \* client -> gateway direction, as the client drives it
    output,     \* gateway -> client direction
    request,    \* gateway -> backend direction of a backend stream
    response,   \* backend -> gateway direction
    recv,       \* the receive queue of each connection
    up,         \* which backend connections are ready
    failures,   \* pending_failures: handles of a lost connection generation
    phase,      \* the callback that is being carried out
    outbox,     \* lifecycle events it still has to publish
    announced   \* history: the lifecycle events that went out, by session

clientVars  == <<input, output>>
backendVars == <<request, response, recv, up, failures>>
threadVars  == <<phase, outbox, announced>>
vars == <<inflightVars, session, exchanges, clientVars, backendVars, threadVars>>

Session == [status        : {"absent", "open", "closing"},
            binding       : Bindings \cup {"none"},
            realm         : Realms \cup {Nil},
            authenticated : BOOLEAN,
            lapsed        : BOOLEAN,           \* now >= auth_expires_at
            dest_id       : DestIds \cup {0},
            claimed       : Streams \cup {Nil}, \* highest_client_exchange_id
            kicked        : BOOLEAN]           \* history: kicked while admitted

NoSession == [status |-> "absent", binding |-> "none", realm |-> Nil,
              authenticated |-> FALSE, lapsed |-> FALSE, dest_id |-> 0,
              claimed |-> Nil, kicked |-> FALSE]

(* what lifecycle.publish is asked to send *)
LifecycleEvent == [session : Sessions,
                   realm   : Realms,
                   dest_id : DestIds \cup {0},
                   online  : BOOLEAN]

(* the last event a backend stream was opened for, and whether a later one *)
(* of the session was dropped                                              *)
Announcement == [kind    : {"none", "online", "offline"},
                 dest_id : DestIds \cup {0},
                 missed  : BOOLEAN]

NotAnnounced == [kind |-> "none", dest_id |-> 0, missed |-> FALSE]

Exchange == [mode           : {"absent", "required", "none"},
             backend        : Handles \cup {Nil},
             input_complete : BOOLEAN]

NoExchange == [mode |-> "absent", backend |-> Nil, input_complete |-> FALSE]

Input == [state  : {"idle", "open", "ended"},
          asked  : {"nothing", "required", "none"},
          frames : 0 .. MaxFrames]

UnusedInput == [state |-> "idle", asked |-> "nothing", frames |-> 0]

Over == [ended |-> TRUE, frames |-> 0]   \* nothing more comes back

Event == [handle : Handles, kind : {"data", "fin", "reset", "stop"}]

(* How a client stream has been ended: FIN, RESET, on a WSS stream also    *)
(* records after the RESET ("late"), a FIN among them ("late fin"), and a  *)
(* write after a FIN ("twice").                                            *)
Ends == {"open", "fin", "reset", "late", "late fin", "twice"}

TypeOK ==
    /\ InflightTypeOK
    /\ session \in [Sessions -> Session]
    /\ exchanges \in [Cells -> Exchange]
    /\ input \in [Cells -> Input]
    /\ output \in [Cells -> Ends]
    /\ request \in [Handles -> {"unused", "open", "fin", "reset", "discarded",
                                "lost"}]
    /\ response \in [Handles -> [ended : BOOLEAN, frames : 0 .. MaxFrames]]
    /\ recv \in [Conns -> Seq(Event)]
    /\ up \in [Conns -> BOOLEAN]
    /\ failures \in [Conns -> SUBSET Handles]
    /\ phase \in [at   : {"idle", "drain", "fail", "expire", "close"},
                  who  : Sessions \cup {Nil},
                  conn : Conns \cup {Nil}]
    /\ outbox \in Seq(LifecycleEvent)
    /\ announced \in [Sessions -> Announcement]

Phase(at) == [at |-> at, who |-> Nil, conn |-> Nil]

Init ==
    /\ InflightInit
    /\ session = [s \in Sessions |-> NoSession]
    /\ exchanges = [c \in Cells |-> NoExchange]
    /\ input = [c \in Cells |-> UnusedInput]
    /\ output = [c \in Cells |-> "open"]
    /\ request = [h \in Handles |-> "unused"]
    /\ response = [h \in Handles |-> Over]
    /\ recv = [k \in Conns |-> <<>>]
    /\ up = [c \in Conns |-> TRUE]
    /\ failures = [c \in Conns |-> {}]
    /\ phase = Phase("idle")
    /\ outbox = <<>>
    /\ announced = [s \in Sessions |-> NotAnnounced]

Idle == phase.at = "idle" /\ outbox = <<>>
-------------------------------------------------------------------------------
(* The transports, as the worker sees them.                                *)

IsWss(s) == session[s].binding = "wss"

(* transport.write on a client stream: what the client's side becomes.     *)
(* picoquic refuses a write after FIN or RESET; the WSS listener keeps no  *)
(* state per stream and puts the record on the wire.  (A RESET record that *)
(* follows an end is not told apart from none.)                            *)
Written(c, fin) ==
    CASE session[c[1]].status # "open" -> output[c]
      [] session[c[1]].status = "open" /\ output[c] = "open" ->
            IF fin THEN "fin" ELSE "open"
      [] session[c[1]].status = "open" /\ output[c] # "open" ->
            IF ~IsWss(c[1]) THEN output[c]
            ELSE IF output[c] \in {"reset", "late"}
                 THEN IF fin THEN "late fin" ELSE "late"
                 ELSE "twice"

(* replyControl and finishResponseWithoutPayload: one write, with FIN *)
Answer(c) == output' = [output EXCEPT ![c] = Written(c, TRUE)]

(* a write that returns an error: a closing transport may, a raw QUIC      *)
(* stream that has ended does                                              *)
WriteMayFail(c) ==
    \/ session[c[1]].status # "open"
    \/ ~IsWss(c[1]) /\ output[c] # "open"

WriteMaySucceed(c) ==
    \/ session[c[1]].status = "closing"
    \/ session[c[1]].status = "open" /\ (output[c] = "open" \/ IsWss(c[1]))

(* transport.resetSend *)
Reset(c) ==
    output' = [output EXCEPT ![c] =
                  IF session[c[1]].status = "open" /\ @ = "open" THEN "reset" ELSE @]

(* claimInboundExchange: WSS stream ids only grow, raw QUIC says yes *)
ClaimInboundExchange(s, t) ==
    IsWss(s) => session[s].claimed = Nil \/ t > session[s].claimed

Claimed(s, t) ==
    IF IsWss(s) THEN [session EXCEPT ![s].claimed = t] ELSE session

(* transport.close: asynchronous, the session is still registered *)
CloseTransport(s) == session' = [session EXCEPT ![s].status = "closing"]

Mentioned(h) ==
    \/ h \in Routed \cup Authing
    \/ \E c \in Cells : exchanges[c].backend = h
    \/ \E k \in Conns : \E i \in DOMAIN recv[k] : recv[k][i].handle = h
    \/ \E k \in Conns : h \in failures[k]

(* the handles sendStream(null) can return *)
Fresh ==
    {h \in Handles : /\ up[ConnOf[h]]
                     /\ request[h] # "open" /\ response[h].ended
                     /\ ~Mentioned(h)}

(* sendStream(null, ..., is_fin) *)
StartStream(h, is_fin) ==
    /\ request' = [request EXCEPT ![h] = IF is_fin THEN "fin" ELSE "open"]
    /\ response' = [response EXCEPT ![h] = [ended |-> FALSE, frames |-> 0]]
    /\ UNCHANGED <<recv, up, failures>>

(* finishBackendStream: an empty FIN, for what it is worth *)
Finished(h) == IF request[h] = "open" THEN "fin" ELSE request[h]

(* what an exchange keeps of its backend stream after this frame *)
Mut_KeepHandle(h, last) == h

KeptHandle(h, last) == IF last THEN Nil ELSE h

Registered(c, mode, backend, complete) ==
    [exchanges EXCEPT ![c] =
        [mode |-> mode, backend |-> backend, input_complete |-> complete]]

Removed(c) == [exchanges EXCEPT ![c] = NoExchange]

ExchangeCount(s) == Cardinality({t \in Streams : exchanges[<<s, t>>].mode # "absent"})

-------------------------------------------------------------------------------
(* Sessions come and go.                                                   *)

(* acceptClientSession *)
AcceptSession(s, realm, binding) ==
    /\ Idle
    /\ session[s].status = "absent"
    /\ session' = [session EXCEPT ![s] =
                      [NoSession EXCEPT !.status = "open", !.binding = binding,
                                         !.realm = realm]]
    /\ UNCHANGED <<inflightVars, exchanges, clientVars, backendVars, threadVars>>

(* the transport fails, closes for a framing violation, or is closed by    *)
(* rehomeDrifted                                                           *)
TransportFails(s) ==
    /\ Idle
    /\ session[s].status = "open"
    /\ CloseTransport(s)
    /\ UNCHANGED <<inflightVars, exchanges, clientVars, backendVars, threadVars>>

(* lifecycle.publishOffline: nothing for a session that is not admitted    *)
Mut_OfflineUnsaid(s) == <<>>

Mut_SaidAfterClear(s) ==
    IF session[s].authenticated
    THEN <<[session |-> s, realm |-> session[s].realm, dest_id |-> 0, online |-> FALSE]>>
    ELSE <<>>

Said(s) ==
    IF session[s].authenticated
    THEN <<[session |-> s, realm |-> session[s].realm, dest_id |-> session[s].dest_id,
            online |-> FALSE]>>
    ELSE <<>>

(* lifecycle.publishOnline *)
OnlineSaid(s, dest) ==
    <<[session |-> s, realm |-> session[s].realm, dest_id |-> dest, online |-> TRUE]>>

(* lifecycle.publish: one tracked request whose answer nobody waits for,   *)
(* or nothing at all when the event has no route, the table is full, the   *)
(* realm is over its share or no stream can be opened                      *)
PublishEvent ==
    LET event == Head(outbox)
        s == event.session
    IN
    /\ outbox # <<>>
    /\ outbox' = Tail(outbox)
    /\ \/ /\ LifecycleRouted /\ ReserveRoute(event.realm)
          /\ \E h \in Fresh : StartStream(h, TRUE) /\ OpenRoute(h, DiscardRoute(event.realm))
          /\ announced' = [announced EXCEPT ![s] =
                              [kind    |-> IF event.online THEN "online" ELSE "offline",
                               dest_id |-> event.dest_id,
                               missed  |-> FALSE]]
       \/ /\ ~(LifecycleRouted /\ ReserveRoute(event.realm) /\ Fresh # {})
          /\ announced' = [announced EXCEPT ![s].missed = TRUE]
          /\ UNCHANGED <<inflightVars, backendVars>>
    /\ UNCHANGED <<session, exchanges, clientVars, phase>>

(* closeClientSession, up to the purge, once the transport is closed:      *)
(* offline, then FIN to every backend stream whose input is still open     *)
(* (finishOpenExchanges)                                                   *)
CloseSession(s) ==
    /\ Idle
    /\ session[s].status # "absent"
    /\ CloseTransport(s)
    /\ outbox' = Said(s)
    /\ request' = [h \in Handles |->
                      IF \E t \in Streams : exchanges[<<s, t>>].backend = h
                      THEN Finished(h) ELSE request[h]]
    /\ phase' = [Phase("close") EXCEPT !.who = s]
    /\ UNCHANGED <<inflightVars, exchanges, clientVars, response, recv, up, failures,
                   announced>>

(* Filter.matchesRoute and matchesAuth for a session *)
OwnedRoutes(s) == {h \in Routed : routes[h].session = s}

Mut_NoAuthOwned(s) == {}

OwnedAuths(s) == {h \in Authing : auths[h].session = s}

(* purge(.session), entry by entry *)
Purge(h) ==
    /\ phase.at = "close" /\ outbox = <<>>
    /\ \/ h \in OwnedRoutes(phase.who) /\ CloseRoute(h)
       \/ h \in OwnedAuths(phase.who) /\ DropAuth(h)
    /\ UNCHANGED <<session, exchanges, clientVars, backendVars, threadVars>>

(* removeSession, once nothing is left to purge *)
RemoveSession ==
    /\ phase.at = "close" /\ outbox = <<>>
    /\ OwnedRoutes(phase.who) \cup OwnedAuths(phase.who) = {}
    /\ session' = [session EXCEPT ![phase.who] = NoSession]
    /\ exchanges' = [c \in Cells |-> IF c[1] = phase.who THEN NoExchange ELSE exchanges[c]]
    /\ input' = [c \in Cells |-> IF c[1] = phase.who THEN UnusedInput ELSE input[c]]
    /\ output' = [c \in Cells |-> IF c[1] = phase.who THEN "open" ELSE output[c]]
    /\ announced' = [announced EXCEPT ![phase.who] = NotAnnounced]
    /\ phase' = Phase("idle")
    /\ UNCHANGED <<inflightVars, backendVars, outbox>>
-------------------------------------------------------------------------------
(* Frames and controls of a client stream (ingress.zig).                   *)

(* a frame of an OPEN or DATA header arrives on stream t *)
FrameArrives(s, t) ==
    /\ Idle
    /\ session[s].status = "open"
    /\ input[<<s, t>>].state = "idle" \/ input[<<s, t>>].frames < MaxFrames

Opened(c, mode) ==
    [input EXCEPT ![c] = [state  |-> "open",
                          asked  |-> IF @.asked = "nothing" THEN mode ELSE @.asked,
                          frames |-> IF @.state = "idle" THEN 0 ELSE @.frames + 1]]

(* dispatchFrame, openInboundExchange: OPEN on a live exchange, a stream   *)
(* id used before, or a destination that is not the client's to address    *)
Mut_SecondOpen(s, t, dest) == ~ClaimInboundExchange(s, t) \/ dest = "peer"

OpenViolates(s, t, dest) ==
    \/ exchanges[<<s, t>>].mode # "absent"
    \/ ~ClaimInboundExchange(s, t)
    \/ dest = "peer"

ReceiveBadOpen(s, t, dest, mode) ==
    /\ FrameArrives(s, t)
    /\ input[<<s, t>>].state # "ended"
    /\ OpenViolates(s, t, dest)
    /\ input' = Opened(<<s, t>>, mode)
    /\ CloseTransport(s)
    /\ UNCHANGED <<inflightVars, exchanges, output, backendVars, threadVars>>

(* an OPEN that gets past openInboundExchange's protocol checks *)
OpenArrives(s, t, dest) ==
    /\ FrameArrives(s, t)
    /\ input[<<s, t>>].state # "ended"
    /\ ~OpenViolates(s, t, dest)

(* isAdmitted *)
IsAdmitted(s) == session[s].authenticated /\ ~session[s].lapsed

(* the reasons for which an OPEN is answered by an error and leaves no     *)
(* entry: the checks of openInboundExchange, openGatewayExchange and       *)
(* openServiceExchange                                                     *)
Refuses(s, dest, last) ==
    \/ ExchangeCount(s) >= MaxExchanges
    \/ dest = "gateway" /\ ~last
    \/ dest = "unrouted"
    \/ /\ dest = "service"
       /\ \/ AuthRequired /\ ~IsAdmitted(s)
          \/ ~ReserveRoute(session[s].realm)
          \/ Fresh = {}

ReceiveRefusedOpen(s, t, dest, mode, last) ==
    /\ OpenArrives(s, t, dest)
    /\ Refuses(s, dest, last)
    /\ input' = Opened(<<s, t>>, mode)
    /\ session' = Claimed(s, t)
    /\ Answer(<<s, t>>)
    /\ UNCHANGED <<inflightVars, exchanges, backendVars, threadVars>>

(* openServiceExchange *)
ReceiveServiceOpen(s, t, mode, last) ==
    LET c == <<s, t>>
        realm == session[s].realm
    IN
    /\ OpenArrives(s, t, "service")
    /\ ~Refuses(s, "service", last)
    /\ input' = Opened(c, mode)
    /\ session' = Claimed(s, t)
    /\ \E h \in Fresh :
          /\ StartStream(h, last)
          /\ OpenRoute(h, IF mode = "required" THEN ClientRoute(s, t, realm)
                                               ELSE DiscardRoute(realm))
          /\ exchanges' = Registered(c, mode, KeptHandle(h, last), last)
    /\ IF last /\ mode = "none" THEN Answer(c) ELSE UNCHANGED output
    /\ UNCHANGED threadVars

(* handleControlFrame: heartbeat, ping and every control that is answered  *)
(* on the spot, an error among them                                        *)
ReceiveControlOpen(s, t, mode) ==
    /\ OpenArrives(s, t, "gateway")
    /\ ~Refuses(s, "gateway", TRUE)
    /\ input' = Opened(<<s, t>>, mode)
    /\ session' = Claimed(s, t)
    /\ exchanges' = Registered(<<s, t>>, mode, Nil, TRUE)
    /\ Answer(<<s, t>>)
    /\ UNCHANGED <<inflightVars, backendVars, threadVars>>

(* handleControlFrame: disconnect; the close follows the frame loop *)
ReceiveDisconnect(s, t) ==
    /\ OpenArrives(s, t, "gateway")
    /\ ~Refuses(s, "gateway", TRUE)
    /\ input' = Opened(<<s, t>>, "none")
    /\ session' = [Claimed(s, t) EXCEPT ![s].status = "closing"]
    /\ exchanges' = Registered(<<s, t>>, "none", Nil, TRUE)
    /\ UNCHANGED <<inflightVars, output, backendVars, threadVars>>

(* delegateAuth *)
ReceiveAuthOpen(s, t) ==
    LET realm == session[s].realm IN
    /\ OpenArrives(s, t, "gateway")
    /\ ~Refuses(s, "gateway", TRUE)
    /\ input' = Opened(<<s, t>>, "required")
    /\ session' = Claimed(s, t)
    /\ exchanges' = Registered(<<s, t>>, "required", Nil, TRUE)
    /\ IF AuthRouted /\ ReserveAuth(realm) /\ Fresh # {}
       THEN /\ \E h \in Fresh : /\ StartStream(h, TRUE)
                                /\ TrackAuth(h, WaitingAuth(s, t, realm))
            /\ UNCHANGED output
       ELSE /\ Answer(<<s, t>>)
            /\ UNCHANGED <<inflightVars, backendVars>>
    /\ UNCHANGED threadVars

(* dispatchFrame and appendToExchange on a DATA frame *)
ReceiveData(s, t, last) ==
    LET c == <<s, t>>
        h == exchanges[c].backend
    IN
    /\ FrameArrives(s, t)
    /\ input[c].state = "open"
    /\ input' = [input EXCEPT ![c].frames = @ + 1]
    /\ UNCHANGED threadVars
    /\ \/ /\ exchanges[c].mode = "absent"      \* dropped
          /\ UNCHANGED <<inflightVars, session, exchanges, output, backendVars>>
       \/ /\ exchanges[c].input_complete       \* a frame after eof
          /\ CloseTransport(s)
          /\ UNCHANGED <<inflightVars, exchanges, output, backendVars>>
       \/ /\ h # Nil /\ h \notin Routed        \* the route is gone
          /\ exchanges' = Removed(c)
          /\ UNCHANGED <<inflightVars, session, output, backendVars>>
       \/ /\ h # Nil /\ h \in Routed           \* appended
          /\ request[h] = "open"
          /\ TouchRoute(h)
          /\ request' = IF last THEN [request EXCEPT ![h] = "fin"] ELSE request
          /\ exchanges' = Registered(c, exchanges[c].mode, KeptHandle(h, last), last)
          /\ IF last /\ exchanges[c].mode = "none" THEN Answer(c)
                                                   ELSE UNCHANGED output
          /\ UNCHANGED <<session, response, recv, up, failures>>
       \/ /\ h # Nil /\ h \in Routed           \* the append fails
          /\ request[h] # "open"
          /\ request' = [request EXCEPT ![h] = Finished(h)]
          /\ CloseRoute(h)
          /\ exchanges' = Removed(c)
          /\ Answer(c)
          /\ UNCHANGED <<session, response, recv, up, failures>>

(* finishClientStream *)
Mut_CloseAgain(exchange) == exchange.mode = "none"

ClosesOutput(exchange) == exchange.mode = "none" /\ ~exchange.input_complete

ReceiveFin(s, t) ==
    LET c == <<s, t>>
        h == exchanges[c].backend
    IN
    /\ Idle
    /\ session[s].status = "open"
    /\ input[c].state = "open"
    /\ input' = [input EXCEPT ![c] = [@ EXCEPT !.state = "ended", !.frames = 0]]
    /\ request' = IF h = Nil THEN request ELSE [request EXCEPT ![h] = Finished(h)]
    /\ IF ClosesOutput(exchanges[c]) THEN Answer(c) ELSE UNCHANGED output
    /\ exchanges' = Removed(c)
    /\ UNCHANGED <<inflightVars, session, response, recv, up, failures, threadVars>>

(* resetClientInput *)
ReceiveReset(s, t) ==
    LET c == <<s, t>>
        h == exchanges[c].backend
    IN
    /\ Idle
    /\ session[s].status = "open"
    /\ input[c].state = "open"
    /\ input' = [input EXCEPT ![c] = [@ EXCEPT !.state = "ended", !.frames = 0]]
    /\ IF exchanges[c].input_complete THEN UNCHANGED output ELSE Reset(c)
    /\ request' = IF h = Nil THEN request ELSE [request EXCEPT ![h] = Finished(h)]
    /\ IF h = Nil THEN UNCHANGED inflightVars ELSE CloseRoute(h)
    /\ exchanges' = Removed(c)
    /\ UNCHANGED <<session, response, recv, up, failures, threadVars>>

(* handleSessionControl(.stop): requests go on, their answers go nowhere *)
ReceiveStop(s, t) ==
    /\ Idle
    /\ session[s].status = "open"
    /\ Suppress(s, t)
    /\ Reset(<<s, t>>)
    /\ UNCHANGED <<session, exchanges, input, backendVars, threadVars>>
-------------------------------------------------------------------------------
(* Admission (auth.zig, lifecycle.zig, egress.kickOne).                    *)

(* revokeAdmission, after its offline event *)
Revoked(rec) == [rec EXCEPT !.authenticated = FALSE, !.lapsed = FALSE, !.dest_id = 0]

(* the ttl of an admission runs out *)
AdmissionLapses(s) ==
    /\ Idle
    /\ session[s].authenticated /\ ~session[s].lapsed
    /\ session' = [session EXCEPT ![s].lapsed = TRUE]
    /\ UNCHANGED <<inflightVars, exchanges, clientVars, backendVars, threadVars>>

(* expireAdmissions reaches the session *)
ExpireAdmission(s) ==
    /\ Idle
    /\ session[s].authenticated /\ session[s].lapsed
    /\ session' = [session EXCEPT ![s] = Revoked(@)]
    /\ outbox' = Said(s)
    /\ UNCHANGED <<inflightVars, exchanges, clientVars, backendVars, phase, announced>>

(* refreshOnline *)
RefreshOnline(s) ==
    /\ Idle
    /\ session[s].authenticated
    /\ outbox' = OnlineSaid(s, session[s].dest_id)
    /\ UNCHANGED <<inflightVars, session, exchanges, clientVars, backendVars, phase,
                   announced>>

(* kickOne: revoke, notify, close.  The command comes with a backend push, *)
(* in the middle of a drain, or through another worker.                    *)
Kick(s) ==
    /\ phase.at \in {"idle", "drain"} /\ outbox = <<>>
    /\ session[s].status # "absent"
    /\ session' = [session EXCEPT ![s] =
                      [Revoked(@) EXCEPT
                          !.kicked = session[s].kicked \/ session[s].authenticated,
                          !.status = "closing"]]
    /\ outbox' = Said(s)
    /\ UNCHANGED <<inflightVars, exchanges, clientVars, backendVars, phase, announced>>

(* completeAuth, .success on the session's home node *)
Authenticated(rec, dest) ==
    [rec EXCEPT !.authenticated = TRUE, !.lapsed = FALSE, !.dest_id = dest]

(* offline for the identity that is replaced, online for a new one *)
Announced(s, dest) ==
    IF session[s].authenticated /\ session[s].dest_id = dest
    THEN <<>>
    ELSE Said(s) \o OnlineSaid(s, dest)

-------------------------------------------------------------------------------
(* The poll: drain the queue, fail what one lost connection took with it,  *)
(* expire what is too old (drainBackendResponses).                         *)

(* receiveImpl looks at the connections in their order *)
Ready == {k \in Conns : recv[k] # <<>>}

FirstReady == CHOOSE k \in Ready : \A j \in Ready : k <= j

Front == Head(recv[FirstReady])

(* the shared pool is not idle, or a scan is due; else the poll is a no-op *)
StartPoll ==
    /\ Idle
    /\ Ready # {} \/ (\E k \in Conns : failures[k] # {}) \/ ExpirationDue
    /\ phase' = Phase("drain")
    /\ UNCHANGED <<inflightVars, session, exchanges, clientVars, backendVars, outbox,
                   announced>>

(* the last part of the poll: expireInflight when a scan is due *)
Drained == phase' = Phase(IF ExpirationDue THEN "expire" ELSE "idle")

Draining == phase.at = "drain" /\ outbox = <<>> /\ Ready # {}

CellOf(entry) == <<entry.session, entry.stream>>

(* replyControl to whoever waits for this entry *)
Mut_DropAuth(h) == UNCHANGED output

AnswerAuth(h) ==
    IF auths[h].suppressed THEN UNCHANGED output ELSE Answer(CellOf(auths[h]))

Mut_DropRoute(h) == UNCHANGED output

AnswerRoute(h) ==
    IF routes[h].target = "client" THEN Answer(CellOf(routes[h]))
                                   ELSE UNCHANGED output

TakeEvent ==
    /\ recv' = [recv EXCEPT ![FirstReady] = Tail(@)]
    /\ UNCHANGED <<request, response, up, failures, exchanges, input, phase, announced>>

(* handleBackendStreamControl, and an event nobody waits for *)
DrainControl ==
    LET h == Front.handle IN
    /\ Draining
    /\ Front.kind \in {"reset", "stop"}
    /\ TakeEvent
    /\ \/ h \in Authing /\ AnswerAuth(h) /\ DropAuth(h)
       \/ h \in Routed \ Authing /\ AnswerRoute(h) /\ CloseRoute(h)
       \/ h \notin Routed \cup Authing /\ UNCHANGED <<inflightVars, output>>
    /\ UNCHANGED <<session, outbox>>

(* collectAuthResponse: fragments are kept until the FIN, completeAuth     *)
(* then judges the whole                                                   *)
DrainAuth ==
    LET h == Front.handle
        s == auths[h].session
    IN
    /\ Draining
    /\ Front.kind \in {"data", "fin"}
    /\ h \in Authing
    /\ TakeEvent
    /\ \/ /\ Front.kind = "data"
          /\ UNCHANGED <<inflightVars, session, output, outbox>>
       \/ /\ Front.kind = "fin"
          /\ DropAuth(h)
          /\ AnswerAuth(h)
          /\ \/ UNCHANGED <<session, outbox>>        \* .failure, .invalid
             \/ \E dest \in DestIds \cup {0} :        \* .success
                   /\ session' = [session EXCEPT ![s] = Authenticated(@, dest)]
                   /\ outbox' = Announced(s, dest)
             \/ CloseTransport(s) /\ UNCHANGED outbox \* redirectToHome

(* drainTransport on a response *)
DrainRoute ==
    LET h == Front.handle
        c == CellOf(routes[h])
        fin == Front.kind = "fin"
    IN
    /\ Draining
    /\ Front.kind \in {"data", "fin"}
    /\ h \in Routed \ Authing
    /\ TakeEvent
    /\ \/ /\ routes[h].target = "discard"
          /\ IF fin THEN CloseRoute(h) ELSE TouchRoute(h)
          /\ UNCHANGED output
       \/ /\ routes[h].target = "client"
          /\ WriteMaySucceed(c)
          /\ output' = [output EXCEPT ![c] = Written(c, fin)]
          /\ IF fin THEN CloseRoute(h) ELSE TouchRoute(h)
       \/ /\ routes[h].target = "client"
          /\ WriteMayFail(c)
          /\ CloseRoute(h)
          /\ UNCHANGED output
    /\ UNCHANGED <<session, outbox>>

(* drainTransport on a response whose entry is gone *)
DrainOrphan ==
    /\ Draining
    /\ Front.kind \in {"data", "fin"}
    /\ Front.handle \notin Routed \cup Authing
    /\ TakeEvent
    /\ UNCHANGED <<inflightVars, session, output, outbox>>

(* receive: the queue is empty, one pending failure is reported *)
ReportFailure(k) ==
    /\ phase.at = "drain" /\ outbox = <<>> /\ Ready = {}
    /\ failures[k] # {}
    /\ phase' = [Phase("fail") EXCEPT !.conn = k]
    /\ UNCHANGED <<inflightVars, session, exchanges, clientVars, backendVars, outbox,
                   announced>>

DrainDone ==
    /\ phase.at = "drain" /\ outbox = <<>> /\ Ready = {}
    /\ \A k \in Conns : failures[k] = {}
    /\ Drained
    /\ UNCHANGED <<inflightVars, session, exchanges, clientVars, backendVars, outbox,
                   announced>>

(* failTransportRequests, entry by entry *)
FailEntry(h) ==
    /\ phase.at = "fail"
    /\ h \in failures[phase.conn]
    /\ \/ h \in Routed /\ AnswerRoute(h) /\ CloseRoute(h)
       \/ h \in Authing /\ AnswerAuth(h) /\ DropAuth(h)
    /\ UNCHANGED <<session, exchanges, input, backendVars, threadVars>>

FailDone ==
    /\ phase.at = "fail"
    /\ failures[phase.conn] \cap (Routed \cup Authing) = {}
    /\ failures' = [failures EXCEPT ![phase.conn] = {}]
    /\ Drained
    /\ UNCHANGED <<inflightVars, session, exchanges, clientVars, request, response,
                   recv, up, outbox, announced>>

(* invalidateStream: RESET and STOP_SENDING, unless the connection it was  *)
(* on is gone                                                              *)
Invalidate(h) ==
    /\ request' = [request EXCEPT ![h] = IF @ = "lost" THEN @ ELSE "discarded"]
    /\ response' = [response EXCEPT ![h] = Over]
    /\ UNCHANGED <<recv, up, failures>>

(* expireInflight, entry by entry *)
Expire(h) ==
    /\ phase.at = "expire"
    /\ \/ h \in ExpiredRoutes /\ AnswerRoute(h) /\ CloseRoute(h)
       \/ h \in ExpiredAuths /\ AnswerAuth(h) /\ DropAuth(h)
    /\ Invalidate(h)
    /\ UNCHANGED <<session, exchanges, input, threadVars>>

ExpireDone ==
    /\ phase.at = "expire"
    /\ ExpiredRoutes \cup ExpiredAuths = {}
    /\ RefreshExpiryDeadline
    /\ phase' = Phase("idle")
    /\ UNCHANGED <<session, exchanges, clientVars, backendVars, outbox,
                   announced>>

Tick ==
    /\ Idle
    /\ Age
    /\ UNCHANGED <<session, exchanges, clientVars, backendVars, threadVars>>

-------------------------------------------------------------------------------
(* Backends.                                                               *)

Enqueue(h, kind) ==
    /\ Idle
    /\ Len(recv[ConnOf[h]]) < MaxQueue
    /\ recv' = [recv EXCEPT ![ConnOf[h]] = Append(@, [handle |-> h, kind |-> kind])]

BackendResponds(h, kind) ==
    /\ ~response[h].ended
    /\ kind = "data" => response[h].frames < MaxFrames
    /\ Enqueue(h, kind)
    /\ response' = IF kind = "fin" THEN [response EXCEPT ![h] = Over]
                                   ELSE [response EXCEPT ![h].frames = @ + 1]
    /\ UNCHANGED <<inflightVars, session, exchanges, clientVars, request, up,
                   failures, threadVars>>

BackendResets(h) ==
    /\ ~response[h].ended
    /\ Enqueue(h, "reset")
    /\ response' = [response EXCEPT ![h] = Over]
    /\ UNCHANGED <<inflightVars, session, exchanges, clientVars, request, up,
                   failures, threadVars>>

(* hookStreamControl: the transport resets its side at once *)
BackendStops(h) ==
    /\ request[h] = "open"
    /\ Enqueue(h, "stop")
    /\ request' = [request EXCEPT ![h] = "reset"]
    /\ UNCHANGED <<inflightVars, session, exchanges, clientVars, response, up,
                   failures, threadVars>>

(* hookClose, abortConnection: what was queued stays readable.  At most    *)
(* one failure of a connection is pending: its backoff outlasts a poll.    *)
ConnectionLost(k) ==
    LET gone == {h \in Handles : ConnOf[h] = k /\ request[h] # "unused"} IN
    /\ Idle
    /\ up[k] /\ failures[k] = {}
    /\ up' = [up EXCEPT ![k] = FALSE]
    /\ failures' = [failures EXCEPT ![k] = gone]
    /\ request' = [h \in Handles |-> IF h \in gone THEN "lost" ELSE request[h]]
    /\ response' = [h \in Handles |-> IF h \in gone THEN Over ELSE response[h]]
    /\ UNCHANGED <<inflightVars, session, exchanges, clientVars, recv, threadVars>>

Reconnect(k) ==
    /\ Idle
    /\ ~up[k]
    /\ up' = [up EXCEPT ![k] = TRUE]
    /\ UNCHANGED <<inflightVars, session, exchanges, clientVars, request, response,
                   recv, failures, threadVars>>

-------------------------------------------------------------------------------
Modes == {"required", "none"}

Dests == {"gateway", "service", "unrouted", "peer"}

StreamNext(s, t) ==
    \/ \E dest \in Dests, mode \in Modes :
          \/ ReceiveBadOpen(s, t, dest, mode)
          \/ \E last \in BOOLEAN : ReceiveRefusedOpen(s, t, dest, mode, last)
    \/ \E mode \in Modes :
          \/ \E last \in BOOLEAN : ReceiveServiceOpen(s, t, mode, last)
          \/ ReceiveControlOpen(s, t, mode)
    \/ ReceiveDisconnect(s, t)
    \/ ReceiveAuthOpen(s, t)
    \/ \E last \in BOOLEAN : ReceiveData(s, t, last)
    \/ ReceiveFin(s, t)
    \/ ReceiveReset(s, t)
    \/ ReceiveStop(s, t)

ClientNext ==
    \E s \in Sessions :
       \/ \E realm \in Realms, binding \in Bindings : AcceptSession(s, realm, binding)
       \/ TransportFails(s)
       \/ CloseSession(s)
       \/ \E t \in Streams : StreamNext(s, t)

AdmissionNext ==
    \E s \in Sessions :
       AdmissionLapses(s) \/ ExpireAdmission(s) \/ RefreshOnline(s) \/ Kick(s)

BackendNext ==
    \/ \E h \in Handles :
          \/ \E kind \in {"data", "fin"} : BackendResponds(h, kind)
          \/ BackendResets(h)
          \/ BackendStops(h)
    \/ \E k \in Conns : ConnectionLost(k) \/ Reconnect(k)

(* the rest of a callback that has begun *)
CallbackNext ==
    \/ PublishEvent
    \/ \E h \in Handles : Purge(h) \/ FailEntry(h) \/ Expire(h)
    \/ RemoveSession
    \/ DrainControl \/ DrainAuth \/ DrainRoute \/ DrainOrphan
    \/ \E k \in Conns : ReportFailure(k)
    \/ DrainDone \/ FailDone \/ ExpireDone

Next == ClientNext \/ AdmissionNext \/ BackendNext \/ StartPoll \/ CallbackNext \/ Tick

Spec == Init /\ [][Next]_vars

(* A callback runs to its end; the poll timer fires again and again and    *)
(* time passes, however busy the event loop is with other callbacks.       *)
Fairness == WF_vars(CallbackNext) /\ SF_vars(StartPoll) /\ SF_vars(Tick)

FairSpec == Spec /\ Fairness

-------------------------------------------------------------------------------
Waits(s, t) == {h \in Handles : Targets(routes[h], s, t) \/ Targets(auths[h], s, t)}

(* Nothing outlives its session: an entry that names a client session      *)
(* names a registered one, of the entry's realm (closeClientSession purges *)
(* before removeSession, although the slot is given to the next client).   *)
EntriesNameLiveSessions ==
    \A h \in Handles :
       /\ routes[h].target = "client" =>
             /\ session[routes[h].session].status # "absent"
             /\ session[routes[h].session].realm = routes[h].realm
       /\ auths[h].target = "client" =>
             /\ session[auths[h].session].status # "absent"
             /\ session[auths[h].session].realm = auths[h].realm

(* At most one backend stream answers a client stream, whatever OPENs the  *)
(* client repeats ("two backend streams behind one client stream could not *)
(* be told apart", dispatchFrame).                                         *)
OneResponder ==
    \A s \in Sessions, t \in Streams : \A g, h \in Waits(s, t) : g = h

(* An exchange that still holds a backend stream is the only one that does *)
(* and has not sent its FIN: no path (last DATA, FIN, RESET, close of the  *)
(* session) ends one request twice.                                        *)
RequestsEndOnce ==
    \A c \in Cells :
       LET h == exchanges[c].backend IN
       h # Nil /\ phase.who # c[1] =>
                  /\ request[h] # "fin"
                  /\ \A d \in Cells \ {c} : exchanges[d].backend # h
                  /\ routes[h].target = "client" => CellOf(routes[h]) = c

(* A response ends once: no data, reply or second FIN is written to a      *)
(* client stream after a FIN (the WSS binding would put it on the wire).   *)
(* Two things are not excluded.  A RESET may follow a FIN, as the answer   *)
(* to a STOP.  And records may follow a RESET: after a STOP, the empty     *)
(* response of a mode "none" exchange, an error, or the response of an     *)
(* OPEN that comes after the STOP is still written on WSS, although        *)
(* handleSessionControl means to write no more to a stream the client has  *)
(* refused.                                                                *)
AnsweredOnce == \A c \in Cells : output[c] # "twice"

(* A request that wants a response is never forgotten: on an open session  *)
(* its response has ended, by FIN or by RESET, or an entry of the tables   *)
(* still stands for it.                                                    *)
(* Timeouts, lost connections, RESET, STOP, refusals and late DATA all go  *)
(* through this.                                                           *)
NoForgottenRequest ==
    \A s \in Sessions, t \in Streams :
       /\ session[s].status = "open"
       /\ input[<<s, t>>].asked = "required"
       => output[<<s, t>>] # "open" \/ Waits(s, t) # {}

(* What has been announced of a connection is what holds: admitted means   *)
(* online under its dest_id, anything else (expired, kicked, never         *)
(* admitted, being closed) means not online.  Between two callbacks, and   *)
(* unless the last event of the session was dropped: lifecycle.publish     *)
(* does not try again, the next event or lease refresh makes up for it.    *)
PresenceMatchesAdmission ==
    outbox = <<>> =>
       \A s \in Sessions : ~announced[s].missed =>
          IF session[s].authenticated /\ phase.who # s
          THEN announced[s].kind = "online" /\ announced[s].dest_id = session[s].dest_id
          ELSE announced[s].kind # "online"

(* An offline event that follows an online event names the same identity   *)
(* (revokeAdmission publishes before it clears dest_id), when no event of  *)
(* the session was dropped between the two.                                *)
OfflineNamesTheIdentity ==
    [][\A s \in Sessions :
          /\ announced[s].kind = "online" /\ ~announced[s].missed
          /\ announced'[s].kind = "offline"
          => announced'[s].dest_id = announced[s].dest_id]_vars

(* Under the fairness of the event loop, every request that wants a        *)
(* response gets the end of one, or its session ends.                      *)
RequiredAnswered ==
    \A s \in Sessions, t \in Streams :
       (session[s].status = "open" /\ input[<<s, t>>].asked = "required")
          ~> (output[<<s, t>>] # "open" \/ session[s].status # "open")

(* No entry stays in the tables for ever, discarded ones included: the     *)
(* capacity and the quota they take come back.                             *)
EntriesLeave ==
    \A h \in Handles : /\ h \in Routed ~> h \notin Routed
                       /\ h \in Authing ~> h \notin Authing

-------------------------------------------------------------------------------
(* What the comments of the code say and the code does not do.             *)

(* egress.kickOne: a kicked connection "can do nothing any more", even     *)
(* while its close is under way.                                           *)
KickedStaysOut == \A s \in Sessions : session[s].kicked => ~session[s].authenticated

(* appendToExchange: when the route of an exchange is gone, the backend    *)
(* stream has been reset already (so there is nothing to finish).          *)
OrphanRequestsEnded ==
    \A h \in Handles :
       request[h] = "open" => \E c \in Cells : exchanges[c].backend = h
===============================================================================
