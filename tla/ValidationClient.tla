--------------------------- MODULE ValidationClient --------------------------
(***************************************************************************)
(* WssValidationClient of validation/wss-smoke.mjs, the client the         *)
(* validation scripts share: a TLS socket whose bytes come in chunks of    *)
(* any size, the WebSocket frames cut out of them, and the exchanges and   *)
(* waits for a push that are open on it.                                   *)
(*                                                                         *)
(* A data event handles every frame that is complete before anything else  *)
(* runs: while draining holds, only drainWebSocket takes a step.  An error *)
(* thrown there is caught by nobody and ends the process (crashed).  A     *)
(* WebSocket frame, and the HTTP answer before the first, is two cells of  *)
(* the byte stream, so that a chunk can end inside it.                     *)
(*                                                                         *)
(* External: the socket, its timers and the gateway.                       *)
(***************************************************************************)
EXTENDS LyuneFrames, FiniteSets, SequencesExt

CONSTANTS
    MaxExchanges,  \* bound: exchanges of a client
    MaxPushes,     \* bound: streams the gateway opens
    Waiters,       \* calls of waitForPush
    Answers,       \* what one record of a response may carry
    Events,        \* what one record of a push may carry
    MaxFrames      \* bound: WebSocket frames the gateway sends to a client

ASSUME ValidationClientAssumption ==
    /\ MaxExchanges \in Nat /\ MaxPushes \in Nat /\ MaxFrames \in Nat
    /\ Answers \subseteq Seq(Piece) /\ Events \subseteq Seq(Piece)

ClientStreams == {4 * n : n \in 0 .. MaxExchanges - 1}
PushStreams   == {4 * n + 1 : n \in 0 .. MaxPushes - 1}

VARIABLES
    socket,     \* none, connecting, open, ending (end was called),
                \* destroyed, or closed (the close event has been handled)
    opening,    \* the promise of connect, and whether its timer is armed
    wire,       \* cells on their way
    input,      \* cells received
    draining,   \* a data event is being handled
    crashed,    \* an error nobody caught has ended the process
    nextStream, \* nextStreamID
    pending,    \* keys of the map pending
    timers,     \* exchanges whose timer is armed
    chunks,     \* what each of them has received
    call,       \* the promise an exchange was begun for
    pushes,     \* the map pushes; no entry is an empty one
    events,     \* the events received
    waiting,    \* the promise of each waitForPush, and what it waits for
    closing,    \* the promise of waitForClose
    sent,       \* history: the frames the gateway sent
    handled     \* history: the frames that drainWebSocket took from input

exchangeVars == <<nextStream, pending, timers, chunks, call>>
pushVars     == <<pushes, events, waiting>>
socketVars   == <<socket, opening, closing>>
clientVars   == <<socketVars, wire, input, draining, crashed, exchangeVars, pushVars, sent, handled>>

NoWait == [state |-> "none", for |-> "any"]

(* a client that has been constructed *)
NewClient ==
    [opening |-> [state |-> "none", timer |-> FALSE],
     chunks  |-> [c \in ClientStreams |-> <<>>],
     call    |-> [c \in ClientStreams |-> [op |-> "none", state |-> "none"]],
     pushes  |-> [p \in PushStreams |-> <<>>],
     waiting |-> [w \in Waiters |-> NoWait]]

ClientInit ==
    /\ socket = "none" /\ opening = NewClient.opening /\ closing = "none"
    /\ wire = <<>> /\ input = <<>> /\ draining = FALSE /\ crashed = FALSE
    /\ nextStream = 0 /\ pending = {} /\ timers = {}
    /\ chunks = NewClient.chunks /\ call = NewClient.call
    /\ pushes = NewClient.pushes /\ events = <<>> /\ waiting = NewClient.waiting
    /\ sent = <<>> /\ handled = <<>>

(* the process runs, and no callback is being handled *)
Idle == ~crashed /\ ~draining

(***************************************************************************)
(* The calls                                                               *)
(***************************************************************************)
(* connect, of a client just constructed *)
connect ==
    /\ socket' = "connecting" /\ closing' = "none"
    /\ opening' = [state |-> "waiting", timer |-> TRUE]
    /\ wire' = <<>> /\ input' = <<>>
    /\ nextStream' = 0 /\ pending' = {} /\ timers' = {}
    /\ chunks' = NewClient.chunks /\ call' = NewClient.call
    /\ pushes' = NewClient.pushes /\ events' = <<>> /\ waiting' = NewClient.waiting
    /\ sent' = <<>> /\ handled' = <<>>
    /\ UNCHANGED <<draining, crashed>>

(* write: on a socket that was ended it is an error that destroys it *)
Written == IF socket = "ending" THEN "destroyed" ELSE socket

(* exchange: beginExchange, then the whole request.  On a destroyed socket *)
(* it is begun all the same, and only its timer ends it.                   *)
Mut_NoTimer == timers
Armed == timers \cup {nextStream}

exchange(op) ==
    /\ nextStream \in ClientStreams
    /\ nextStream' = nextStream + 4
    /\ pending' = pending \cup {nextStream}
    /\ timers' = Armed
    /\ call' = [call EXCEPT ![nextStream] = [op |-> op, state |-> "waiting"]]
    /\ socket' = Written
    /\ UNCHANGED <<opening, closing, wire, input, draining, crashed, chunks, pushVars, sent, handled>>

(* an event that is already there is taken at once.  The route of its      *)
(* frame stands for what the predicate looks at.                           *)
Mut_OnlyLater(kind) == FALSE
Existing(kind) == \E i \in DOMAIN events : events[i].route = kind

waitForPush(w, kind) ==
    /\ waiting[w].state = "none"
    /\ waiting' = [waiting EXCEPT ![w] =
                     [state |-> IF Existing(kind) THEN "ok" ELSE "waiting", for |-> kind]]
    /\ UNCHANGED <<socketVars, wire, input, draining, crashed, exchangeVars, pushes, events,
                   sent, handled>>

waitForClose ==
    /\ closing' = IF socket \in {"destroyed", "closed"} THEN "ok" ELSE "waiting"
    /\ UNCHANGED <<socket, opening, wire, input, draining, crashed, exchangeVars, pushVars,
                   sent, handled>>

close ==
    /\ socket' = IF socket \in {"connecting", "open"} THEN "ending" ELSE socket
    /\ UNCHANGED <<opening, closing, wire, input, draining, crashed, exchangeVars, pushVars,
                   sent, handled>>

(***************************************************************************)
(* Timers, and the close event                                             *)
(***************************************************************************)
(* the promise of exchange c, settled unless it is already *)
SettledAs(c, state) == IF call[c].state = "waiting" THEN [call[c] EXCEPT !.state = state] ELSE call[c]

connectTimeout ==
    /\ opening.timer
    /\ socket' = "destroyed"
    /\ opening' = [state |-> IF opening.state = "waiting" THEN "failed" ELSE opening.state,
                   timer |-> FALSE]
    /\ UNCHANGED <<closing, wire, input, draining, crashed, exchangeVars, pushVars, sent, handled>>

exchangeTimeout(c) ==
    /\ c \in timers
    /\ timers' = timers \ {c} /\ pending' = pending \ {c}
    /\ chunks' = [chunks EXCEPT ![c] = <<>>]
    /\ call' = [call EXCEPT ![c] = SettledAs(c, "failed")]
    /\ UNCHANGED <<socketVars, wire, input, draining, crashed, nextStream, pushVars, sent, handled>>

pushTimeout(w) ==
    /\ waiting[w].state = "waiting"
    /\ waiting' = [waiting EXCEPT ![w].state = "failed"]
    /\ UNCHANGED <<socketVars, wire, input, draining, crashed, exchangeVars, pushes, events,
                   sent, handled>>

closeTimeout ==
    /\ closing = "waiting"
    /\ closing' = "failed"
    /\ UNCHANGED <<socket, opening, wire, input, draining, crashed, exchangeVars, pushVars,
                   sent, handled>>

(* the close event, after an error or an end of either side: everybody who *)
(* waits is told; the timers of exchanges stay armed                       *)
onClose ==
    /\ socket \in {"connecting", "open", "ending", "destroyed"}
    /\ socket' = "closed"
    /\ opening' = [state |-> IF opening.state = "waiting" THEN "failed" ELSE opening.state,
                   timer |-> FALSE]
    /\ closing' = IF closing = "waiting" THEN "ok" ELSE closing
    /\ pending' = {}
    /\ chunks' = NewClient.chunks
    /\ call' = [c \in ClientStreams |-> IF c \in pending THEN SettledAs(c, "failed") ELSE call[c]]
    /\ waiting' = [w \in Waiters |-> IF waiting[w].state = "waiting"
                                     THEN [waiting[w] EXCEPT !.state = "failed"] ELSE waiting[w]]
    /\ wire' = <<>>
    /\ UNCHANGED <<input, draining, crashed, nextStream, timers, pushes, events, sent, handled>>

(***************************************************************************)
(* Data                                                                    *)
(***************************************************************************)
Cells(f) == <<[frame |-> f, part |-> 1], [frame |-> f, part |-> 2]>>

(* a complete frame is at the front *)
Mut_HeaderIsEnough(cells) == Len(cells) >= 1
HasFrame(cells) == Len(cells) >= 2

(* a data event brings the first n cells of the wire *)
onData(n) ==
    /\ socket \in {"connecting", "open", "ending"}
    /\ n \in DOMAIN wire
    /\ input' = input \o SubSeq(wire, 1, n)
    /\ wire' = SubSeq(wire, n + 1, Len(wire))
    /\ draining' = HasFrame(input')
    /\ UNCHANGED <<socketVars, crashed, exchangeVars, pushVars, sent, handled>>

Thrown == crashed' = TRUE /\ UNCHANGED <<socketVars, exchangeVars, pushVars>>

(* the HTTP answer: the upgrade is accepted, or the socket is destroyed *)
upgrade(accepted) ==
    /\ socket' = IF accepted THEN (IF socket = "connecting" THEN "open" ELSE socket) ELSE "destroyed"
    /\ opening' = IF accepted THEN [state |-> "ok", timer |-> FALSE]
                  ELSE [opening EXCEPT !.state = "failed"]
    /\ UNCHANGED <<closing, crashed, exchangeVars, pushVars>>

(* what authenticate and command make of the one frame of an answer *)
Accepts(op, f) ==
    IF op = "auth" THEN f.dest = "gateway" /\ f.route = "grant" /\ f.body = "good"
    ELSE f.dest = "service" /\ f.body = "good"

(* exchange c leaves pending and its promise is settled, by the event that *)
(* is being handled                                                        *)
Settle(c, state) ==
    /\ pending' = pending \ {c} /\ timers' = timers \ {c}
    /\ chunks' = [chunks EXCEPT ![c] = <<>>]
    /\ call' = [call EXCEPT ![c].state = state]
    /\ UNCHANGED <<socketVars, crashed, nextStream, pushVars>>

(* decodeFrame does not throw *)
OneOpenFrame(bytes) ==
    Decodable(bytes) /\ Len(decodeFrames(bytes)) = 1 /\ decodeFrames(bytes)[1].type = "open"

handleResponse(r) ==
    LET bytes == chunks[r.id] \o r.payload
        op    == call[r.id].op
    IN  \/ /\ ~r.fin
           /\ chunks' = [chunks EXCEPT ![r.id] = bytes]
           /\ UNCHANGED <<socketVars, crashed, nextStream, pending, timers, call, pushVars>>
        \/ /\ r.fin /\ op = "typing"
           /\ Settle(r.id, IF bytes = <<>> THEN "ok" ELSE "failed")
        \/ /\ r.fin /\ op = "raw"
           /\ Settle(r.id, "ok")
        \/ /\ r.fin /\ op \in {"auth", "command"} /\ OneOpenFrame(bytes)
           /\ Settle(r.id, IF Accepts(op, decodeFrames(bytes)[1]) THEN "ok" ELSE "failed")
        \/ /\ r.fin /\ op \in {"auth", "command"} /\ ~OneOpenFrame(bytes)
           /\ Thrown

ValidPush(bytes) ==
    /\ OneOpenFrame(bytes)
    /\ LET f == decodeFrames(bytes)[1] IN f.dest = "peer" /\ f.eof /\ f.body = "good"

(* a push is kept, given to those who wait for one like it, and answered *)
handlePush(r) ==
    LET bytes == pushes[r.id] \o r.payload
        event == decodeFrames(bytes)[1]
    IN  \/ /\ ~r.fin
           /\ pushes' = [pushes EXCEPT ![r.id] = bytes]
           /\ UNCHANGED <<socketVars, crashed, exchangeVars, events, waiting>>
        \/ /\ r.fin /\ ValidPush(bytes)
           /\ pushes' = [pushes EXCEPT ![r.id] = <<>>]
           /\ events' = Append(events, event)
           /\ waiting' = [w \in Waiters |->
                            IF waiting[w].state = "waiting" /\ waiting[w].for = event.route
                            THEN [waiting[w] EXCEPT !.state = "ok"] ELSE waiting[w]]
           /\ socket' = Written
           /\ UNCHANGED <<opening, closing, crashed, exchangeVars>>
        \/ /\ r.fin /\ ~ValidPush(bytes)
           /\ Thrown

Ignored == UNCHANGED <<socketVars, crashed, exchangeVars, pushVars>>

handleEnvelope(r) ==
    \/ r.id \notin pending /\ r.type = "stream" /\ r.id \in PushStreams /\ handlePush(r)
    \/ r.id \notin pending /\ ~(r.type = "stream" /\ r.id \in PushStreams) /\ Ignored
    \/ r.id \in pending /\ r.type = "abort" /\ Settle(r.id, "failed")
    \/ r.id \in pending /\ r.type = "other" /\ Ignored
    \/ r.id \in pending /\ r.type = "stream" /\ handleResponse(r)

(* One frame; the loop goes on while another is complete.  A refused       *)
(* upgrade, and an error, leave the rest in input.                         *)
drainWebSocket ==
    LET f    == input[1].frame
        rest == SubSeq(input, 3, Len(input))
    IN  /\ ~crashed /\ draining
        /\ input' = rest
        /\ handled' = Append(handled, f)
        /\ \/ f.kind = "accept" /\ upgrade(TRUE)
           \/ f.kind = "refuse" /\ upgrade(FALSE)
           \/ /\ f.kind = "close"
              /\ socket' = IF socket = "open" THEN "ending" ELSE socket
              /\ UNCHANGED <<opening, closing, crashed, exchangeVars, pushVars>>
           \/ f.kind = "ping" /\ Ignored
           \/ f.kind = "bad" /\ Thrown
           \/ f.kind = "record" /\ handleEnvelope(f)
        /\ draining' = (HasFrame(rest) /\ f.kind # "refuse")
        /\ UNCHANGED <<wire, sent>>

(***************************************************************************)
(* The gateway (external)                                                  *)
(***************************************************************************)
FrameOf(kind) == [kind |-> kind, type |-> "other", id |-> 2, payload |-> <<>>, fin |-> FALSE]
RecordOf(type, id, payload, fin) ==
    [kind |-> "record", type |-> type, id |-> id, payload |-> payload, fin |-> fin]

GatewaySends(f) ==
    /\ socket \in {"connecting", "open", "ending"}
    /\ Len(sent) < MaxFrames
    /\ (f.kind \in {"accept", "refuse"}) = (sent = <<>>)
    /\ \A i \in DOMAIN sent : sent[i].kind \notin {"refuse", "close"}
    /\ sent' = Append(sent, f)
    /\ wire' = wire \o Cells(f)
    /\ UNCHANGED <<socketVars, input, draining, crashed, exchangeVars, pushVars, handled>>

(* anything a gateway might send, whole, split or broken *)
AnyGateway ==
    \/ \E kind \in {"accept", "refuse", "close", "ping", "bad"} : GatewaySends(FrameOf(kind))
    \/ \E id \in {c \in ClientStreams : c < nextStream}, fin \in BOOLEAN, payload \in Answers :
           GatewaySends(RecordOf("stream", id, payload, fin))
    \/ \E id \in PushStreams, fin \in BOOLEAN, payload \in Events :
           GatewaySends(RecordOf("stream", id, payload, fin))
    \/ \E id \in {c \in ClientStreams : c < nextStream}, type \in {"abort", "other"} :
           GatewaySends(RecordOf(type, id, <<>>, FALSE))

(* what happens to a client by itself *)
ClientEvent ==
    \/ connectTimeout
    \/ \E c \in ClientStreams : exchangeTimeout(c)
    \/ \E w \in Waiters : pushTimeout(w)
    \/ closeTimeout
    \/ onClose
    \/ \E n \in DOMAIN wire : onData(n)

(***************************************************************************)
(* Properties                                                              *)
(***************************************************************************)
ClientTypeOK ==
    /\ socket \in {"none", "connecting", "open", "ending", "destroyed", "closed"}
    /\ opening \in [state : {"none", "waiting", "ok", "failed"}, timer : BOOLEAN]
    /\ closing \in {"none", "waiting", "ok", "failed"}
    /\ draining \in BOOLEAN /\ crashed \in BOOLEAN
    /\ pending \subseteq ClientStreams /\ timers \subseteq ClientStreams
    /\ \A c \in ClientStreams : call[c].state \in {"none", "waiting", "ok", "failed"}

(* the cells of a sequence of frames *)
CellsOf(frames) == [k \in 1 .. 2 * Len(frames) |-> Cells(frames[(k + 1) \div 2])[2 - (k % 2)]]

(* The frames the client handles are those the gateway sent, in order,     *)
(* however the bytes were cut into chunks and with the first of them       *)
(* behind the HTTP answer; and while the socket lives none is lost.        *)
Reassembled ==
    /\ IsPrefix(handled, sent)
    /\ socket \in {"connecting", "open", "ending"} =>
           CellsOf(handled) \o input \o wire = CellsOf(sent)

(* Nobody waits for a push that has come: neither one that was there when  *)
(* waitForPush was called nor one that came later.                         *)
NoPushMissed ==
    \A w \in Waiters :
        waiting[w].state = "waiting" =>
            \A i \in DOMAIN events : events[i].route # waiting[w].for

===============================================================================
