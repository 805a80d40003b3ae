----------------------------- MODULE WssSession ------------------------------
(***************************************************************************)
(* WssImSession of validation/web-client/src/wss_session.ts: one WebSocket *)
(* of the browser, the exchanges that wait on it, and the pushes that come *)
(* in.  JavaScript runs one callback to its end (with the continuations of *)
(* the promises it settles) before the next, so a callback is one action.  *)
(*                                                                         *)
(* External: the WebSocket (readyState; messages in order, and none once   *)
(* readyState has left OPEN; close throws on a code other than 1000 and    *)
(* 3000 to 4999 before it does anything), the timers, and the gateway at   *)
(* the far end, which may send any record, malformed ones included.        *)
(***************************************************************************)
EXTENDS LyuneFrames, FiniteSets

CONSTANTS
    MaxExchanges,  \* bound: exchanges of the session
    MaxPushes,     \* bound: streams the gateway opens
    Answers,       \* what one record of a response may carry
    Events,        \* what one record of a push may carry
    MaxRecords,    \* bound: records the gateway sends
    MaxInbox       \* bound: records on their way at a time

ASSUME WssSessionAssumption ==
    /\ MaxExchanges \in Nat /\ MaxPushes \in Nat
    /\ MaxRecords \in Nat /\ MaxInbox \in Nat
    /\ Answers \subseteq Seq(Piece) /\ Events \subseteq Seq(Piece)

(* the two low bits of a stream id: client-initiated 0, gateway-initiated 1 *)
ClientStreams == {4 * n : n \in 0 .. MaxExchanges - 1}
PushStreams   == {4 * n + 1 : n \in 0 .. MaxPushes - 1}
Streams       == ClientStreams \cup PushStreams

NoFrame == [type |-> "none"]

VARIABLES
    socket,        \* readyState
    opening,       \* the promise of connect, and whether its timer is armed
    nextStream,    \* nextClientStreamID
    pending,       \* keys of the map pending
    timers,        \* exchanges whose timer is armed
    chunks,        \* what each of them has received
    call,          \* the promise an exchange was begun for
    authenticated, \* status.authenticated, and token is set
    status,        \* connected, connection_closed_by, calls of onClose so far
    pushes,        \* the map pushes; no entry is an empty one
    pushSequence,
    handlers,      \* onPush and onClose are set
    seen,          \* history: events given to onPush
    inbox,         \* records on their way to the browser
    sent,          \* history: what the gateway sent on each stream
    ended,         \* history: the streams it has ended
    done,          \* history: the valid pushes among them, in order
    records        \* number of records it has sent

exchangeVars == <<nextStream, pending, timers, chunks>>
callVars    == <<nextStream, pending, timers, chunks, call, authenticated>>
pushVars    == <<pushes, pushSequence, seen>>
gatewayVars == <<sent, ended, done, records>>
vars == <<socket, opening, callVars, status, pushVars, handlers, inbox, gatewayVars>>

Call == [op     : {"none", "auth", "command", "typing"},
         state  : {"none", "waiting", "ok", "failed"},
         answer : Frame \cup {NoFrame}]

Record == [type    : {"stream", "reset", "stop", "ephemeral", "bad"},
           id      : Nat,
           payload : Seq(Piece),
           fin     : BOOLEAN]

Init ==
    /\ socket = "none"
    /\ opening = [state |-> "none", timer |-> FALSE]
    /\ nextStream = 0 /\ pending = {} /\ timers = {}
    /\ chunks = [c \in ClientStreams |-> <<>>]
    /\ call = [c \in ClientStreams |-> [op |-> "none", state |-> "none", answer |-> NoFrame]]
    /\ authenticated = FALSE
    /\ status = [connected |-> FALSE, closedBy |-> "nobody", told |-> 0]
    /\ pushes = [p \in PushStreams |-> <<>>] /\ pushSequence = 0 /\ seen = <<>>
    /\ handlers = FALSE
    /\ inbox = <<>>
    /\ sent = [s \in Streams |-> <<>>] /\ ended = {} /\ done = <<>> /\ records = 0

(***************************************************************************)
(* connect                                                                 *)
(***************************************************************************)
connectVars == <<callVars, pushVars, handlers, inbox, gatewayVars>>  \* left alone below

connect ==
    /\ opening.state = "none"
    /\ socket' = "connecting"
    /\ opening' = [state |-> "waiting", timer |-> TRUE]
    /\ UNCHANGED <<status, connectVars>>

Mut_CloseOnly ==
    /\ opening.timer
    /\ socket' = "closing"
    /\ opening' = [state |-> "waiting", timer |-> FALSE]
    /\ UNCHANGED <<status, connectVars>>
connectTimeout ==
    /\ opening.timer
    /\ socket' = "closing"
    /\ opening' = [state |-> "rejected", timer |-> FALSE]
    /\ UNCHANGED <<status, connectVars>>

(* The open event.  Without the subprotocol no session is made, and the    *)
(* promise is left waiting with its timer cleared ("unconfirmed"): close   *)
(* throws on the code 1002, before the reject and with the socket open.    *)
onOpen(protocol) ==
    LET agreed == protocol = "lyune.v2"
    IN  /\ socket = "connecting"
        /\ socket' = "open"
        /\ opening' = [state |-> IF agreed THEN "resolved" ELSE "unconfirmed", timer |-> FALSE]
        /\ status' = [connected |-> agreed, closedBy |-> "nobody", told |-> 0]
        /\ UNCHANGED connectVars

(* the error event, of which the promise hears as long as it waits *)
onConnectError ==
    /\ \/ socket = "connecting"
       \/ socket = "open" /\ opening.state = "unconfirmed"
    /\ socket' = "closed"
    /\ opening' = [state |-> "rejected", timer |-> FALSE]
    /\ UNCHANGED <<status, connectVars>>

(***************************************************************************)
(* Closing                                                                 *)
(***************************************************************************)
(* call, with the exchanges in failing rejected *)
Rejected(failing) ==
    [c \in ClientStreams |-> IF c \in failing THEN [call[c] EXCEPT !.state = "failed"] ELSE call[c]]

Mut_CloseAgain == FALSE
AlreadyClosed == ~status.connected

handleClose(reason) ==
    \/ /\ AlreadyClosed
       /\ UNCHANGED <<status, pending, timers, chunks, call, pushes>>
    \/ /\ ~AlreadyClosed
       /\ status' = [connected |-> FALSE, closedBy |-> reason,
                     told |-> IF handlers THEN status.told + 1 ELSE status.told]
       /\ pending' = {} /\ timers' = timers \ pending
       /\ chunks' = [c \in ClientStreams |-> <<>>]
       /\ call' = Rejected(pending)
       /\ pushes' = [p \in PushStreams |-> <<>>]

closeVars == <<nextStream, authenticated, pushSequence, seen>>  \* left alone by a close

(* close, called by the page *)
close ==
    /\ opening.state = "resolved"
    /\ socket' = IF socket = "open" THEN "closing" ELSE socket
    /\ handleClose("user")
    /\ UNCHANGED <<opening, closeVars, handlers, inbox, gatewayVars>>

(* the close event, with or without an error event before it *)
onClose ==
    /\ socket \in {"open", "closing"}
    /\ socket' = "closed"
    /\ inbox' = <<>>
    /\ handleClose("peer")
    /\ UNCHANGED <<opening, closeVars, handlers, gatewayVars>>

(* The catch block of handleMessage: close(1002, ...) throws, so           *)
(* handleClose is not reached, the socket stays open and the session goes  *)
(* on.  What was done before the error stays done.                         *)
protocolError ==
    UNCHANGED <<socket, status, call, authenticated, pushSequence, seen>>

(***************************************************************************)
(* Exchanges.  authenticate and command throw before exchange when there   *)
(* is no token, and exchange rejects when the socket is not open: then     *)
(* nothing changes.                                                        *)
(***************************************************************************)
exchange(op) ==
    /\ opening.state = "resolved" /\ socket = "open"
    /\ op # "auth" => authenticated
    /\ nextStream \in ClientStreams
    /\ nextStream' = nextStream + 4
    /\ pending' = pending \cup {nextStream}
    /\ timers' = timers \cup {nextStream}
    /\ call' = [call EXCEPT ![nextStream] = [op |-> op, state |-> "waiting", answer |-> NoFrame]]
    /\ UNCHANGED <<socket, opening, chunks, authenticated, status, pushVars, handlers, inbox,
                   gatewayVars>>

(* the exchanges in gone leave pending, and their timers are cleared *)
Mut_KeepTimers(gone) ==
    /\ pending' = pending \ gone
    /\ chunks' = [c \in ClientStreams |-> IF c \in gone THEN <<>> ELSE chunks[c]]
    /\ UNCHANGED <<nextStream, timers>>
Leave(gone) ==
    /\ pending' = pending \ gone
    /\ timers' = timers \ gone
    /\ chunks' = [c \in ClientStreams |-> IF c \in gone THEN <<>> ELSE chunks[c]]
    /\ UNCHANGED nextStream

exchangeTimeout(c) ==
    /\ c \in timers
    /\ Leave({c})
    /\ call' = Rejected({c})
    /\ UNCHANGED <<socket, opening, authenticated, status, pushVars, handlers, inbox, gatewayVars>>

(* what authenticate and command make of the one frame of an answer *)
authAccepts(f) ==
    f.type = "open" /\ f.dest = "gateway" /\ f.route = "grant" /\ f.body = "good"
commandAccepts(f) ==
    f.type = "open" /\ f.dest = "service" /\ f.eof /\ f.body = "good"
Accepts(op, f) == IF op = "auth" THEN authAccepts(f) ELSE commandAccepts(f)

(***************************************************************************)
(* Messages                                                                *)
(***************************************************************************)
(* The bytes of exchange c are complete: it leaves pending, and only then  *)
(* are they decoded.  The promise settles with what authenticate or        *)
(* command make of the answer.                                             *)
Settle(c, state, answer) ==
    /\ Leave({c})
    /\ call' = [call EXCEPT ![c] = [op |-> call[c].op, state |-> state, answer |-> answer]]
    /\ authenticated' = (authenticated \/ (call[c].op = "auth" /\ state = "ok"))
    /\ UNCHANGED <<socket, status, pushVars>>

finishResponse(c, bytes) ==
    LET frames == decodeFrames(bytes)
    IN  \/ /\ call[c].op = "typing"
           /\ Settle(c, IF bytes = <<>> THEN "ok" ELSE "failed", NoFrame)
        \/ /\ call[c].op # "typing" /\ ~Decodable(bytes)
           /\ Leave({c}) /\ protocolError /\ UNCHANGED pushes
        \/ /\ call[c].op # "typing" /\ Decodable(bytes) /\ Len(frames) # 1
           /\ Settle(c, "failed", NoFrame)
        \/ /\ call[c].op # "typing" /\ Decodable(bytes) /\ Len(frames) = 1
           /\ Settle(c, IF Accepts(call[c].op, frames[1]) THEN "ok" ELSE "failed", frames[1])

(* what the exchange has received, this record included *)
Mut_LastRecord(r) == r.payload
Received(r) == chunks[r.id] \o r.payload

handleResponse(r) ==
    \/ /\ r.id \notin pending
       /\ UNCHANGED <<socket, callVars, status, pushVars>>
    \/ /\ r.id \in pending /\ ~r.fin
       /\ chunks' = [chunks EXCEPT ![r.id] = Received(r)]
       /\ UNCHANGED <<socket, nextStream, pending, timers, call, authenticated, status, pushVars>>
    \/ /\ r.id \in pending /\ r.fin
       /\ finishResponse(r.id, Received(r))

(* a complete push must be one OPEN frame to a peer, with EOF and a body   *)
(* that parses                                                             *)
ValidPush(bytes) ==
    /\ Decodable(bytes)
    /\ Len(decodeFrames(bytes)) = 1
    /\ LET f == decodeFrames(bytes)[1]
       IN  f.type = "open" /\ f.dest = "peer" /\ f.eof /\ f.body = "good"

(* pushes are numbered whether or not the page listens *)
Mut_CountHeard == IF handlers THEN pushSequence + 1 ELSE pushSequence
NextPush == pushSequence + 1

(* a push that was handled is answered by an empty FIN, on which nothing   *)
(* here depends                                                            *)
handlePush(r) ==
    LET bytes == pushes[r.id] \o r.payload
        event == [seq |-> NextPush, push |-> r.id, frame |-> decodeFrames(bytes)[1]]
    IN  \/ /\ ~r.fin
           /\ pushes' = [pushes EXCEPT ![r.id] = bytes]
           /\ UNCHANGED <<socket, callVars, status, pushSequence, seen>>
        \/ /\ r.fin /\ ValidPush(bytes)
           /\ pushes' = [pushes EXCEPT ![r.id] = <<>>]
           /\ pushSequence' = NextPush
           /\ seen' = IF handlers THEN Append(seen, event) ELSE seen
           /\ UNCHANGED <<socket, callVars, status>>
        \/ /\ r.fin /\ ~ValidPush(bytes)
           /\ pushes' = [pushes EXCEPT ![r.id] = <<>>]
           /\ protocolError /\ UNCHANGED exchangeVars

(* RESET or STOP: a waiting exchange fails; what a push has received so    *)
(* far is kept.  A STOP is answered by a RESET, on which nothing depends.  *)
handleAbort(r) ==
    /\ Leave({r.id} \cap pending)
    /\ call' = Rejected({r.id} \cap pending)
    /\ UNCHANGED <<socket, authenticated, status, pushVars>>

handleMessage ==
    /\ opening.state = "resolved" /\ socket = "open"
    /\ inbox # <<>>
    /\ inbox' = Tail(inbox)
    /\ LET r == Head(inbox)
       IN  \/ r.type = "bad" /\ protocolError /\ UNCHANGED <<exchangeVars, pushes>>
           \/ r.type = "ephemeral" /\ UNCHANGED <<socket, callVars, status, pushVars>>
           \/ r.type \in {"reset", "stop"} /\ handleAbort(r)
           \/ r.type = "stream" /\ r.id % 4 = 0 /\ handleResponse(r)
           \/ r.type = "stream" /\ r.id % 4 = 1 /\ handlePush(r)
           \/ /\ r.type = "stream" /\ r.id % 4 > 1
              /\ protocolError /\ UNCHANGED <<exchangeVars, pushes>>
    /\ UNCHANGED <<opening, handlers, gatewayVars>>

(* the subscription effect of the page sets both handlers, its cleanup     *)
(* takes them away                                                         *)
subscribe ==
    /\ opening.state = "resolved"
    /\ handlers' = ~handlers
    /\ UNCHANGED <<socket, opening, callVars, status, pushVars, inbox, gatewayVars>>

(***************************************************************************)
(* The gateway (external)                                                  *)
(***************************************************************************)
Usable == {s \in Streams : s % 4 = 1 \/ s < nextStream}

(* r is on its way; a FIN ends its stream.  A server without the           *)
(* subprotocol is no gateway, and nobody listens to it.                    *)
GatewaySends(r) ==
    /\ opening.state = "resolved" /\ socket = "open"
    /\ records < MaxRecords /\ Len(inbox) < MaxInbox
    /\ records' = records + 1
    /\ inbox' = Append(inbox, r)
    /\ sent' = [s \in Streams |-> IF s = r.id THEN sent[s] \o r.payload ELSE sent[s]]
    /\ ended' = IF r.fin THEN ended \cup {r.id} ELSE ended
    /\ done' = IF r.fin /\ r.id \in PushStreams /\ ValidPush(sent[r.id] \o r.payload)
               THEN Append(done, r.id) ELSE done
    /\ UNCHANGED <<socket, opening, callVars, status, pushVars, handlers>>

(* stream data, an abort, an EPHEMERAL record, a message that is no        *)
(* envelope, or a stream of a direction that does not exist                *)
Gateway ==
    \/ \E s \in Usable \ ended, fin \in BOOLEAN :
           \E payload \in IF s \in PushStreams THEN Events ELSE Answers :
               GatewaySends([type |-> "stream", id |-> s, payload |-> payload, fin |-> fin])
    \/ \E s \in Usable, type \in {"reset", "stop"} :
           GatewaySends([type |-> type, id |-> s, payload |-> <<>>, fin |-> FALSE])
    \/ \E type \in {"ephemeral", "bad", "stream"} :
           GatewaySends([type |-> type, id |-> 2, payload |-> <<>>, fin |-> FALSE])

Next ==
    \/ connect
    \/ connectTimeout
    \/ \E protocol \in {"lyune.v2", ""} : onOpen(protocol)
    \/ onConnectError
    \/ close
    \/ onClose
    \/ \E op \in {"auth", "command", "typing"} : exchange(op)
    \/ \E c \in ClientStreams : exchangeTimeout(c)
    \/ handleMessage
    \/ subscribe
    \/ Gateway

(* timers fire; nothing else is promised *)
Fairness == /\ WF_vars(connectTimeout)
            /\ \A c \in ClientStreams : WF_vars(exchangeTimeout(c))

Spec == Init /\ [][Next]_vars /\ Fairness

(***************************************************************************)
(* Properties                                                              *)
(***************************************************************************)
TypeOK ==
    /\ socket \in {"none", "connecting", "open", "closing", "closed"}
    /\ opening \in [state : {"none", "waiting", "unconfirmed", "resolved", "rejected"},
                    timer : BOOLEAN]
    /\ nextStream \in Nat
    /\ pending \subseteq ClientStreams /\ timers \subseteq ClientStreams
    /\ chunks \in [ClientStreams -> Seq(Piece)]
    /\ call \in [ClientStreams -> Call]
    /\ authenticated \in BOOLEAN
    /\ status \in [connected : BOOLEAN, closedBy : {"nobody", "user", "peer"}, told : Nat]
    /\ pushes \in [PushStreams -> Seq(Piece)] /\ pushSequence \in Nat
    /\ seen \in Seq([seq : Nat, push : PushStreams, frame : Frame])
    /\ handlers \in BOOLEAN
    /\ inbox \in Seq(Record)
    /\ sent \in [Streams -> Seq(Piece)] /\ ended \subseteq Streams
    /\ done \in Seq(PushStreams) /\ records \in Nat

Waiting == {c \in ClientStreams : call[c].state = "waiting"}

(* the exchanges whose answer has ended and does not decode *)
Undecodable ==
    {c \in ClientStreams : call[c].op # "typing" /\ c \in ended /\ ~Decodable(sent[c])}

(* Every caller that waits has an entry in pending with a timer of its own, *)
(* with one exception: handleResponse takes the entry away before it       *)
(* decodes the answer, and an error in between settles nothing, so callers *)
(* whose answer does not decode may wait with neither.  An error loses no  *)
(* other caller, and once the session has ended, by close or the close     *)
(* event, nothing is kept: no entry, no timer, no piece of a push.         *)
CallsAccounted ==
    /\ timers = pending
    /\ pending \subseteq Waiting
    /\ Waiting \ pending \subseteq Undecodable
    /\ (opening.state = "resolved" /\ ~status.connected) =>
           /\ pending = {} /\ socket # "open"
           /\ \A p \in PushStreams : pushes[p] = <<>>

(* A call that got an answer got the bytes the gateway sent on its own     *)
(* stream, all of them and nothing else, whatever came in between on other *)
(* streams, and only after the gateway had ended the stream.               *)
AnswersIntact ==
    \A c \in ClientStreams :
        call[c].answer # NoFrame => sent[c] = Bytes(call[c].answer) /\ c \in ended

(* The events the page is given are numbered by the order in which the     *)
(* gateway ended the valid pushes, each is given once, and it is what was  *)
(* sent, however the records of several pushes were interleaved and        *)
(* whatever invalid ones came in between (those take no number: their      *)
(* error does not end the session).  The page uses the number as its       *)
(* cursor.                                                                 *)
PushesInOrder ==
    \A i \in DOMAIN seen :
        /\ seen[i].seq \in DOMAIN done /\ done[seen[i].seq] = seen[i].push
        /\ sent[seen[i].push] = Bytes(seen[i].frame)
        /\ \A j \in DOMAIN seen : j < i => seen[j].seq < seen[i].seq

(* The first reason a session was closed for stays: the close event that   *)
(* follows a logout neither replaces the reason nor calls onClose again.   *)
FirstReasonStays ==
    [][status.closedBy # "nobody" => UNCHANGED status]_vars

(* No caller waits for ever: connect settles by its open event, an error   *)
(* or its timer, unless it is left unconfirmed (the open event clears the  *)
(* timer and throws before the reject), and an exchange settles by its     *)
(* answer, the close of the session or its timer, unless its answer does   *)
(* not decode.                                                             *)
EveryCallEnds ==
    /\ opening.state = "waiting" ~> opening.state # "waiting"
    /\ \A c \in ClientStreams : c \in Waiting ~> c \notin Waiting \/ c \in Undecodable

===============================================================================
