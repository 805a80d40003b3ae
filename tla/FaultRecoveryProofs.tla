------------------------- MODULE FaultRecoveryProofs -------------------------
(***************************************************************************)
(* Proofs about the validation client and the fault-recovery script, for   *)
(* every number of cycles, exchanges and tokens, and for any content of    *)
(* what the gateway sends.                                                 *)
(***************************************************************************)
EXTENDS FaultRecovery, SequenceTheorems, FiniteSetTheorems, TLAPS

(***************************************************************************)
(* The client.                                                             *)
(***************************************************************************)

(* what the gateway puts on the wire *)
WsFrame == [kind    : {"accept", "refuse", "close", "ping", "bad", "record"},
            type    : {"stream", "abort", "other"},
            id      : ClientStreams \cup PushStreams \cup {2},
            payload : Seq(Piece),
            fin     : BOOLEAN]
Cell    == [frame : WsFrame, part : {1, 2}]

Promise == {"none", "waiting", "ok", "failed"}

ClientTyped ==
    /\ ClientTypeOK
    /\ sent \in Seq(WsFrame) /\ handled \in Seq(WsFrame)
    /\ wire \in Seq(Cell) /\ input \in Seq(Cell)
    /\ draining => Len(input) >= 2
    /\ chunks \in [ClientStreams -> Seq(Piece)]
    /\ call \in [ClientStreams -> [op : {"none", "auth", "command", "typing", "raw"},
                                   state : Promise]]
    /\ pushes \in [PushStreams -> Seq(Piece)]
    /\ events \in Seq(Frame)
    /\ waiting \in [Waiters -> [state : Promise, for : {"any", "other", "error"}]]

(* What any script, the socket and the gateway can do to a client. *)
Callers ==
    \/ Idle /\ connect
    \/ \E op \in {"auth", "command", "typing", "raw"} : exchange(op)
    \/ \E w \in Waiters, kind \in {"other", "error"} : waitForPush(w, kind)
    \/ waitForClose
    \/ close

ClientNext ==
    \/ Callers
    \/ Idle /\ ClientEvent
    \/ drainWebSocket
    \/ \E f \in WsFrame : GatewaySends(f)

LEMMA FramesTyped ==
    /\ \A kind \in {"accept", "refuse", "close", "ping", "bad"} : FrameOf(kind) \in WsFrame
    /\ \A type \in {"stream", "abort", "other"}, id \in ClientStreams \cup PushStreams,
          payload \in Seq(Piece), fin \in BOOLEAN : RecordOf(type, id, payload, fin) \in WsFrame
  <1>1. <<>> \in Seq(Piece)
    OBVIOUS
  <1> QED BY <1>1 DEF FrameOf, RecordOf, WsFrame

LEMMA BytesTyped ==
    ASSUME NEW f \in Frame
    PROVE  Bytes(f) \in Seq(Piece)
  <1>1. HeaderOf(f) \in Piece /\ BodyOf(f) \in Piece
    BY DEF HeaderOf, BodyOf, Piece
  <1> QED BY <1>1 DEF Bytes

(* Every step of the system is one of the client's, or leaves it alone. *)
LEMMA StepsOfClient ==
    ASSUME pending \subseteq ClientStreams, [Next]_vars
    PROVE  [ClientNext]_clientVars
  <1>1. CASE UNCHANGED vars
    BY <1>1 DEF vars
  <1>2. CASE ScriptStep
    <2>1. Idle
      BY <1>2 DEF ScriptStep
    <2>2. CASE connectClient
      BY <2>1, <2>2 DEF connectClient, ClientNext, Callers
    <2>3. CASE asks
      BY <2>3 DEF asks, ask, ClientNext, Callers
    <2>4. CASE stopGateway
      BY <2>4 DEF stopGateway, ClientNext, Callers
    <2>5. CASE finally
      BY <2>5 DEF finally, ClientNext, Callers
    <2>6. CASE \/ startReactor \/ startGateway \/ waitForMarkers \/ connected \/ answered
               \/ firstToken \/ stopReactor \/ stopped \/ escalate \/ gatewayClosed
               \/ checkTokens \/ killChildren
      <3>1. UNCHANGED clientVars
        BY <2>6 DEF startReactor, startGateway, waitForMarkers, waitForMarker, connected, answered,
                    firstToken, stopReactor, stopped, escalate, gatewayClosed, checkTokens,
                    killChildren
      <3> QED BY <3>1
    <2> QED BY <1>2, <2>2, <2>3, <2>4, <2>5, <2>6 DEF ScriptStep
  <1>3. CASE AnyScript
    BY <1>3 DEF AnyScript, ClientNext, Callers
  <1>4. CASE Idle /\ ClientEvent /\ UNCHANGED scriptVars
    BY <1>4 DEF ClientNext
  <1>5. CASE drainWebSocket /\ UNCHANGED scriptVars
    BY <1>5 DEF ClientNext
  <1>6. CASE script = "any" /\ Len(sent) < AnyFrames /\ AnyGateway /\ UNCHANGED scriptVars
    <2>1. PICK f \in WsFrame : GatewaySends(f)
      <3>1. Answers \subseteq Seq(Piece) /\ Events \subseteq Seq(Piece) /\ <<>> \in Seq(Piece)
        BY ValidationClientAssumption
      <3>2. CASE \E kind \in {"accept", "refuse", "close", "ping", "bad"} : GatewaySends(FrameOf(kind))
        BY <3>2, FramesTyped
      <3>3. CASE \E id \in {c \in ClientStreams : c < nextStream}, fin \in BOOLEAN, payload \in Answers :
                     GatewaySends(RecordOf("stream", id, payload, fin))
        BY <3>1, <3>3, FramesTyped
      <3>4. CASE \E id \in PushStreams, fin \in BOOLEAN, payload \in Events :
                     GatewaySends(RecordOf("stream", id, payload, fin))
        BY <3>1, <3>4, FramesTyped
      <3>5. CASE \E id \in {c \in ClientStreams : c < nextStream}, type \in {"abort", "other"} :
                     GatewaySends(RecordOf(type, id, <<>>, FALSE))
        BY <3>1, <3>5, FramesTyped
      <3> QED BY <1>6, <3>2, <3>3, <3>4, <3>5 DEF AnyGateway
    <2> QED BY <2>1 DEF ClientNext
  <1>7. CASE Ready \/ ReactorExits \/ GatewayExits \/ Lifecycle
    BY <1>7 DEF Ready, ReactorExits, GatewayExits, Lifecycle, Others
  <1>8. CASE GatewayAnswers
    <2> DEFINE A1 == Answer("open", "gateway", "grant", "good")
               A2 == Answer("open", "service", "other", "good")
               A3 == Answer("open", "gateway", "error", "refused")
    <2>1. A1 \in Seq(Piece) /\ A2 \in Seq(Piece) /\ A3 \in Seq(Piece)
      BY BytesTyped DEF Answer, Frame
    <2> HIDE DEF A1, A2, A3
    <2>2. \/ GatewaySends(FrameOf("accept"))
          \/ current \in pending /\ \E a \in {A1, A2, A3} : GatewaySends(RecordOf("stream", current, a, TRUE))
      BY <1>8 DEF GatewayAnswers, A1, A2, A3
    <2>3. PICK f \in WsFrame : GatewaySends(f)
      BY <2>1, <2>2, FramesTyped
    <2> QED BY <2>3 DEF ClientNext
  <1> QED
    BY <1>1, <1>2, <1>3, <1>4, <1>5, <1>6, <1>7, <1>8 DEF Next

-------------------------------------------------------------------------------
(* Types.                                                                  *)

LEMMA ClientTypedInit == ClientInit => ClientTyped
  <1> SUFFICES ASSUME ClientInit PROVE ClientTyped
    OBVIOUS
  <1>1. <<>> \in Seq(Piece) /\ <<>> \in Seq(WsFrame) /\ <<>> \in Seq(Cell) /\ <<>> \in Seq(Frame)
    OBVIOUS
  <1> QED BY <1>1 DEF ClientInit, ClientTyped, ClientTypeOK, NewClient, NoWait, Promise

LEMMA CallersTyped ==
    ASSUME ClientTyped, Callers
    PROVE  ClientTyped'
  <1> USE DEF ClientTyped, ClientTypeOK
  <1>1. CASE Idle /\ connect
    <2>1. <<>> \in Seq(Piece) /\ <<>> \in Seq(WsFrame) /\ <<>> \in Seq(Cell) /\ <<>> \in Seq(Frame)
      OBVIOUS
    <2> QED BY <1>1, <2>1 DEF Idle, connect, NewClient, NoWait, Promise
  <1>2. ASSUME NEW op \in {"auth", "command", "typing", "raw"}, exchange(op)
        PROVE  ClientTyped'
    <2>1. /\ nextStream \in ClientStreams
          /\ pending' = pending \cup {nextStream} /\ timers' = timers \cup {nextStream}
          /\ call' = [call EXCEPT ![nextStream] = [op |-> op, state |-> "waiting"]]
          /\ socket' \in {"destroyed", socket}
          /\ UNCHANGED <<opening, closing, wire, input, draining, crashed, chunks, pushes, events,
                         waiting, sent, handled>>
      BY <1>2 DEF exchange, Armed, Written, pushVars
    <2>2. call' \in [ClientStreams -> [op : {"none", "auth", "command", "typing", "raw"},
                                       state : Promise]]
      BY <2>1 DEF Promise
    <2>3. \A c \in ClientStreams : call'[c].state \in {"none", "waiting", "ok", "failed"}
      BY <2>2 DEF Promise
    <2> QED BY <2>1, <2>2, <2>3
  <1>3. ASSUME NEW w \in Waiters, NEW kind \in {"other", "error"}, waitForPush(w, kind)
        PROVE  ClientTyped'
    <2>1. waiting' \in [Waiters -> [state : Promise, for : {"any", "other", "error"}]]
      BY <1>3 DEF waitForPush, Promise
    <2> QED BY <1>3, <2>1 DEF waitForPush, socketVars, exchangeVars
  <1>4. CASE waitForClose
    BY <1>4 DEF waitForClose, exchangeVars, pushVars
  <1>5. CASE close
    BY <1>5 DEF close, exchangeVars, pushVars
  <1> QED BY <1>1, <1>2, <1>3, <1>4, <1>5 DEF Callers

LEMMA SettledTyped ==
    ASSUME ClientTyped, NEW c \in ClientStreams, NEW state \in Promise
    PROVE  SettledAs(c, state) \in [op : {"none", "auth", "command", "typing", "raw"},
                                    state : Promise]
  <1>1. call[c] \in [op : {"none", "auth", "command", "typing", "raw"}, state : Promise]
    BY DEF ClientTyped
  <1> QED BY <1>1 DEF SettledAs

LEMMA ClientEventTyped ==
    ASSUME ClientTyped, Idle, ClientEvent
    PROVE  ClientTyped'
  <1> USE DEF ClientTyped, ClientTypeOK
  <1> DEFINE Calls == [op : {"none", "auth", "command", "typing", "raw"}, state : Promise]
  <1>1. CASE connectTimeout
    BY <1>1 DEF connectTimeout, exchangeVars, pushVars
  <1>2. ASSUME NEW c \in ClientStreams, exchangeTimeout(c)
        PROVE  ClientTyped'
    <2>1. call' \in [ClientStreams -> Calls]
      <3>1. SettledAs(c, "failed") \in Calls
        BY SettledTyped DEF Promise
      <3> HIDE DEF Calls
      <3>2. call' = [call EXCEPT ![c] = SettledAs(c, "failed")] /\ call \in [ClientStreams -> Calls]
        BY <1>2 DEF exchangeTimeout, Calls
      <3> QED BY <3>1, <3>2
    <2>2. \A d \in ClientStreams : call'[d].state \in {"none", "waiting", "ok", "failed"}
      BY <2>1 DEF Promise
    <2>3. chunks' \in [ClientStreams -> Seq(Piece)]
      <3>1. <<>> \in Seq(Piece)
        OBVIOUS
      <3> QED BY <1>2, <3>1 DEF exchangeTimeout
    <2> QED BY <1>2, <2>1, <2>2, <2>3 DEF exchangeTimeout, socketVars, pushVars
  <1>3. ASSUME NEW w \in Waiters, pushTimeout(w)
        PROVE  ClientTyped'
    <2>1. waiting' \in [Waiters -> [state : Promise, for : {"any", "other", "error"}]]
      BY <1>3 DEF pushTimeout, Promise
    <2> QED BY <1>3, <2>1 DEF pushTimeout, socketVars, exchangeVars
  <1>4. CASE closeTimeout
    BY <1>4 DEF closeTimeout, exchangeVars, pushVars
  <1>5. CASE onClose
    <2>1. call' \in [ClientStreams -> Calls]
      <3>1. \A c \in ClientStreams : SettledAs(c, "failed") \in Calls
        BY SettledTyped DEF Promise
      <3> HIDE DEF Calls
      <3>2. /\ call' = [c \in ClientStreams |-> IF c \in pending THEN SettledAs(c, "failed") ELSE call[c]]
            /\ call \in [ClientStreams -> Calls]
        BY <1>5 DEF onClose, Calls
      <3> QED BY <3>1, <3>2
    <2>2. \A d \in ClientStreams : call'[d].state \in {"none", "waiting", "ok", "failed"}
      BY <2>1 DEF Promise
    <2>3. chunks' \in [ClientStreams -> Seq(Piece)] /\ wire' \in Seq(Cell)
      <3>1. <<>> \in Seq(Piece) /\ <<>> \in Seq(Cell)
        OBVIOUS
      <3> QED BY <1>5, <3>1 DEF onClose, NewClient
    <2>4. waiting' \in [Waiters -> [state : Promise, for : {"any", "other", "error"}]]
      BY <1>5 DEF onClose, Promise
    <2> QED BY <1>5, <2>1, <2>2, <2>3, <2>4 DEF onClose
  <1>6. ASSUME NEW n \in DOMAIN wire, onData(n)
        PROVE  ClientTyped'
    <2>1. input' \in Seq(Cell) /\ wire' \in Seq(Cell)
      <3>1. \A i \in 1 .. n : wire[i] \in Cell
        OBVIOUS
      <3>2. \A i \in n + 1 .. Len(wire) : wire[i] \in Cell
        OBVIOUS
      <3>3. SubSeq(wire, 1, n) \in Seq(Cell) /\ SubSeq(wire, n + 1, Len(wire)) \in Seq(Cell)
        BY <3>1, <3>2, SubSeqProperties
      <3> QED BY <1>6, <3>3 DEF onData
    <2>2. draining' \in BOOLEAN /\ (draining' => Len(input') >= 2)
      BY <1>6 DEF onData, HasFrame
    <2> QED BY <1>6, <2>1, <2>2 DEF onData, socketVars, exchangeVars, pushVars
  <1> QED BY <1>1, <1>2, <1>3, <1>4, <1>5, <1>6 DEF ClientEvent

LEMMA GatewaySendsTyped ==
    ASSUME ClientTyped, NEW f \in WsFrame, GatewaySends(f)
    PROVE  ClientTyped'
  <1> USE DEF ClientTyped, ClientTypeOK
  <1>1. Cells(f) \in Seq(Cell)
    BY DEF Cells, Cell
  <1>2. sent' \in Seq(WsFrame) /\ wire' \in Seq(Cell)
    BY <1>1 DEF GatewaySends
  <1> QED BY <1>2 DEF GatewaySends, socketVars, exchangeVars, pushVars

(* the first complete frame of bytes decodes to a frame *)
LEMMA DecodedTyped ==
    ASSUME NEW bytes \in Seq(Piece), OneOpenFrame(bytes)
    PROVE  decodeFrames(bytes)[1] \in Frame
  <1>1. Len(bytes) \in Nat /\ Len(decodeFrames(bytes)) = Len(bytes) \div 2
    BY DEF decodeFrames
  <1>2. Len(bytes) \div 2 = 1
    BY <1>1 DEF OneOpenFrame
  <1>3. decodeFrames(bytes)[1] = bytes[1].frame /\ 1 \in 1 .. Len(bytes)
    BY <1>1, <1>2 DEF decodeFrames
  <1>4. bytes[1] \in Piece
    BY <1>3, ElementOfSeq
  <1> QED BY <1>3, <1>4 DEF Piece

LEMMA SettleTyped ==
    ASSUME ClientTyped, NEW c \in pending, NEW state \in {"ok", "failed"}, Settle(c, state)
    PROVE  /\ pending' \subseteq ClientStreams /\ timers' \subseteq ClientStreams
           /\ chunks' \in [ClientStreams -> Seq(Piece)]
           /\ call' \in [ClientStreams -> [op : {"none", "auth", "command", "typing", "raw"},
                                           state : Promise]]
           /\ UNCHANGED <<socketVars, crashed, pushVars>>
  <1>1. <<>> \in Seq(Piece)
    OBVIOUS
  <1>2. c \in ClientStreams
    BY DEF ClientTyped, ClientTypeOK
  <1>3. call' \in [ClientStreams -> [op : {"none", "auth", "command", "typing", "raw"},
                                     state : Promise]]
    BY <1>2 DEF Settle, ClientTyped, Promise
  <1> QED BY <1>1, <1>2, <1>3 DEF Settle, ClientTyped, ClientTypeOK

LEMMA DrainTyped ==
    ASSUME ClientTyped, drainWebSocket
    PROVE  ClientTyped'
  <1> DEFINE f == input[1].frame
             Calls == [op : {"none", "auth", "command", "typing", "raw"}, state : Promise]
             Rest == /\ socket' \in {"none", "connecting", "open", "ending", "destroyed", "closed"}
                     /\ opening' \in [state : Promise, timer : BOOLEAN]
                     /\ UNCHANGED closing
                     /\ crashed' \in BOOLEAN
                     /\ pending' \subseteq ClientStreams /\ timers' \subseteq ClientStreams
                     /\ chunks' \in [ClientStreams -> Seq(Piece)]
                     /\ call' \in [ClientStreams -> Calls]
                     /\ pushes' \in [PushStreams -> Seq(Piece)]
                     /\ events' \in Seq(Frame)
                     /\ waiting' \in [Waiters -> [state : Promise, for : {"any", "other", "error"}]]
  <1>1. f \in WsFrame /\ Len(input) >= 2
    <2>1. input \in Seq(Cell) /\ Len(input) \in Nat /\ Len(input) >= 2
      BY DEF drainWebSocket, ClientTyped
    <2>2. input[1] \in Cell
      BY <2>1, ElementOfSeq
    <2> QED BY <2>1, <2>2 DEF Cell
  <1>2. /\ input' \in Seq(Cell) /\ handled' \in Seq(WsFrame)
        /\ draining' \in BOOLEAN /\ (draining' => Len(input') >= 2)
        /\ UNCHANGED <<wire, sent>>
    <2>1. \A i \in 3 .. Len(input) : input[i] \in Cell
      BY DEF ClientTyped
    <2>2. SubSeq(input, 3, Len(input)) \in Seq(Cell)
      BY <2>1, SubSeqProperties DEF ClientTyped
    <2>3. handled' \in Seq(WsFrame)
      <3>1. handled' = Append(handled, f)
        BY DEF drainWebSocket
      <3> HIDE DEF f
      <3> QED BY <1>1, <3>1 DEF ClientTyped
    <2> HIDE DEF f
    <2> QED BY <2>2, <2>3 DEF drainWebSocket, HasFrame
  <1>3. Rest
    <2> USE DEF ClientTyped, ClientTypeOK, Promise, exchangeVars, socketVars, pushVars
    <2>1. CASE upgrade(TRUE) \/ upgrade(FALSE)
      <3>1. /\ socket' \in {"open", "destroyed", socket}
            /\ opening' \in [state : Promise, timer : BOOLEAN]
        <4>1. CASE upgrade(TRUE)
          BY <4>1 DEF upgrade
        <4>2. CASE upgrade(FALSE)
          <5>1. socket' = "destroyed" /\ opening' = [opening EXCEPT !.state = "failed"]
            BY <4>2, Zenon DEF upgrade
          <5>2. opening \in [state : Promise, timer : BOOLEAN]
            OBVIOUS
          <5> QED BY <5>1, <5>2
        <4> QED BY <2>1, <4>1, <4>2
      <3> QED BY <2>1, <3>1 DEF upgrade
    <2>2. CASE /\ socket' = IF socket = "open" THEN "ending" ELSE socket
               /\ UNCHANGED <<opening, closing, crashed, exchangeVars, pushVars>>
      BY <2>2
    <2>3. CASE Ignored
      BY <2>3 DEF Ignored
    <2>4. CASE Thrown
      BY <2>4 DEF Thrown
    <2>5. CASE handleEnvelope(f)
      <3> HIDE DEF f
      <3>1. CASE Ignored
        BY <3>1 DEF Ignored
      <3>2. CASE f.id \in PushStreams /\ handlePush(f)
        <4> DEFINE bytes == pushes[f.id] \o f.payload
                   event == decodeFrames(bytes)[1]
        <4>1. bytes \in Seq(Piece) /\ <<>> \in Seq(Piece)
          BY <1>1, <3>2 DEF WsFrame
        <4>2. CASE /\ pushes' = [pushes EXCEPT ![f.id] = bytes]
                   /\ UNCHANGED <<socketVars, crashed, exchangeVars, events, waiting>>
          <5> HIDE DEF bytes
          <5> QED BY <3>2, <4>1, <4>2
        <4>3. CASE f.fin /\ ValidPush(bytes)
          <5>1. event \in Frame
            BY <4>1, <4>3, DecodedTyped DEF ValidPush
          <5>2. /\ pushes' = [pushes EXCEPT ![f.id] = <<>>]
                /\ events' = Append(events, event)
                /\ waiting' = [w \in Waiters |->
                                 IF waiting[w].state = "waiting" /\ waiting[w].for = event.route
                                 THEN [waiting[w] EXCEPT !.state = "ok"] ELSE waiting[w]]
                /\ socket' = Written
                /\ UNCHANGED <<opening, closing, crashed, exchangeVars>>
            BY <3>2, <4>3, Zenon DEF handlePush, Thrown
          <5> HIDE DEF event, bytes
          <5>3. pushes' \in [PushStreams -> Seq(Piece)]
            BY <3>2, <4>1, <5>2
          <5>4. waiting' \in [Waiters -> [state : Promise, for : {"any", "other", "error"}]]
            BY <5>2
          <5> QED BY <5>1, <5>2, <5>3, <5>4 DEF Written
        <4>4. CASE Thrown
          BY <4>4 DEF Thrown
        <4> QED BY <3>2, <4>2, <4>3, <4>4, Zenon DEF handlePush
      <3>3. ASSUME f.id \in pending, NEW state \in {"ok", "failed"}, Settle(f.id, state)
            PROVE  Rest
        BY <3>3, SettleTyped
      <3>4. CASE f.id \in pending /\ handleResponse(f)
        <4> DEFINE bytes == chunks[f.id] \o f.payload
        <4>1. bytes \in Seq(Piece)
          BY <1>1, <3>4 DEF WsFrame
        <4>2. \/ /\ chunks' = [chunks EXCEPT ![f.id] = bytes]
                 /\ UNCHANGED <<socketVars, crashed, nextStream, pending, timers, call, pushVars>>
              \/ \E state \in {"ok", "failed"} : Settle(f.id, state)
              \/ Thrown
          BY <3>4, Zenon DEF handleResponse
        <4> HIDE DEF bytes
        <4>3. CASE /\ chunks' = [chunks EXCEPT ![f.id] = bytes]
                   /\ UNCHANGED <<socketVars, crashed, nextStream, pending, timers, call, pushVars>>
          BY <3>4, <4>1, <4>3
        <4>4. CASE Thrown
          BY <4>4 DEF Thrown
        <4> QED BY <3>3, <3>4, <4>2, <4>3, <4>4
      <3> QED BY <2>5, <3>1, <3>2, <3>3, <3>4 DEF handleEnvelope
    <2> QED BY <2>1, <2>2, <2>3, <2>4, <2>5 DEF drainWebSocket
  <1>4. \A c \in ClientStreams : call'[c].state \in {"none", "waiting", "ok", "failed"}
    BY <1>3 DEF Promise
  <1> QED BY <1>2, <1>3, <1>4 DEF ClientTyped, ClientTypeOK, Promise

LEMMA ClientTypedStep ==
    ASSUME ClientTyped, [ClientNext]_clientVars
    PROVE  ClientTyped'
  <1>1. CASE UNCHANGED clientVars
    BY <1>1 DEF clientVars, socketVars, exchangeVars, pushVars, ClientTyped, ClientTypeOK
  <1> QED
    BY <1>1, CallersTyped, ClientEventTyped, DrainTyped, GatewaySendsTyped DEF ClientNext

-------------------------------------------------------------------------------
(* The bytes.  What the client has is always what follows the frames it    *)
(* has handled; while its socket lives the wire has the rest.              *)

Live == socket \in {"connecting", "open", "ending"}

(* cells has the cells of the frames sent, from the one after place k on *)
Follows(cells, k) == \A i \in 1 .. Len(cells) : cells[i] = CellsOf(sent)[k + i]

BytesInv ==
    /\ Len(handled) <= Len(sent)
    /\ \A i \in 1 .. Len(handled) : handled[i] = sent[i]
    /\ 2 * Len(handled) + Len(input) <= 2 * Len(sent)
    /\ Follows(input, 2 * Len(handled))
    /\ Live => /\ 2 * Len(handled) + Len(input) + Len(wire) = 2 * Len(sent)
               /\ Follows(wire, 2 * Len(handled) + Len(input))

LEMMA CellsOfSeq ==
    ASSUME NEW S, NEW s \in Seq(S)
    PROVE  /\ CellsOf(s) \in Seq([frame : S, part : {1, 2}])
           /\ Len(CellsOf(s)) = 2 * Len(s)
           /\ \A k \in 1 .. 2 * Len(s) :
                 /\ (k + 1) \div 2 \in 1 .. Len(s)
                 /\ CellsOf(s)[k] = [frame |-> s[(k + 1) \div 2], part |-> 2 - (k % 2)]
  <1>1. \A k \in 1 .. 2 * Len(s) : (k + 1) \div 2 \in 1 .. Len(s) /\ 2 - (k % 2) \in {1, 2}
    OBVIOUS
  <1>2. \A f : \A p \in {1, 2} : Cells(f)[p] = [frame |-> f, part |-> p]
    BY DEF Cells
  <1> DEFINE c == CellsOf(s)
             m == 2 * Len(s)
  <1>3. m \in Nat /\ c = [k \in 1 .. m |-> Cells(s[(k + 1) \div 2])[2 - (k % 2)]]
    BY DEF CellsOf
  <1>4. \A k \in 1 .. m : c[k] = [frame |-> s[(k + 1) \div 2], part |-> 2 - (k % 2)]
    BY <1>1, <1>2, <1>3
  <1>5. \A k \in 1 .. m : c[k] \in [frame : S, part : {1, 2}]
    <2> TAKE k \in 1 .. m
    <2> DEFINE j == (k + 1) \div 2
    <2>1. j \in 1 .. Len(s) /\ 2 - (k % 2) \in {1, 2} /\ c[k] = [frame |-> s[j], part |-> 2 - (k % 2)]
      BY <1>1, <1>4
    <2>2. s[j] \in S
      BY <2>1, ElementOfSeq
    <2> HIDE DEF c, j
    <2> QED BY <2>1, <2>2
  <1>6. c \in [1 .. m -> [frame : S, part : {1, 2}]]
    BY <1>3, <1>5
  <1>7. Len(c) = m /\ c \in Seq([frame : S, part : {1, 2}])
    <2> DEFINE R == [frame : S, part : {1, 2}]
    <2>1. c \in [1 .. m -> R] /\ m \in Nat
      BY <1>3, <1>6
    <2> HIDE DEF R, c, m
    <2>2. Len(c) = m /\ c \in Seq(R)
      BY <2>1
    <2> QED BY <2>2 DEF R
  <1> QED BY <1>1, <1>4, <1>7

(* One more frame is two more cells. *)
LEMMA CellsOfAppend ==
    ASSUME NEW S, NEW s \in Seq(S), NEW f \in S
    PROVE  /\ \A k \in 1 .. 2 * Len(s) : CellsOf(Append(s, f))[k] = CellsOf(s)[k]
           /\ \A p \in {1, 2} : CellsOf(Append(s, f))[2 * Len(s) + p] = Cells(f)[p]
  <1> DEFINE t == Append(s, f)
  <1>1. /\ t \in Seq(S) /\ Len(t) = Len(s) + 1 /\ t[Len(s) + 1] = f
        /\ \A i \in 1 .. Len(s) : t[i] = s[i]
    OBVIOUS
  <1> HIDE DEF t
  <1>2. \A k \in 1 .. 2 * Len(t) : CellsOf(t)[k] = [frame |-> t[(k + 1) \div 2], part |-> 2 - (k % 2)]
    BY <1>1, CellsOfSeq
  <1>3. \A k \in 1 .. 2 * Len(s) :
           /\ (k + 1) \div 2 \in 1 .. Len(s)
           /\ CellsOf(s)[k] = [frame |-> s[(k + 1) \div 2], part |-> 2 - (k % 2)]
    BY CellsOfSeq
  <1>4. \A k \in 1 .. 2 * Len(s) : CellsOf(t)[k] = CellsOf(s)[k]
    <2> TAKE k \in 1 .. 2 * Len(s)
    <2>1. k \in 1 .. 2 * Len(t) /\ t[(k + 1) \div 2] = s[(k + 1) \div 2]
      BY <1>1, <1>3
    <2> QED BY <1>2, <1>3, <2>1
  <1>5. \A p \in {1, 2} : CellsOf(t)[2 * Len(s) + p] = Cells(f)[p]
    <2> TAKE p \in {1, 2}
    <2> DEFINE n == 2 * Len(s) + p
    <2>1. n \in 1 .. 2 * Len(t) /\ (n + 1) \div 2 = Len(s) + 1 /\ 2 - (n % 2) = p
      BY <1>1
    <2>2. CellsOf(t)[n] = [frame |-> t[(n + 1) \div 2], part |-> 2 - (n % 2)]
      BY <1>2, <2>1
    <2>3. Cells(f)[p] = [frame |-> f, part |-> p]
      BY DEF Cells
    <2> QED BY <1>1, <2>1, <2>2, <2>3
  <1> QED BY <1>4, <1>5 DEF t

(* cells without the first n, and cells in a row *)
LEMMA Dropped ==
    ASSUME NEW s \in Seq(Cell), NEW n \in 0 .. Len(s)
    PROVE  LET t == SubSeq(s, n + 1, Len(s))
           IN  /\ t \in Seq(Cell) /\ Len(t) = Len(s) - n
               /\ \A i \in 1 .. Len(s) - n : t[i] = s[n + i]
  <1> DEFINE l == Len(s)
             from == n + 1
             t == SubSeq(s, from, l)
  <1>1. l \in Nat /\ from \in 1 .. l + 1 /\ \A i \in from .. l : s[i] \in Cell
    OBVIOUS
  <1>2. /\ t \in Seq(Cell) /\ Len(t) = (IF from <= l THEN l - from + 1 ELSE 0)
        /\ \A i \in 1 .. l - from + 1 : t[i] = s[from + i - 1]
    <2> HIDE DEF from, l
    <2> QED BY <1>1, SubSeqProperties
  <1> HIDE DEF from, l, t
  <1>3. l - from + 1 = l - n /\ (IF from <= l THEN l - from + 1 ELSE 0) = l - n
    BY <1>1 DEF from
  <1>4. \A i \in 1 .. l - n : from + i - 1 = n + i
    BY <1>1 DEF from
  <1> QED BY <1>2, <1>3, <1>4 DEF l, t, from

LEMMA Joined ==
    ASSUME NEW s \in Seq(Cell), NEW t \in Seq(Cell)
    PROVE  LET u == s \o t
           IN  /\ Len(u) = Len(s) + Len(t)
               /\ \A i \in 1 .. Len(s) : u[i] = s[i]
               /\ \A i \in Len(s) + 1 .. Len(s) + Len(t) : u[i] = t[i - Len(s)]
  <1> DEFINE u == s \o t
             m == Len(s)
             n == Len(t)
  <1>1. m \in Nat /\ n \in Nat
    OBVIOUS
  <1>2. Len(u) = m + n /\ \A i \in 1 .. m + n : u[i] = IF i <= m THEN s[i] ELSE t[i - m]
    BY ConcatProperties
  <1> HIDE DEF u, m, n
  <1>3. \A i \in 1 .. m : u[i] = s[i]
    BY <1>1, <1>2
  <1>4. \A i \in m + 1 .. m + n : u[i] = t[i - m]
    BY <1>1, <1>2
  <1> QED BY <1>2, <1>3, <1>4 DEF u, m, n

LEMMA BytesInit == ClientInit => BytesInv
  BY DEF ClientInit, BytesInv, Follows, Live

(* nothing is handled or received, and a socket that lives is the old one *)
LEMMA BytesQuiet ==
    ASSUME ClientTyped, BytesInv, UNCHANGED <<sent, handled, input>>,
           Live' => Live /\ UNCHANGED wire
    PROVE  BytesInv'
  BY DEF BytesInv, Follows

LEMMA BytesStep ==
    ASSUME ClientTyped, BytesInv, [ClientNext]_clientVars
    PROVE  BytesInv'
  <1> DEFINE s == Len(sent)
             h == Len(handled)
             n == Len(input)
             w == Len(wire)
  <1>1. s \in Nat /\ h \in Nat /\ n \in Nat /\ w \in Nat
    BY DEF ClientTyped
  <1>2. CASE Idle /\ connect
    BY <1>2 DEF connect, BytesInv, Follows
  <1>3. CASE \/ UNCHANGED clientVars \/ waitForClose \/ close \/ closeTimeout \/ connectTimeout
             \/ \E op \in {"auth", "command", "typing", "raw"} : exchange(op)
             \/ \E v \in Waiters, kind \in {"other", "error"} : waitForPush(v, kind)
             \/ \E c \in ClientStreams : exchangeTimeout(c)
             \/ \E v \in Waiters : pushTimeout(v)
             \/ onClose
    <2>1. UNCHANGED <<sent, handled, input>> /\ (Live' => Live /\ UNCHANGED wire)
      BY <1>3 DEF clientVars, socketVars, waitForClose, close, closeTimeout, connectTimeout, exchange,
                  Written, waitForPush, exchangeTimeout, pushTimeout, onClose, Live
    <2> QED BY <2>1, BytesQuiet
  <1>4. ASSUME NEW f \in WsFrame, GatewaySends(f)
        PROVE  BytesInv'
    <2>1. /\ Live /\ Live'
          /\ sent' = Append(sent, f) /\ wire' = wire \o Cells(f)
          /\ UNCHANGED <<input, handled>>
      BY <1>4 DEF GatewaySends, Live, socketVars
    <2>2. sent \in Seq(WsFrame) /\ wire \in Seq(Cell) /\ Cells(f) \in Seq(Cell) /\ Len(Cells(f)) = 2
      BY DEF ClientTyped, Cells, Cell
    <2>3. Len(sent') = s + 1 /\ Len(wire') = w + 2 /\ \A i \in 1 .. h : sent'[i] = sent[i]
      <3>1. Len(sent') = s + 1 /\ \A i \in 1 .. s : sent'[i] = sent[i]
        BY <2>1, <2>2, AppendProperties
      <3>2. Len(wire') = w + 2
        <4>1. Len(wire \o Cells(f)) = Len(wire) + Len(Cells(f))
          BY <2>2, Joined
        <4> QED BY <2>1, <2>2, <4>1
      <3>3. h <= s
        BY DEF BytesInv
      <3> HIDE DEF h, s
      <3> QED BY <1>1, <3>1, <3>2, <3>3
    <2>4. /\ \A k \in 1 .. 2 * s : CellsOf(sent)'[k] = CellsOf(sent)[k]
          /\ \A p \in {1, 2} : CellsOf(sent)'[2 * s + p] = Cells(f)[p]
      <3>1. CellsOf(sent)' = CellsOf(Append(sent, f))
        BY <2>1
      <3> QED BY <2>2, <3>1, CellsOfAppend
    <2>5. /\ \A i \in 1 .. w : wire'[i] = wire[i]
          /\ \A i \in w + 1 .. w + 2 : wire'[i] = Cells(f)[i - w]
      <3> DEFINE u == wire \o Cells(f)
      <3>1. /\ \A i \in 1 .. w : u[i] = wire[i]
            /\ \A i \in w + 1 .. w + Len(Cells(f)) : u[i] = Cells(f)[i - w]
        BY <2>2, Joined
      <3>2. wire' = u /\ Len(Cells(f)) = 2
        BY <2>1, <2>2
      <3> HIDE DEF u
      <3> QED BY <3>1, <3>2
    <2>6. 2 * h + n + w = 2 * s
      BY <2>1 DEF BytesInv
    <2> HIDE DEF s, h, n, w
    <2>7. Follows(input, 2 * h)' /\ h' = h /\ n' = n
      <3>1. \A i \in 1 .. n : input[i] = CellsOf(sent)[2 * h + i]
        BY DEF BytesInv, Follows, h, n
      <3>2. \A i \in 1 .. n : 2 * h + i \in 1 .. 2 * s
        BY <1>1, <2>6
      <3>3. \A i \in 1 .. n : input[i] = CellsOf(sent)'[2 * h + i]
        BY <2>4, <3>1, <3>2
      <3> QED BY <2>1, <3>3 DEF Follows, h, n
    <2>8. Follows(wire, 2 * h + n)'
      <3>1. \A i \in 1 .. w : wire[i] = CellsOf(sent)[2 * h + n + i]
        BY <2>1 DEF BytesInv, Follows, h, n, w
      <3>2. \A i \in 1 .. w : 2 * h + n + i \in 1 .. 2 * s
        BY <1>1, <2>6
      <3>3. \A i \in 1 .. w : wire'[i] = CellsOf(sent)'[2 * h + n + i]
        BY <2>4, <2>5, <3>1, <3>2
      <3>4. \A i \in w + 1 .. w + 2 : wire'[i] = CellsOf(sent)'[2 * h + n + i]
        <4> TAKE i \in w + 1 .. w + 2
        <4>1. i - w \in {1, 2} /\ 2 * h + n + i = 2 * s + (i - w)
          BY <1>1, <2>6
        <4> QED BY <2>4, <2>5, <4>1
      <3>5. \A i \in 1 .. w + 2 : wire'[i] = CellsOf(sent)'[2 * h + n + i]
        BY <1>1, <3>3, <3>4
      <3> QED BY <2>3, <2>7, <3>5 DEF Follows, h, n
    <2>9. s' = s + 1 /\ w' = w + 2
      BY <2>3 DEF s, w
    <2>10. /\ h' <= s' /\ 2 * h' + n' <= 2 * s' /\ 2 * h' + n' + w' = 2 * s'
      <3>1. h <= s
        BY DEF BytesInv, h, s
      <3> QED BY <1>1, <2>6, <2>7, <2>9, <3>1
    <2>11. \A i \in 1 .. h : handled'[i] = sent'[i]
      BY <2>1, <2>3 DEF BytesInv, h
    <2> QED BY <2>7, <2>8, <2>10, <2>11 DEF BytesInv, Follows, s, h, n, w
  <1>5. ASSUME NEW m \in DOMAIN wire, onData(m)
        PROVE  BytesInv'
    <2>1. /\ Live /\ Live'
          /\ input' = input \o SubSeq(wire, 1, m) /\ wire' = SubSeq(wire, m + 1, Len(wire))
          /\ UNCHANGED <<sent, handled>>
      BY <1>5 DEF onData, Live, socketVars
    <2>2. m \in 1 .. w /\ wire \in Seq(Cell) /\ input \in Seq(Cell)
      BY DEF ClientTyped
    <2>3. /\ SubSeq(wire, 1, m) \in Seq(Cell) /\ Len(SubSeq(wire, 1, m)) = m
          /\ \A i \in 1 .. m : SubSeq(wire, 1, m)[i] = wire[i]
      BY <2>2
    <2>4. /\ Len(wire') = w - m
          /\ \A i \in 1 .. w - m : wire'[i] = wire[m + i]
      <3> DEFINE t == SubSeq(wire, m + 1, Len(wire))
      <3>1. /\ Len(t) = w - m /\ \A i \in 1 .. w - m : t[i] = wire[m + i]
        <4>1. m \in 0 .. Len(wire)
          BY <2>2
        <4> QED BY <2>2, <4>1, Dropped
      <3>2. wire' = t
        BY <2>1
      <3> HIDE DEF t
      <3> QED BY <3>1, <3>2
    <2>5. /\ Len(input') = n + m
          /\ \A i \in 1 .. n : input'[i] = input[i]
          /\ \A i \in n + 1 .. n + m : input'[i] = wire[i - n]
      <3> DEFINE front == SubSeq(wire, 1, m)
      <3> HIDE DEF front
      <3>1. /\ front \in Seq(Cell) /\ Len(front) = m /\ input' = input \o front
            /\ \A i \in 1 .. m : front[i] = wire[i]
        BY <2>1, <2>3 DEF front
      <3>2. /\ Len(input') = n + m
            /\ \A i \in 1 .. n : input'[i] = input[i]
            /\ \A i \in n + 1 .. n + m : input'[i] = front[i - n]
        <4> DEFINE u == input \o front
        <4>1. /\ Len(u) = n + Len(front)
              /\ \A i \in 1 .. n : u[i] = input[i]
              /\ \A i \in n + 1 .. n + Len(front) : u[i] = front[i - n]
          BY <2>2, <3>1, Joined
        <4>2. input' = u /\ Len(front) = m
          BY <3>1
        <4> HIDE DEF u
        <4> QED BY <4>1, <4>2
      <3> HIDE DEF n, w
      <3>3. \A i \in n + 1 .. n + m : i - n \in 1 .. m
        BY <1>1, <2>2
      <3> QED BY <3>1, <3>2, <3>3
    <2>6. /\ 2 * h + n + w = 2 * s
          /\ \A i \in 1 .. n : input[i] = CellsOf(sent)[2 * h + i]
          /\ \A i \in 1 .. w : wire[i] = CellsOf(sent)[2 * h + n + i]
      BY <2>1 DEF BytesInv, Follows
    <2> HIDE DEF s, h, n, w
    <2>7. \A i \in 1 .. n + m : input'[i] = CellsOf(sent)[2 * h + i]
      <3> TAKE i \in 1 .. n + m
      <3>1. CASE i \in 1 .. n
        BY <2>5, <2>6, <3>1
      <3>2. CASE i \in n + 1 .. n + m
        <4>1. i - n \in 1 .. w /\ 2 * h + n + (i - n) = 2 * h + i
          BY <1>1, <2>2, <3>2
        <4>2. wire[i - n] = CellsOf(sent)[2 * h + n + (i - n)]
          BY <2>6, <4>1
        <4> QED BY <2>5, <3>2, <4>1, <4>2
      <3> QED BY <1>1, <2>2, <3>1, <3>2
    <2>8. \A i \in 1 .. w - m : wire'[i] = CellsOf(sent)[2 * h + (n + m) + i]
      <3> TAKE i \in 1 .. w - m
      <3>1. m + i \in 1 .. w /\ 2 * h + n + (m + i) = 2 * h + (n + m) + i
        BY <1>1, <2>2
      <3>2. wire[m + i] = CellsOf(sent)[2 * h + n + (m + i)]
        BY <2>6, <3>1
      <3> QED BY <2>4, <3>1, <3>2
    <2>9. h' = h /\ s' = s /\ CellsOf(sent)' = CellsOf(sent) /\ n' = n + m /\ w' = w - m
      BY <2>1, <2>4, <2>5 DEF h, s, n, w
    <2>10. Follows(input, 2 * h)'
      BY <2>7, <2>9 DEF Follows, n
    <2>11. Follows(wire, 2 * h + n)'
      BY <2>8, <2>9 DEF Follows, w
    <2>12. 2 * h + (n + m) + (w - m) = 2 * s /\ 2 * h + (n + m) <= 2 * s
      <3>1. 2 * h + n + w = 2 * s /\ m \in 1 .. w
        BY <2>2, <2>6
      <3> QED BY <1>1, <3>1
    <2>13. /\ h <= s /\ \A i \in 1 .. h : handled[i] = sent[i]
      BY DEF BytesInv, h, s
    <2>14. /\ h' <= s' /\ 2 * h' + n' <= 2 * s' /\ 2 * h' + n' + w' = 2 * s'
      BY <1>1, <2>2, <2>9, <2>12, <2>13
    <2>15. Follows(wire, 2 * h + n)' /\ Follows(input, 2 * h)'
      BY <2>10, <2>11
    <2>16. \A i \in 1 .. h' : handled'[i] = sent'[i]
      BY <2>1, <2>9, <2>13
    <2> QED BY <2>14, <2>15, <2>16 DEF BytesInv, s, h, n, w
  <1>6. CASE drainWebSocket
    <2>1. /\ n >= 2 /\ input' = SubSeq(input, 3, Len(input))
          /\ handled' = Append(handled, input[1].frame)
          /\ UNCHANGED <<sent, wire>>
      BY <1>6 DEF drainWebSocket, ClientTyped
    <2>2. Live' => Live
      BY <1>6 DEF drainWebSocket, Live, upgrade, Ignored, Thrown, handleEnvelope, handlePush,
                  handleResponse, Settle, socketVars, Written
    <2>3. Len(input') = n - 2 /\ \A i \in 1 .. n - 2 : input'[i] = input[i + 2]
      <3> DEFINE t == SubSeq(input, 2 + 1, Len(input))
      <3>1. 2 \in 0 .. Len(input) /\ input' = t /\ input \in Seq(Cell)
        BY <1>1, <2>1 DEF ClientTyped
      <3>2. Len(t) = n - 2 /\ \A i \in 1 .. n - 2 : t[i] = input[2 + i]
        BY <3>1, Dropped
      <3> HIDE DEF n, t
      <3>3. \A i \in 1 .. n - 2 : 2 + i = i + 2
        OBVIOUS
      <3> QED BY <3>1, <3>2, <3>3
    <2>4. 2 * h + n <= 2 * s /\ \A i \in 1 .. n : input[i] = CellsOf(sent)[2 * h + i]
      BY DEF BytesInv, Follows
    <2>5. input[1].frame = sent[h + 1]
      <3>1. 2 * h + 1 \in 1 .. 2 * s /\ (2 * h + 1 + 1) \div 2 = h + 1
        BY <1>1, <2>1, <2>4
      <3>2. CellsOf(sent)[2 * h + 1] = [frame |-> sent[(2 * h + 1 + 1) \div 2], part |-> 2 - ((2 * h + 1) % 2)]
        BY <3>1, CellsOfSeq DEF ClientTyped
      <3>3. input[1] = CellsOf(sent)[2 * h + 1]
        BY <1>1, <2>1, <2>4
      <3> QED BY <3>1, <3>2, <3>3
    <2>6. /\ Len(handled') = h + 1
          /\ \A i \in 1 .. h + 1 : handled'[i] = sent[i]
      <3>1. \A i \in 1 .. h : handled[i] = sent[i]
        BY DEF BytesInv
      <3>2. /\ Len(handled') = h + 1 /\ handled'[h + 1] = input[1].frame
            /\ \A i \in 1 .. h : handled'[i] = handled[i]
        BY <2>1 DEF ClientTyped
      <3> QED BY <1>1, <2>5, <3>1, <3>2
    <2> HIDE DEF s, h, n, w
    <2>7. \A i \in 1 .. n - 2 : input'[i] = CellsOf(sent)[2 * (h + 1) + i]
      <3> TAKE i \in 1 .. n - 2
      <3>1. i + 2 \in 1 .. n /\ 2 * h + (i + 2) = 2 * (h + 1) + i
        BY <1>1
      <3>2. input[i + 2] = CellsOf(sent)[2 * h + (i + 2)]
        BY <2>4, <3>1
      <3> QED BY <2>3, <3>1, <3>2
    <2>8. h' = h + 1 /\ s' = s /\ CellsOf(sent)' = CellsOf(sent) /\ n' = n - 2 /\ w' = w
      BY <2>1, <2>3, <2>6 DEF h, s, n, w
    <2>9. Follows(input, 2 * h)'
      BY <2>7, <2>8 DEF Follows, n
    <2>10. 2 * (h + 1) + (n - 2) <= 2 * s /\ h + 1 <= s
      BY <1>1, <2>1, <2>4 DEF n
    <2>11. Live => 2 * (h + 1) + (n - 2) + w = 2 * s /\ \A i \in 1 .. w : wire[i] = CellsOf(sent)[2 * (h + 1) + (n - 2) + i]
      <3> HAVE Live
      <3>1. 2 * h + n + w = 2 * s /\ \A i \in 1 .. w : wire[i] = CellsOf(sent)[2 * h + n + i]
        BY DEF BytesInv, Follows, h, n, w, s
      <3>2. 2 * (h + 1) + (n - 2) = 2 * h + n
        BY <1>1
      <3> QED BY <1>1, <3>1, <3>2
    <2>12. Live' => Follows(wire, 2 * h + n)'
      BY <2>1, <2>2, <2>8, <2>11 DEF Follows, w
    <2>13. /\ h' <= s' /\ 2 * h' + n' <= 2 * s' /\ \A i \in 1 .. h' : handled'[i] = sent'[i]
      BY <2>1, <2>6, <2>8, <2>10
    <2>14. Live' => 2 * h' + n' + w' = 2 * s' /\ Follows(wire, 2 * h + n)'
      BY <2>2, <2>8, <2>11, <2>12
    <2> QED BY <2>9, <2>13, <2>14 DEF BytesInv, s, h, n, w
  <1> QED
    BY <1>2, <1>3, <1>4, <1>5, <1>6 DEF ClientNext, Callers, ClientEvent

(* Reassembled, from the invariant *)
LEMMA BytesReassembled ==
    ASSUME ClientTyped, BytesInv
    PROVE  Reassembled
  <1>1. IsPrefix(handled, sent)
    <2>1. Len(handled) <= Len(sent) /\ \A i \in 1 .. Len(handled) : handled[i] = sent[i]
      BY DEF BytesInv
    <2>2. sent \in Seq(WsFrame) /\ handled \in Seq(WsFrame)
      BY DEF ClientTyped
    <2>3. \A i \in 1 .. Len(handled) : handled[i] \in WsFrame /\ sent[i] \in WsFrame
      BY <2>1, <2>2
    <2> DEFINE p == SubSeq(handled, 1, Len(handled))
               q == SubSeq(sent, 1, Len(handled))
    <2>4. /\ p \in Seq(WsFrame) /\ q \in Seq(WsFrame) /\ Len(p) = Len(q)
          /\ \A i \in 1 .. Len(p) : p[i] = q[i]
      BY <2>1, <2>2, <2>3
    <2> HIDE DEF p, q
    <2>5. p = q
      BY <2>4, SeqEqual
    <2> QED BY <2>1, <2>5 DEF IsPrefix, p, q
  <1>2. ASSUME Live PROVE CellsOf(handled) \o input \o wire = CellsOf(sent)
    <2> DEFINE a == CellsOf(handled)
               b == CellsOf(sent)
               n == Len(input)
               w == Len(wire)
               c == a \o input \o wire
    <2>1. /\ sent \in Seq(WsFrame) /\ handled \in Seq(WsFrame)
          /\ input \in Seq(Cell) /\ wire \in Seq(Cell)
      BY DEF ClientTyped
    <2>2. a \in Seq(Cell) /\ b \in Seq(Cell) /\ Len(a) = 2 * Len(handled) /\ Len(b) = 2 * Len(sent)
      BY <2>1, CellsOfSeq DEF Cell
    <2>3. /\ Len(a) + n + w = Len(b)
          /\ \A i \in 1 .. n : input[i] = b[Len(a) + i]
          /\ \A i \in 1 .. w : wire[i] = b[Len(a) + n + i]
      BY <1>2, <2>2 DEF BytesInv, Follows
    <2>4. \A i \in 1 .. Len(a) : a[i] = b[i]
      <3> TAKE i \in 1 .. Len(a)
      <3> DEFINE j == (i + 1) \div 2
      <3>1. /\ j \in 1 .. Len(handled)
            /\ a[i] = [frame |-> handled[j], part |-> 2 - (i % 2)]
        BY <2>1, <2>2, CellsOfSeq
      <3>2. i \in 1 .. 2 * Len(sent)
        BY <2>1, <2>2 DEF BytesInv
      <3>3. b[i] = [frame |-> sent[j], part |-> 2 - (i % 2)]
        BY <2>1, <3>2, CellsOfSeq
      <3> QED BY <3>1, <3>3 DEF BytesInv
    <2> HIDE DEF a, b
    <2>5. /\ a \o input \in Seq(Cell) /\ Len(a \o input) = Len(a) + n
          /\ \A i \in 1 .. Len(a) + n :
                (a \o input)[i] = IF i <= Len(a) THEN a[i] ELSE input[i - Len(a)]
      BY <2>1, <2>2, ConcatProperties
    <2>6. /\ c \in Seq(Cell) /\ Len(c) = Len(a) + n + w
          /\ \A i \in 1 .. Len(a) + n + w :
                c[i] = IF i <= Len(a) + n THEN (a \o input)[i] ELSE wire[i - (Len(a) + n)]
      BY <2>1, <2>5, ConcatProperties
    <2>7. Len(a) \in Nat /\ n \in Nat /\ w \in Nat
      BY <2>1, <2>2
    <2> HIDE DEF c, n, w
    <2>8. \A i \in 1 .. Len(c) : c[i] = b[i]
      <3> TAKE i \in 1 .. Len(c)
      <3>1. CASE i <= Len(a)
        BY <2>4, <2>5, <2>6, <2>7, <3>1
      <3>2. CASE Len(a) < i /\ i <= Len(a) + n
        <4>1. i - Len(a) \in 1 .. n /\ Len(a) + (i - Len(a)) = i
          BY <2>6, <2>7, <3>2
        <4>2. input[i - Len(a)] = b[i]
          BY <2>3, <4>1
        <4> QED BY <2>5, <2>6, <2>7, <3>2, <4>2
      <3>3. CASE Len(a) + n < i
        <4>1. i - (Len(a) + n) \in 1 .. w /\ Len(a) + n + (i - (Len(a) + n)) = i
          BY <2>6, <2>7, <3>3
        <4>2. wire[i - (Len(a) + n)] = b[i]
          BY <2>3, <4>1
        <4> QED BY <2>6, <2>7, <3>3, <4>2
      <3> QED BY <2>6, <2>7, <3>1, <3>2, <3>3
    <2>9. c = b
      BY <2>2, <2>3, <2>6, <2>8, SeqEqual
    <2> QED BY <2>9 DEF a, b, c
  <1> QED BY <1>1, <1>2 DEF Reassembled, Live

-------------------------------------------------------------------------------
(* Waits for a push.                                                       *)

LEMMA NoPushMissedInit == ClientInit => NoPushMissed
  BY DEF ClientInit, NoPushMissed, NewClient, NoWait

LEMMA NoPushMissedStep ==
    ASSUME ClientTyped, NoPushMissed, [ClientNext]_clientVars
    PROVE  NoPushMissed'
  <1>1. CASE Idle /\ connect
    BY <1>1 DEF connect, NoPushMissed, NewClient, NoWait
  <1>2. ASSUME NEW w \in Waiters, NEW kind \in {"other", "error"}, waitForPush(w, kind)
        PROVE  NoPushMissed'
    <2> SUFFICES ASSUME NEW v \in Waiters, waiting'[v].state = "waiting", NEW i \in DOMAIN events
                 PROVE  events[i].route # waiting'[v].for
      BY <1>2 DEF waitForPush, NoPushMissed
    <2>1. CASE v = w
      BY <1>2, <2>1 DEF waitForPush, Existing, ClientTyped
    <2>2. CASE v # w
      BY <1>2, <2>2 DEF waitForPush, NoPushMissed, ClientTyped
    <2> QED BY <2>1, <2>2
  <1>3. CASE \/ UNCHANGED clientVars \/ waitForClose \/ close \/ closeTimeout \/ connectTimeout
             \/ \E op \in {"auth", "command", "typing", "raw"} : exchange(op)
             \/ \E c \in ClientStreams : exchangeTimeout(c)
             \/ \E n \in DOMAIN wire : onData(n)
             \/ \E f \in WsFrame : GatewaySends(f)
    <2>1. UNCHANGED <<events, waiting>>
      BY <1>3 DEF clientVars, pushVars, waitForClose, close, closeTimeout, connectTimeout, exchange,
                  exchangeTimeout, onData, GatewaySends
    <2> QED BY <2>1 DEF NoPushMissed
  <1>4. CASE onClose \/ \E w \in Waiters : pushTimeout(w)
    <2>1. /\ UNCHANGED events
          /\ \A v \in Waiters : waiting'[v].state = "waiting" => waiting'[v] = waiting[v]
      <3>1. CASE onClose
        BY <3>1 DEF onClose, ClientTyped
      <3>2. ASSUME NEW w \in Waiters, pushTimeout(w)
            PROVE  /\ UNCHANGED events
                   /\ \A v \in Waiters : waiting'[v].state = "waiting" => waiting'[v] = waiting[v]
        BY <3>2 DEF pushTimeout, ClientTyped
      <3> QED BY <1>4, <3>1, <3>2
    <2> QED BY <2>1 DEF NoPushMissed
  <1>5. CASE drainWebSocket
    <2> DEFINE f == input[1].frame
    <2>1. CASE UNCHANGED <<events, waiting>>
      BY <2>1 DEF NoPushMissed
    <2>2. CASE handlePush(f) /\ f.id \in PushStreams /\ ~UNCHANGED <<events, waiting>>
      <3> DEFINE bytes == pushes[f.id] \o f.payload
                 event == decodeFrames(bytes)[1]
      <3>1. f \in WsFrame
        <4>1. input \in Seq(Cell) /\ Len(input) \in Nat /\ Len(input) >= 2
          BY <1>5 DEF drainWebSocket, ClientTyped
        <4>2. input[1] \in Cell
          BY <4>1, ElementOfSeq
        <4> QED BY <4>2 DEF Cell
      <3>2. /\ ValidPush(bytes)
            /\ events' = Append(events, event)
            /\ waiting' = [w \in Waiters |->
                             IF waiting[w].state = "waiting" /\ waiting[w].for = event.route
                             THEN [waiting[w] EXCEPT !.state = "ok"] ELSE waiting[w]]
        <4> HIDE DEF f
        <4> QED BY <2>2, Zenon DEF handlePush, Thrown, pushVars
      <3>3. bytes \in Seq(Piece)
        <4> HIDE DEF f
        <4> QED BY <2>2, <3>1 DEF WsFrame, ClientTyped
      <3>4. event \in Frame
        BY <3>2, <3>3, DecodedTyped DEF ValidPush
      <3> HIDE DEF event, f, bytes
      <3> SUFFICES ASSUME NEW v \in Waiters, waiting'[v].state = "waiting", NEW i \in DOMAIN events'
                   PROVE  events'[i].route # waiting'[v].for
        BY DEF NoPushMissed
      <3>5. /\ waiting'[v] = waiting[v] /\ waiting[v].for # event.route
            /\ waiting[v].state = "waiting"
        BY <3>2 DEF ClientTyped
      <3>6. /\ DOMAIN events' = 1 .. Len(events) + 1 /\ Len(events) \in Nat
            /\ events'[Len(events) + 1] = event
            /\ \A j \in 1 .. Len(events) : events'[j] = events[j] /\ j \in DOMAIN events
        BY <3>2, <3>4 DEF ClientTyped
      <3>7. CASE i = Len(events) + 1
        BY <3>5, <3>6, <3>7
      <3>8. CASE i \in 1 .. Len(events)
        BY <3>5, <3>6, <3>8 DEF NoPushMissed
      <3> QED BY <3>6, <3>7, <3>8
    <2>3. \/ UNCHANGED <<events, waiting>>
          \/ handlePush(f) /\ f.id \in PushStreams
      <3>1. CASE handleEnvelope(f)
        BY <3>1 DEF handleEnvelope, handleResponse, Settle, Ignored, Thrown, pushVars
      <3>2. CASE ~handleEnvelope(f)
        BY <1>5, <3>2 DEF drainWebSocket, upgrade, Ignored, Thrown, pushVars
      <3> QED BY <3>1, <3>2
    <2> QED BY <2>1, <2>2, <2>3
  <1> QED
    BY <1>1, <1>2, <1>3, <1>4, <1>5 DEF ClientNext, Callers, ClientEvent

-------------------------------------------------------------------------------
(* The inductive invariant of the client. *)
ClientInv == ClientTyped /\ BytesInv /\ NoPushMissed

(* Whatever script calls it and whatever the gateway sends, the client     *)
(* keeps its invariant: its typing, where each received byte comes from,   *)
(* and that nobody waits for a push it has.                                *)
THEOREM ClientInvariant == Spec => []ClientInv
  <1>1. Init => ClientInv
    BY ClientTypedInit, BytesInit, NoPushMissedInit DEF Init, ClientInv
  <1>2. ClientInv /\ [Next]_vars => ClientInv'
    <2> SUFFICES ASSUME ClientInv, [Next]_vars PROVE ClientInv'
      OBVIOUS
    <2>1. ClientTyped /\ BytesInv /\ NoPushMissed
      BY DEF ClientInv
    <2>2. [ClientNext]_clientVars
      BY <2>1, StepsOfClient DEF ClientTyped, ClientTypeOK
    <2> QED BY <2>1, <2>2, ClientTypedStep, BytesStep, NoPushMissedStep DEF ClientInv
  <1> QED BY <1>1, <1>2, PTL DEF Spec

(* The fault-recovery script and all the others use the client through its *)
(* methods only: whatever they, the processes and the gateway do is a      *)
(* behaviour of the client on its own.                                     *)
THEOREM ScriptsUseClient == Spec => ClientInit /\ [][ClientNext]_clientVars
  <1>1. Init => ClientInit
    BY DEF Init
  <1>2. ClientInv /\ [Next]_vars => [ClientNext]_clientVars
    BY StepsOfClient DEF ClientInv, ClientTyped, ClientTypeOK
  <1> QED BY <1>1, <1>2, ClientInvariant, PTL DEF Spec

(* The frames the client handles are those the gateway sent, in order,     *)
(* wherever the chunks end, and none is lost while the socket lives.       *)
THEOREM FramesReassembled == Spec => []Reassembled
  <1>1. ClientInv => Reassembled
    BY BytesReassembled DEF ClientInv
  <1> QED BY <1>1, ClientInvariant, PTL

(* Nobody waits for a push that has come, before waitForPush or after.     *)
THEOREM PushesFound == Spec => []NoPushMissed
  <1>1. ClientInv => NoPushMissed
    BY DEF ClientInv
  <1> QED BY <1>1, ClientInvariant, PTL

(***************************************************************************)
(* The script.                                                             *)
(***************************************************************************)

(* where the script stands *)
GatewayUp    == {"gatewayMarkers", "connect", "connecting", "login", "loggingIn", "command", "commanding"}
ReactorDown  == {"stopReactor", "reactorStopping", "mustFail", "mustFailing", "startReactor",
                 "reactorMarker", "recover", "recovering"}
GatewayDown  == {"stopGateway", "gatewayStopping", "closing", "startGateway"}
Ending       == {"finally", "finalGateway", "finalReactor", "kill", "over"}

Child == [life : {"none", "starting", "up", "gone"}, marked : BOOLEAN,
          signal : {"none", "SIGINT", "SIGKILL"}]

(* The tokens in the log are those of incarnations that let the user in.   *)
ScriptTyped ==
    /\ script \in {"fault", "any"} /\ verdict \in {"none", "ok", "failed"}
    /\ reactor \in Child /\ gateway \in Child
    /\ tokens \in Seq(Tokens)
    /\ granted \subseteq 1 .. Len(tokens)
    /\ log \subseteq {tokens[n] : n \in 1 .. Len(tokens)}
    /\ reactorCycles \in Nat /\ gatewayCycles \in Nat
    /\ tokens = <<>> => gateway.life = "none"

(* how many cycles are done and how many incarnations there were, by the   *)
(* place of the script                                                     *)
FirstStart == /\ at \in {"startReactor", "reactorMarker", "startGateway"}
              /\ tokens = <<>> /\ reactorCycles = 0 /\ gatewayCycles = 0
FirstUp    == /\ at \in GatewayUp \cup {"firstToken"}
              /\ Len(tokens) = 1 /\ reactorCycles = 0 /\ gatewayCycles = 0
InReactorCycle == /\ at \in ReactorDown
                  /\ Len(tokens) = 1 /\ gatewayCycles = 0 /\ reactorCycles < ReactorCycles
InGatewayCycle == /\ reactorCycles = ReactorCycles /\ gatewayCycles < GatewayCycles
                  /\ \/ at \in GatewayDown /\ Len(tokens) = gatewayCycles + 1
                     \/ at \in GatewayUp /\ Len(tokens) = gatewayCycles + 2
AllCyclesDone  == /\ at = "tokens" /\ Len(tokens) = gatewayCycles + 1
                  /\ reactorCycles = ReactorCycles /\ gatewayCycles = GatewayCycles

Distinct == \A m, n \in DOMAIN tokens : m # n => tokens[m] # tokens[n]

Progress ==
    /\ script = "fault" =>
           \/ FirstStart \/ FirstUp \/ InReactorCycle \/ InGatewayCycle \/ AllCyclesDone
           \/ at \in Ending
    /\ script = "any" => at = "over"
    /\ verdict # "none" => at \in Ending
    /\ verdict = "ok" => /\ reactorCycles = ReactorCycles /\ gatewayCycles = GatewayCycles
                         /\ Distinct

(* stopped one after the other, and never started again *)
Stopped ==
    script = "fault" =>
        /\ at \in {"finalReactor", "kill", "over"} => Gone(gateway)
        /\ at \in {"kill", "over"} => Gone(reactor)

ScriptInv == ScriptTyped /\ Progress /\ Stopped

LEMMA ScriptInit == Init => ScriptInv
  <1> SUFFICES ASSUME Init PROVE ScriptInv
    OBVIOUS
  <1>1. Absent \in Child
    BY DEF Absent, Child
  <1>2. <<>> \in Seq(Tokens)
    OBVIOUS
  <1>3. ScriptTyped
    BY <1>1, <1>2 DEF Init, ScriptTyped, Absent
  <1>4. Progress /\ Stopped
    BY DEF Init, Progress, Stopped, FirstStart, Ending
  <1> QED BY <1>3, <1>4 DEF ScriptInv

LEMMA ChildrenTyped ==
    /\ Spawned \in Child
    /\ \A child \in Child, signal \in {"none", "SIGINT", "SIGKILL"} :
          /\ Signalled(child, signal) \in Child
          /\ Gone(child) => Gone(Signalled(child, signal))
          /\ Signalled(child, signal).life = child.life
  BY DEF Spawned, Child, Signalled, Gone

(* The pigeonhole: a log with as many tokens as there were incarnations    *)
(* has the token of each, and no two are the same.                         *)
LEMMA ManyTokens ==
    ASSUME NEW s \in Seq(Tokens), NEW l, l \subseteq {s[n] : n \in 1 .. Len(s)},
           Cardinality(l) >= Len(s), NEW i \in 1 .. Len(s), NEW j \in 1 .. Len(s), i # j
    PROVE  s[i] # s[j]
  <1> SUFFICES ASSUME s[i] = s[j] PROVE FALSE
    OBVIOUS
  <1> DEFINE D == 1 .. Len(s)
             E == D \ {j}
             R == {s[n] : n \in E}
             f == [n \in E |-> s[n]]
  <1>1. IsFiniteSet(D) /\ Cardinality(D) = Len(s) /\ Len(s) \in Nat
    <2> DEFINE m == Len(s)
    <2>1. m \in Nat /\ m \in Int /\ 1 \in Int
      OBVIOUS
    <2> HIDE DEF m
    <2>2. IsFiniteSet(1 .. m) /\ Cardinality(1 .. m) = IF 1 > m THEN 0 ELSE m - 1 + 1
      BY <2>1, FS_Interval
    <2>3. Cardinality(1 .. m) = m
      BY <2>1, <2>2
    <2> QED BY <2>1, <2>2, <2>3 DEF m
  <1>2. IsFiniteSet(E) /\ Cardinality(E) = Len(s) - 1
    <2>1. j \in D
      OBVIOUS
    <2> HIDE DEF D
    <2> QED BY <1>1, <2>1, FS_RemoveElement
  <1>3. f \in Surjection(E, R)
    <2>1. f \in [E -> R]
      OBVIOUS
    <2>2. \A t \in R : \E n \in E : f[n] = t
      OBVIOUS
    <2> HIDE DEF f, E, R
    <2> QED BY <2>1, <2>2 DEF Surjection
  <1>4. IsFiniteSet(R) /\ Cardinality(R) <= Cardinality(E)
    <2> HIDE DEF f, E, R
    <2> QED BY <1>2, <1>3, FS_Surjection
  <1>5. l \subseteq R
    OBVIOUS
  <1>6. Cardinality(l) <= Cardinality(R) /\ IsFiniteSet(l)
    BY <1>4, <1>5, FS_Subset
  <1>7. Cardinality(R) \in Nat /\ Cardinality(l) \in Nat
    BY <1>4, <1>6, FS_CardinalityType
  <1> HIDE DEF R
  <1> QED BY <1>1, <1>2, <1>4, <1>6, <1>7

(* The script and the processes are left alone. *)
LEMMA ScriptUnchanged ==
    ASSUME ScriptInv, UNCHANGED scriptVars
    PROVE  ScriptInv'
  BY DEF ScriptInv, ScriptTyped, Progress, Stopped, FirstStart, FirstUp, InReactorCycle,
         InGatewayCycle, AllCyclesDone, Distinct, Gone, scriptVars, children

LEMMA ProcessesKeep ==
    ASSUME ScriptInv, Ready \/ ReactorExits \/ GatewayExits \/ Lifecycle \/ GatewayAnswers
    PROVE  ScriptInv'
  <1> USE DEF ScriptInv
  <1>1. CASE Ready \/ ReactorExits \/ GatewayExits
    <2>1. /\ UNCHANGED <<script, at, verdict, tokens, granted, log, reactorCycles, gatewayCycles>>
          /\ reactor' \in Child /\ gateway' \in Child
          /\ gateway.life = "none" => gateway'.life = "none"
      BY <1>1 DEF Ready, ReactorExits, GatewayExits, Others, ScriptTyped, Child, Gone
    <2>2. Gone(reactor) => Gone(reactor')
      BY <1>1 DEF Ready, ReactorExits, GatewayExits, Others, ScriptTyped, Child, Gone
    <2>3. Gone(gateway) => Gone(gateway')
      BY <1>1 DEF Ready, ReactorExits, GatewayExits, Others, ScriptTyped, Child, Gone
    <2>4. ScriptTyped'
      BY <2>1 DEF ScriptTyped
    <2>5. Progress'
      BY <2>1 DEF Progress, FirstStart, FirstUp, InReactorCycle, InGatewayCycle, AllCyclesDone, Distinct
    <2>6. Stopped'
      BY <2>1, <2>2, <2>3 DEF Stopped
    <2> QED BY <2>4, <2>5, <2>6
  <1>2. CASE Lifecycle
    <2>1. /\ UNCHANGED <<script, at, verdict, tokens, granted, reactorCycles, gatewayCycles, reactor, gateway>>
          /\ log' = log \cup {tokens[n] : n \in granted}
      BY <1>2 DEF Lifecycle, Others
    <2>2. ScriptTyped'
      BY <2>1 DEF ScriptTyped
    <2>3. Progress' /\ Stopped'
      BY <2>1 DEF Progress, FirstStart, FirstUp, InReactorCycle, InGatewayCycle, AllCyclesDone,
                  Distinct, Stopped, Gone
    <2> QED BY <2>2, <2>3
  <1>3. CASE GatewayAnswers
    <2>1. /\ UNCHANGED <<script, at, verdict, tokens, log, reactorCycles, gatewayCycles, reactor, gateway>>
          /\ granted' \in {granted, granted \cup {Len(tokens)}}
          /\ gateway.life = "up"
      BY <1>3 DEF GatewayAnswers, children
    <2>2. Len(tokens) \in 1 .. Len(tokens)
      BY <2>1 DEF ScriptTyped
    <2>3. ScriptTyped'
      BY <2>1, <2>2 DEF ScriptTyped
    <2>4. Progress' /\ Stopped'
      BY <2>1 DEF Progress, FirstStart, FirstUp, InReactorCycle, InGatewayCycle, AllCyclesDone,
                  Distinct, Stopped, Gone
    <2> QED BY <2>3, <2>4
  <1> QED BY <1>1, <1>2, <1>3

(* A step that starts no child and ends no cycle: at most it sends a       *)
(* signal.                                                                 *)
Steady ==
    /\ UNCHANGED <<script, tokens, granted, log, reactorCycles, gatewayCycles>>
    /\ \E s, t \in {"none", "SIGINT", "SIGKILL"} :
          /\ reactor' \in {reactor, Signalled(reactor, s)}
          /\ gateway' \in {gateway, Signalled(gateway, t)}

LEMMA SteadyKeeps ==
    ASSUME ScriptTyped, Steady
    PROVE  /\ verdict' \in {"none", "ok", "failed"} => ScriptTyped'
           /\ Gone(reactor) => Gone(reactor')
           /\ Gone(gateway) => Gone(gateway')
  <1>1. /\ reactor \in Child /\ gateway \in Child
        /\ UNCHANGED <<script, tokens, granted, log, reactorCycles, gatewayCycles>>
    BY DEF ScriptTyped, Steady
  <1>2. PICK s, t \in {"none", "SIGINT", "SIGKILL"} :
            /\ reactor' \in {reactor, Signalled(reactor, s)}
            /\ gateway' \in {gateway, Signalled(gateway, t)}
    BY DEF Steady
  <1>3. /\ reactor' \in Child /\ gateway' \in Child
        /\ gateway'.life = gateway.life
    BY <1>1, <1>2, ChildrenTyped
  <1>4. Gone(reactor) => Gone(reactor')
    BY <1>1, <1>2, ChildrenTyped
  <1>5. Gone(gateway) => Gone(gateway')
    BY <1>1, <1>2, ChildrenTyped
  <1> QED BY <1>1, <1>3, <1>4, <1>5 DEF ScriptTyped

(* the cycles are not over, or just done *)
Within == FirstStart \/ FirstUp \/ InReactorCycle \/ InGatewayCycle \/ AllCyclesDone

LEMMA WhileWithin ==
    ASSUME ScriptInv, script = "fault", at \notin Ending
    PROVE  Within /\ verdict = "none"
  BY DEF ScriptInv, Progress, Within, ScriptTyped

LEMMA ThrowsKeeps ==
    ASSUME ScriptInv, script = "fault", Steady, NEW here, here \notin Ending, Throws(here)
    PROVE  ScriptInv'
  <1>1. ScriptTyped' /\ script' = "fault" /\ at' = "finally" /\ verdict' = "failed"
    BY SteadyKeeps DEF ScriptInv, Throws, Steady
  <1>2. Progress' /\ Stopped'
    BY <1>1 DEF Progress, Stopped, Ending
  <1> QED BY <1>1, <1>2 DEF ScriptInv

(* on from one place to another, as long as there is a part of the script  *)
(* with the right counts there                                             *)
LEMMA MovesKeep ==
    ASSUME ScriptInv, script = "fault", script' = "fault", ScriptTyped',
           NEW here, NEW next, From(here, next), here \notin Ending, next \notin Ending, Within'
    PROVE  ScriptInv'
  <1>1. verdict' = "none" /\ at' = next
    BY WhileWithin DEF From
  <1>2. Progress' /\ Stopped'
    BY <1>1 DEF Progress, Stopped, Ending, Within
  <1> QED BY <1>2 DEF ScriptInv

LEMMA SteadyMoves ==
    ASSUME ScriptInv, script = "fault", Steady, NEW here, NEW next, From(here, next),
           here \notin Ending, next \notin Ending, Within'
    PROVE  ScriptInv'
  <1>1. ScriptTyped' /\ script' = "fault"
    BY SteadyKeeps DEF ScriptInv, From, Steady, ScriptTyped
  <1> QED BY <1>1, MovesKeep

(* after the cycles only the children change *)
LEMMA EndingKeeps ==
    ASSUME ScriptInv, script = "fault", Steady, NEW here, NEW next, From(here, next),
           here \in Ending, next \in Ending,
           next \in {"finalReactor", "kill", "over"} => Gone(gateway'),
           next \in {"kill", "over"} => Gone(reactor')
    PROVE  ScriptInv'
  <1>1. /\ ScriptTyped' /\ script' = "fault" /\ at' = next
        /\ UNCHANGED <<verdict, tokens, reactorCycles, gatewayCycles>>
    BY SteadyKeeps DEF ScriptInv, From, Steady, ScriptTyped
  <1>2. Progress'
    BY <1>1 DEF ScriptInv, Progress, Distinct, Ending
  <1>3. Stopped'
    BY <1>1 DEF Stopped, Gone
  <1> QED BY <1>1, <1>2, <1>3 DEF ScriptInv

LEMMA ScriptStepKeeps ==
    ASSUME ScriptInv, ScriptStep
    PROVE  ScriptInv'
  <1> DEFINE n == Len(tokens)
  <1> USE DEF GatewayUp, GatewayDown, ReactorDown, Ending
  <1>1. script = "fault" /\ n \in Nat /\ ScriptTyped /\ Progress /\ Stopped
        /\ reactorCycles \in Nat /\ gatewayCycles \in Nat
    BY DEF ScriptStep, ScriptInv, ScriptTyped
  <1>2. CASE startReactor
    <2>1. /\ From("startReactor", "reactorMarker") /\ reactor' \in Child
          /\ UNCHANGED <<script, verdict, gateway, tokens, granted, log, reactorCycles, gatewayCycles>>
      BY <1>2, ChildrenTyped DEF startReactor, From, rest, cycles
    <2>2. ScriptTyped'
      BY <1>1, <2>1 DEF ScriptTyped
    <2>3. Within'
      BY <1>1, <2>1, WhileWithin DEF From, Within, FirstStart, FirstUp, InReactorCycle, InGatewayCycle,
                                     AllCyclesDone
    <2> QED BY <1>1, <2>1, <2>2, <2>3, MovesKeep
  <1>3. CASE startGateway
    <2>1. PICK t \in Tokens : tokens' = Append(tokens, t)
      BY <1>3 DEF startGateway
    <2>2. /\ From("startGateway", "gatewayMarkers") /\ gateway' \in Child
          /\ UNCHANGED <<script, verdict, reactor, granted, log, reactorCycles, gatewayCycles>>
      BY <1>3, ChildrenTyped DEF startGateway, From, rest, cycles
    <2>3. /\ tokens' \in Seq(Tokens) /\ Len(tokens') = n + 1 /\ tokens' # <<>>
          /\ \A i \in 1 .. n : tokens'[i] = tokens[i]
      BY <1>1, <2>1 DEF ScriptTyped
    <2>4. log' \subseteq {tokens'[i] : i \in 1 .. n + 1}
      <3> SUFFICES ASSUME NEW x \in log PROVE \E i \in 1 .. n + 1 : x = tokens'[i]
        BY <2>2
      <3>1. PICK i \in 1 .. n : x = tokens[i]
        BY <1>1 DEF ScriptTyped
      <3>2. i \in 1 .. n + 1 /\ x = tokens'[i]
        BY <1>1, <2>3, <3>1
      <3> QED BY <3>2
    <2>5. granted' \subseteq 1 .. n + 1
      BY <1>1, <2>2 DEF ScriptTyped
    <2> HIDE DEF n
    <2>6. ScriptTyped'
      BY <1>1, <2>2, <2>3, <2>4, <2>5 DEF ScriptTyped
    <2>7. Within'
      <3>1. (FirstStart /\ n = 0) \/ (InGatewayCycle /\ n = gatewayCycles + 1)
        BY <1>1, <2>2, WhileWithin DEF From, ScriptInv, Within, FirstStart, FirstUp, InReactorCycle,
                                       InGatewayCycle, AllCyclesDone, n
      <3>2. CASE FirstStart /\ n = 0
        BY <2>2, <2>3, <3>2 DEF From, Within, FirstStart, FirstUp
      <3>3. CASE InGatewayCycle /\ n = gatewayCycles + 1
        BY <1>1, <2>2, <2>3, <3>3 DEF From, Within, InGatewayCycle
      <3> QED BY <3>1, <3>2, <3>3
    <2> QED BY <1>1, <2>2, <2>6, <2>7, MovesKeep
  <1>4. CASE waitForMarkers
    <2>1. Steady
      BY <1>4 DEF waitForMarkers, waitForMarker, Steady, rest, cycles, children
    <2>2. CASE Throws("reactorMarker") \/ Throws("gatewayMarkers")
      BY <1>1, <2>1, <2>2, ThrowsKeeps
    <2>3. CASE From("reactorMarker", IF tokens = <<>> THEN "startGateway" ELSE "recover")
      <3>1. Within'
        BY <1>1, <2>1, <2>3, WhileWithin DEF From, Steady, Within, FirstStart, FirstUp, InReactorCycle,
                                             InGatewayCycle, AllCyclesDone, ScriptTyped
      <3>2. CASE tokens = <<>>
        <4>1. From("reactorMarker", "startGateway")
          BY <2>3, <3>2
        <4> QED BY <1>1, <2>1, <3>1, <4>1, SteadyMoves
      <3>3. CASE tokens # <<>>
        <4>1. From("reactorMarker", "recover")
          BY <2>3, <3>3
        <4> QED BY <1>1, <2>1, <3>1, <4>1, SteadyMoves
      <3> QED BY <3>2, <3>3
    <2>4. CASE From("gatewayMarkers", "connect")
      <3>1. Within'
        BY <1>1, <2>1, <2>4, WhileWithin DEF From, Steady, Within, FirstStart, FirstUp, InReactorCycle,
                                             InGatewayCycle, AllCyclesDone
      <3> QED BY <1>1, <2>1, <2>4, <3>1, SteadyMoves
    <2> QED BY <1>4, <2>2, <2>3, <2>4 DEF waitForMarkers, waitForMarker
  <1>5. ASSUME Steady, NEW here, NEW next, From(here, next),
               <<here, next>> \in {<<"connect", "connecting">>, <<"connecting", "login">>,
                   <<"login", "loggingIn">>, <<"loggingIn", "command">>, <<"command", "commanding">>,
                   <<"mustFail", "mustFailing">>, <<"mustFailing", "startReactor">>,
                   <<"recover", "recovering">>, <<"recovering", "recover">>,
                   <<"stopReactor", "reactorStopping">>, <<"reactorStopping", "mustFail">>,
                   <<"stopGateway", "gatewayStopping">>, <<"gatewayStopping", "closing">>,
                   <<"closing", "startGateway">>}
        PROVE  ScriptInv'
    <2>1. Within'
      BY <1>1, <1>5, WhileWithin DEF From, Steady, Within, FirstStart, FirstUp, InReactorCycle,
                                     InGatewayCycle, AllCyclesDone
    <2> QED BY <1>1, <1>5, <2>1, SteadyMoves
  <1>6. CASE connectClient \/ connected \/ asks
    <2>1. Steady
      BY <1>6 DEF connectClient, connected, asks, ask, Steady, rest, cycles, children
    <2>2. CASE Throws("connecting")
      BY <1>1, <2>1, <2>2, ThrowsKeeps
    <2> QED BY <1>5, <1>6, <2>1, <2>2 DEF connectClient, connected, asks, ask
  <1>7. CASE stopReactor
    <2>1. Steady /\ From("stopReactor", "reactorStopping")
      BY <1>7 DEF stopReactor, Steady, rest, cycles
    <2> QED BY <1>5, <2>1
  <1>8. CASE stopGateway
    <2>1. Steady /\ From("stopGateway", "gatewayStopping")
      BY <1>8 DEF stopGateway, Steady, rest, cycles
    <2> QED BY <1>5, <2>1
  <1>9. CASE gatewayClosed
    <2>1. Steady
      BY <1>9 DEF gatewayClosed, Steady, rest, cycles, children
    <2>2. CASE Throws("closing")
      BY <1>1, <2>1, <2>2, ThrowsKeeps
    <2> QED BY <1>5, <1>9, <2>1, <2>2 DEF gatewayClosed
  <1>10. CASE firstToken
    <2>1. Steady
      BY <1>10 DEF firstToken, Steady, rest, cycles, children
    <2>2. CASE Throws("firstToken")
      BY <1>1, <2>1, <2>2, ThrowsKeeps
    <2>3. CASE From("firstToken", NextReactorCycle(0))
      <3>1. NextReactorCycle(0) \in {"stopReactor", "stopGateway", "tokens"}
        BY DEF NextReactorCycle, NextGatewayCycle
      <3>2. Within'
        BY <1>1, <2>1, <2>3, WhileWithin, FaultRecoveryAssumption
           DEF From, Steady, Within, FirstStart, FirstUp, InReactorCycle, InGatewayCycle, AllCyclesDone,
               NextReactorCycle, NextGatewayCycle
      <3> QED BY <1>1, <2>1, <2>3, <3>1, <3>2, SteadyMoves
    <2> QED BY <1>10, <2>2, <2>3 DEF firstToken
  <1>11. CASE answered
    <2>1. UNCHANGED <<script, reactor, gateway, tokens, granted, log>>
      BY <1>11 DEF answered, rest, children
    <2>2. CASE UNCHANGED cycles
      <3>1. Steady
        BY <2>1, <2>2 DEF Steady, cycles
      <3>2. CASE Throws("loggingIn") \/ Throws("commanding") \/ Throws("mustFailing") \/ Throws("recovering")
        BY <1>1, <3>1, <3>2, ThrowsKeeps
      <3>3. CASE Len(tokens) = 1 /\ From("commanding", "firstToken")
        <4>1. Within'
          BY <1>1, <3>1, <3>3, WhileWithin DEF From, Steady, Within, FirstStart, FirstUp, InReactorCycle,
                                               InGatewayCycle, AllCyclesDone
        <4> QED BY <1>1, <3>1, <3>3, <4>1, SteadyMoves
      <3>4. CASE gatewayCycles' = gatewayCycles + 1 \/ reactorCycles' = reactorCycles + 1
        BY <1>1, <2>2, <3>4 DEF cycles
      <3> QED BY <1>5, <1>11, <3>1, <3>2, <3>3, <3>4 DEF answered
    <2>3. CASE /\ Len(tokens) > 1 /\ From("commanding", NextGatewayCycle(gatewayCycles + 1))
               /\ gatewayCycles' = gatewayCycles + 1 /\ UNCHANGED reactorCycles
      <3>1. ScriptTyped' /\ script' = "fault"
        BY <1>1, <2>1, <2>3 DEF ScriptTyped, From
      <3>2. InGatewayCycle /\ n = gatewayCycles + 2
        <4>1. Within /\ at = "commanding" /\ ScriptInv /\ n > 1
          BY <1>1, <2>3, WhileWithin DEF From
        <4>2. ~FirstStart /\ ~InReactorCycle /\ ~AllCyclesDone
          BY <4>1 DEF FirstStart, InReactorCycle, AllCyclesDone
        <4>3. ~FirstUp
          <5>1. FirstUp => n = 1
            BY DEF FirstUp
          <5>2. n \in Nat /\ n > 1
            BY <1>1, <4>1
          <5> HIDE DEF n
          <5> QED BY <5>1, <5>2
        <4>4. InGatewayCycle
          BY <4>1, <4>2, <4>3 DEF Within
        <4> QED BY <4>1, <4>4 DEF InGatewayCycle
      <3>3. Within' /\ NextGatewayCycle(gatewayCycles + 1) \in {"stopGateway", "tokens"}
        BY <1>1, <2>1, <2>3, <3>2, FaultRecoveryAssumption
           DEF From, Within, InGatewayCycle, AllCyclesDone, NextGatewayCycle
      <3> QED BY <1>1, <2>3, <3>1, <3>3, MovesKeep
    <2>4. CASE /\ From("recovering", NextReactorCycle(reactorCycles + 1))
               /\ reactorCycles' = reactorCycles + 1 /\ UNCHANGED gatewayCycles
      <3>1. ScriptTyped' /\ script' = "fault"
        BY <1>1, <2>1, <2>4 DEF ScriptTyped, From
      <3>2. InReactorCycle
        BY <1>1, <2>4, WhileWithin DEF From, Within, FirstStart, FirstUp, InReactorCycle, InGatewayCycle,
                                       AllCyclesDone
      <3>3. Within' /\ NextReactorCycle(reactorCycles + 1) \in {"stopReactor", "stopGateway", "tokens"}
        BY <1>1, <2>1, <2>4, <3>2, FaultRecoveryAssumption
           DEF From, Within, InReactorCycle, InGatewayCycle, AllCyclesDone, NextReactorCycle, NextGatewayCycle
      <3> QED BY <1>1, <2>4, <3>1, <3>3, MovesKeep
    <2> QED BY <1>11, <2>2, <2>3, <2>4 DEF answered
  <1>12. CASE checkTokens
    <2>1. Steady
      BY <1>12 DEF checkTokens, Steady, rest, cycles, children
    <2>2. CASE Throws("tokens")
      BY <1>1, <2>1, <2>2, ThrowsKeeps
    <2>3. CASE /\ Cardinality(log) >= expectedIncarnations
               /\ at = "tokens" /\ at' = "finally" /\ verdict' = "ok"
      <3>1. AllCyclesDone
        BY <1>1, <2>3, WhileWithin DEF Within, FirstStart, FirstUp, InReactorCycle, InGatewayCycle
      <3>2. Cardinality(log) >= Len(tokens)
        BY <2>3, <3>1 DEF AllCyclesDone, expectedIncarnations
      <3>3. tokens \in Seq(Tokens) /\ log \subseteq {tokens[i] : i \in 1 .. Len(tokens)}
        BY <1>1 DEF ScriptTyped
      <3>4. \A i, j \in 1 .. Len(tokens) : i # j => tokens[i] # tokens[j]
        BY <3>2, <3>3, ManyTokens
      <3>5. Distinct
        BY <3>3, <3>4 DEF Distinct
      <3>6. ScriptTyped' /\ UNCHANGED <<script, tokens, reactorCycles, gatewayCycles>>
        BY <1>1, <2>1, <2>3, SteadyKeeps DEF Steady
      <3>7. Progress' /\ Stopped'
        BY <1>1, <2>3, <3>1, <3>5, <3>6 DEF Progress, Stopped, AllCyclesDone, Distinct
      <3> QED BY <3>6, <3>7 DEF ScriptInv
    <2> QED BY <1>12, <2>2, <2>3 DEF checkTokens
  <1>13. CASE finally
    <2>1. Steady /\ From("finally", "finalGateway")
      BY <1>13 DEF finally, Steady, rest, cycles
    <2> QED BY <1>1, <2>1, EndingKeeps
  <1>14. CASE killChildren
    <2>1. Steady /\ From("kill", "over")
      BY <1>14 DEF killChildren, Steady, rest, cycles
    <2>2. Gone(gateway') /\ Gone(reactor')
      BY <1>1, <2>1, SteadyKeeps DEF Stopped, From
    <2> QED BY <1>1, <2>1, <2>2, EndingKeeps
  <1>15. CASE stopped
    <2>1. Steady
      BY <1>15 DEF stopped, Steady, rest, cycles
    <2>2. CASE From("reactorStopping", "mustFail") \/ From("gatewayStopping", "closing")
      BY <1>5, <2>1, <2>2
    <2>3. CASE Gone(gateway) /\ From("finalGateway", "finalReactor")
      <3>1. Gone(gateway')
        BY <1>1, <2>1, <2>3, SteadyKeeps
      <3> QED BY <1>1, <2>1, <2>3, <3>1, EndingKeeps
    <2>4. CASE Gone(reactor) /\ From("finalReactor", "kill")
      <3>1. Gone(gateway') /\ Gone(reactor')
        BY <1>1, <2>1, <2>4, SteadyKeeps DEF Stopped, From
      <3> QED BY <1>1, <2>1, <2>4, <3>1, EndingKeeps
    <2> QED BY <1>15, <2>2, <2>3, <2>4 DEF stopped
  <1>16. CASE escalate
    <2>1. Steady /\ UNCHANGED <<at, verdict>>
      BY <1>16 DEF escalate, Steady, rest, cycles
    <2>2. /\ ScriptTyped'
          /\ UNCHANGED <<script, tokens, reactorCycles, gatewayCycles>>
          /\ Gone(gateway) => Gone(gateway')
      BY <1>1, <2>1, SteadyKeeps DEF ScriptTyped, Steady
    <2>3. Gone(reactor) => Gone(reactor')
      BY <1>1, <2>1, SteadyKeeps
    <2>4. Progress'
      BY <1>1, <2>1, <2>2 DEF Progress, Distinct, FirstStart, FirstUp, InReactorCycle, InGatewayCycle,
                              AllCyclesDone
    <2>5. Stopped'
      BY <1>1, <2>1, <2>2, <2>3 DEF Stopped
    <2> QED BY <2>2, <2>4, <2>5 DEF ScriptInv
  <1> QED
    BY <1>2, <1>3, <1>4, <1>6, <1>7, <1>8, <1>9, <1>10, <1>11, <1>12, <1>13, <1>14, <1>15, <1>16
       DEF ScriptStep

(* The script's invariant: at every place the number of incarnations and   *)
(* of cycles done, the log no more than the tokens of incarnations that    *)
(* let the user in, and the children down at the end.                      *)
THEOREM ScriptInvariant == Spec => []ScriptInv
  <1>1. ScriptInv /\ [Next]_vars => ScriptInv'
    <2> SUFFICES ASSUME ScriptInv, [Next]_vars PROVE ScriptInv'
      OBVIOUS
    <2>1. CASE UNCHANGED scriptVars
      BY <2>1, ScriptUnchanged
    <2>2. CASE ScriptStep
      BY <2>2, ScriptStepKeeps
    <2>3. CASE Ready \/ ReactorExits \/ GatewayExits \/ Lifecycle \/ GatewayAnswers
      BY <2>3, ProcessesKeep
    <2>4. CASE AnyScript
      BY <2>4, ScriptUnchanged DEF AnyScript
    <2> QED BY <2>1, <2>2, <2>3, <2>4 DEF Next, vars
  <1> QED BY <1>1, ScriptInit, PTL DEF Spec

(* ok is said only of distinct tokens and after all cycles, and nothing is *)
(* left running (the verdict and the finally block of the script), for     *)
(* every number of cycles.                                                 *)
THEOREM VerdictHonest == Spec => []HonestVerdict
  <1>1. ScriptInv => HonestVerdict
    BY DEF ScriptInv, Progress, Stopped, Distinct, HonestVerdict
  <1> QED BY <1>1, ScriptInvariant, PTL

(* The state of the client, the script and the two processes is well typed. *)
THEOREM FaultRecoveryTyped == Spec => []TypeOK
  <1>1. ClientInv /\ ScriptInv => TypeOK
    <2> SUFFICES ASSUME ClientInv, ScriptInv PROVE TypeOK
      OBVIOUS
    <2>1. log \subseteq Tokens
      BY DEF ScriptInv, ScriptTyped
    <2> QED BY <2>1 DEF ClientInv, ClientTyped, ScriptInv, ScriptTyped, TypeOK, Child
  <1> QED BY <1>1, ClientInvariant, ScriptInvariant, PTL
=============================================================================
