-------------------------- MODULE WssSessionProofs ---------------------------
(***************************************************************************)
(* Proofs about WssSession: its typing, that every caller is accounted     *)
(* for, that an answer is what was sent, that the events of the page are   *)
(* the pushes in order, and that a session ends once, for any number of    *)
(* streams, records and pieces.                                            *)
(***************************************************************************)
EXTENDS WssSession, SequenceTheorems, TLAPS

(***************************************************************************)
(* The inductive invariant                                                 *)
(***************************************************************************)
(* how far the socket is, and what the status says of it *)
Life ==
    /\ opening.state = "none" => socket = "none"
    /\ socket = "none" => opening.state = "none"
    /\ socket = "connecting" => opening.state = "waiting"
    /\ opening.timer => socket = "connecting"
    /\ status.connected => status.closedBy = "nobody"
    /\ status.closedBy # "nobody" => opening.state = "resolved"
    /\ status.connected <=> socket = "open" /\ opening.state = "resolved"
    /\ ~status.connected => pending = {} /\ \A p \in PushStreams : pushes[p] = <<>>

(* CallsAccounted and AnswersIntact, with the exchanges not begun yet *)
Calls ==
    /\ timers = pending
    /\ pending \subseteq Waiting
    /\ Waiting \ pending \subseteq Undecodable
    /\ AnswersIntact
    /\ \A c \in ClientStreams \ pending : chunks[c] = <<>>
    /\ \A c \in ClientStreams : nextStream <= c =>
           call[c].state = "none" /\ call[c].answer = NoFrame /\ sent[c] = <<>> /\ c \notin ended

(* the ids of stream records on their way are those of streams, or 2 *)
Inbox ==
    \A i \in DOMAIN inbox :
        inbox[i].type = "stream" => inbox[i].id \in Streams \cup {2}

(* got[i][c]: what the records before the i-th one carried of stream c.    *)
(* A FIN is the last of its stream.                                        *)
Flows(got) ==
    /\ got[Len(inbox) + 1] = [c \in ClientStreams |-> sent[c]]
    /\ \A c \in pending : chunks[c] = got[1][c]
    /\ \A i \in 1 .. Len(inbox), c \in ClientStreams :
           /\ got[i + 1][c] = IF inbox[i].type = "stream" /\ inbox[i].id = c
                              THEN got[i][c] \o inbox[i].payload ELSE got[i][c]
           /\ (inbox[i].type = "stream" /\ inbox[i].id = c /\ inbox[i].fin) =>
                  c \in ended /\ got[i + 1][c] = sent[c]
    /\ \A i \in 1 .. Len(inbox) + 1, c \in ClientStreams :
           nextStream <= c => got[i][c] = <<>>

Flow == \E got \in [1 .. Len(inbox) + 1 -> [ClientStreams -> Seq(Piece)]] : Flows(got)

Inv == TypeOK /\ Life /\ Calls /\ Inbox /\ Flow

(***************************************************************************)
(* Streams and bytes                                                       *)
(***************************************************************************)
(* client streams are the multiples of four, push streams are one more *)
LEMMA StreamIds ==
    /\ ClientStreams \subseteq Nat /\ PushStreams \subseteq Nat
    /\ \A c \in ClientStreams : c % 4 = 0
    /\ \A p \in PushStreams : p % 4 = 1
    /\ \A p \in PushStreams : p \notin ClientStreams
    /\ 2 \notin Streams
<1>1. ClientStreams \subseteq Nat /\ \A c \in ClientStreams : c % 4 = 0
  BY WssSessionAssumption DEF ClientStreams
<1>2. PushStreams \subseteq Nat /\ \A p \in PushStreams : p % 4 = 1
  BY WssSessionAssumption DEF PushStreams
<1>3. 2 % 4 = 2 /\ 0 # 1 OBVIOUS
<1> QED BY <1>1, <1>2, <1>3 DEF Streams

(* bytes that decode to one frame are the bytes of that frame *)
LEMMA OneFrame ==
    ASSUME NEW bytes \in Seq(Piece), Decodable(bytes), Len(decodeFrames(bytes)) = 1
    PROVE  decodeFrames(bytes)[1] \in Frame /\ bytes = Bytes(decodeFrames(bytes)[1])
<1>1. Len(bytes) \in Nat /\ Len(bytes) % 2 = 0 /\ Len(bytes) \div 2 \in Nat
  BY DEF Decodable
<1>2. Len(decodeFrames(bytes)) = Len(bytes) \div 2
  BY <1>1 DEF decodeFrames
<1>3. Len(bytes) = 2
  <2>1. \A n \in Nat : n % 2 = 0 /\ n \div 2 = 1 => n = 2 OBVIOUS
  <2> QED BY <1>1, <1>2, <2>1
<1>4. /\ bytes[1] \in Piece /\ bytes[2] \in Piece
      /\ bytes[1].part = "header" /\ bytes[2] = BodyOf(bytes[1].frame)
  <2>1. 1 \in 1 .. Len(bytes) \div 2
    BY <1>3
  <2>2. bytes[2*1 - 1].part = "header" /\ bytes[2*1] = BodyOf(bytes[2*1 - 1].frame)
    BY <2>1 DEF Decodable
  <2>3. 2*1 - 1 = 1 /\ 2*1 = 2
    OBVIOUS
  <2>4. bytes[1].part = "header" /\ bytes[2] = BodyOf(bytes[1].frame)
    BY ONLY <2>2, <2>3
  <2> QED BY <1>3, <2>4
<1>5. decodeFrames(bytes)[1] = bytes[1].frame
  <2>1. 1 \in 1 .. Len(bytes) \div 2 /\ 2*1 - 1 = 1 BY <1>3
  <2> QED BY <2>1 DEF decodeFrames
<1>6. bytes[1].frame \in Frame /\ bytes[1] = HeaderOf(bytes[1].frame)
  BY <1>4 DEF Piece, HeaderOf
<1>7. bytes = <<bytes[1], bytes[2]>>
  BY <1>3
<1> QED BY <1>4, <1>5, <1>6, <1>7 DEF Bytes

(***************************************************************************)
(* Flow, step by step                                                      *)
(***************************************************************************)
(* nothing is received; exchanges may leave *)
LEMMA FlowKept ==
    ASSUME Flow, UNCHANGED <<inbox, sent, ended, done, nextStream>>,
           pending' \subseteq pending, \A c \in pending' : chunks'[c] = chunks[c]
    PROVE  Flow'
<1>1. PICK got \in [1 .. Len(inbox) + 1 -> [ClientStreams -> Seq(Piece)]] : Flows(got)
  BY DEF Flow
<1>2. Flows(got)'
  BY <1>1 DEF Flows
<1> QED BY <1>2 DEF Flow

(* the record at the front is received *)
LEMMA FlowTaken ==
    ASSUME TypeOK, Flow, inbox # <<>>, inbox' = Tail(inbox),
           UNCHANGED <<sent, ended, done, nextStream>>, pending' \subseteq pending,
           \A c \in pending' :
               chunks'[c] = IF Head(inbox).type = "stream" /\ Head(inbox).id = c
                            THEN chunks[c] \o Head(inbox).payload ELSE chunks[c]
    PROVE  Flow'
<1> DEFINE n == Len(inbox)
<1>1. PICK got \in [1 .. n + 1 -> [ClientStreams -> Seq(Piece)]] : Flows(got)
  BY DEF Flow
<1>2. /\ inbox \in Seq(Record) /\ n \in Nat \ {0} /\ Len(inbox') = n - 1
      /\ inbox[1] = Head(inbox)
      /\ \A i \in 1 .. n - 1 : inbox'[i] = inbox[i + 1]
  BY DEF TypeOK
<1>3. PICK next \in [1 .. Len(inbox') + 1 -> [ClientStreams -> Seq(Piece)]] :
        \A i \in 1 .. n : next[i] = got[i + 1]
  <2> DEFINE shifted == [i \in 1 .. Len(inbox') + 1 |-> got[i + 1]]
  <2>1. shifted \in [1 .. Len(inbox') + 1 -> [ClientStreams -> Seq(Piece)]]
    BY <1>1, <1>2
  <2>2. \A i \in 1 .. n : shifted[i] = got[i + 1]
    BY <1>2
  <2> QED BY <2>1, <2>2
<1>4. next[Len(inbox') + 1] = [c \in ClientStreams |-> sent'[c]]
  <2>1. got[n + 1] = [c \in ClientStreams |-> sent[c]]
    BY <1>1 DEF Flows
  <2>2. Len(inbox') + 1 = n /\ n \in 1 .. n
    BY <1>2
  <2>3. next[Len(inbox') + 1] = got[n + 1]
    BY <1>3, <2>2
  <2> QED BY <2>1, <2>3
<1>5. ASSUME NEW c \in pending' PROVE chunks'[c] = next[1][c]
  <2>1. c \in ClientStreams /\ 1 \in 1 .. n /\ next[1] = got[1 + 1]
    <3>1. 1 \in 1 .. n /\ next[1] = got[1 + 1]
      BY <1>2, <1>3
    <3> QED BY <3>1 DEF TypeOK
  <2>2. got[1 + 1][c] = IF inbox[1].type = "stream" /\ inbox[1].id = c
                        THEN got[1][c] \o inbox[1].payload ELSE got[1][c]
    BY <1>1, <2>1 DEF Flows
  <2>3. chunks[c] = got[1][c]
    BY <1>1 DEF Flows
  <2> QED BY <1>2, <2>1, <2>2, <2>3
<1>6. ASSUME NEW i \in 1 .. Len(inbox'), NEW c \in ClientStreams
      PROVE  /\ next[i + 1][c] = IF inbox'[i].type = "stream" /\ inbox'[i].id = c
                                 THEN next[i][c] \o inbox'[i].payload ELSE next[i][c]
             /\ (inbox'[i].type = "stream" /\ inbox'[i].id = c /\ inbox'[i].fin) =>
                    c \in ended' /\ next[i + 1][c] = sent'[c]
  <2>1. i + 1 \in 1 .. n /\ inbox'[i] = inbox[i + 1] BY <1>2
  <2>2. next[i] = got[i + 1] /\ next[i + 1] = got[(i + 1) + 1] BY <1>2, <1>3
  <2>3. ended' = ended OBVIOUS
  <2> QED BY <1>1, <2>1, <2>2, <2>3 DEF Flows
<1>7. ASSUME NEW i \in 1 .. Len(inbox') + 1, NEW c \in ClientStreams, nextStream' <= c
      PROVE  next[i][c] = <<>>
  <2>1. i + 1 \in 1 .. n + 1 /\ next[i] = got[i + 1]
    BY <1>2, <1>3
  <2>2. \A k \in 1 .. n + 1 : got[k][c] = <<>>
    BY <1>1, <1>7 DEF Flows
  <2> QED BY <2>1, <2>2
<1> HIDE DEF n
<1>8. Flows(next)'
  BY <1>4, <1>5, <1>6, <1>7 DEF Flows
<1> QED BY <1>3, <1>8 DEF Flow

(* a FIN completes what was sent *)
LEMMA FlowEnds ==
    ASSUME TypeOK, Flow, inbox # <<>>, Head(inbox).type = "stream",
           Head(inbox).id \in pending, Head(inbox).fin
    PROVE  /\ chunks[Head(inbox).id] \o Head(inbox).payload = sent[Head(inbox).id]
           /\ Head(inbox).id \in ended
<1> DEFINE c == Head(inbox).id
<1>1. PICK got \in [1 .. Len(inbox) + 1 -> [ClientStreams -> Seq(Piece)]] : Flows(got)
  BY DEF Flow
<1>2. /\ 1 \in 1 .. Len(inbox) /\ c \in ClientStreams
      /\ inbox[1].type = "stream" /\ inbox[1].id = c /\ inbox[1].fin
      /\ inbox[1].payload = Head(inbox).payload
  BY DEF TypeOK
<1> HIDE DEF c
<1>3. /\ got[1 + 1][c] = got[1][c] \o inbox[1].payload
      /\ c \in ended /\ got[1 + 1][c] = sent[c]
  BY <1>1, <1>2 DEF Flows
<1>4. chunks[c] = got[1][c]
  BY <1>1 DEF Flows, c
<1> QED BY <1>2, <1>3, <1>4 DEF c

(* the inbox is dropped when nobody waits *)
LEMMA FlowDropped ==
    ASSUME TypeOK, Flow, inbox' = <<>>, UNCHANGED <<sent, ended, done, nextStream>>, pending' = {},
           \A c \in ClientStreams : nextStream <= c => sent[c] = <<>>
    PROVE  Flow'
<1> DEFINE next == [i \in 1 .. 1 |-> [c \in ClientStreams |-> sent[c]]]
<1>1. Len(inbox') = 0 /\ 1 .. 0 + 1 = 1 .. 1
  OBVIOUS
<1>2. next \in [1 .. Len(inbox') + 1 -> [ClientStreams -> Seq(Piece)]]
  BY <1>1 DEF TypeOK, Streams
<1>3. Flows(next)'
  BY <1>1 DEF Flows
<1> QED BY <1>2, <1>3 DEF Flow

(* an exchange is begun *)
LEMMA FlowBegun ==
    ASSUME TypeOK, Flow, UNCHANGED <<inbox, sent, ended, done, chunks>>,
           nextStream \in ClientStreams, nextStream' = nextStream + 4,
           pending' = pending \cup {nextStream}, chunks[nextStream] = <<>>
    PROVE  Flow'
<1>1. PICK got \in [1 .. Len(inbox) + 1 -> [ClientStreams -> Seq(Piece)]] : Flows(got)
  BY DEF Flow
<1>2. 1 \in 1 .. Len(inbox) + 1 /\ ClientStreams \subseteq Nat
  BY StreamIds DEF TypeOK
<1>3. got[1][nextStream] = <<>>
  BY <1>1, <1>2 DEF Flows
<1>4. \A c \in ClientStreams : nextStream' <= c => nextStream <= c
  BY <1>2
<1>5. Flows(got)'
  BY <1>1, <1>3, <1>4 DEF Flows
<1> QED BY <1>5 DEF Flow

(***************************************************************************)
(* What the gateway sends                                                  *)
(***************************************************************************)
(* a record the gateway may send: stream data on a stream it has not       *)
(* ended, or some on the odd id 2; anything else carries nothing           *)
Sendable(r) ==
    /\ r \in Record
    /\ r.type = "stream" => r.id \in Usable \ ended \/ (r.id = 2 /\ ~r.fin)
    /\ r.type # "stream" => r.payload = <<>> /\ ~r.fin

(* what one record changes on the streams *)
LEMMA Sending ==
    ASSUME TypeOK, NEW r, Sendable(r), GatewaySends(r)
    PROVE  /\ \A s \in Streams :
                  sent'[s] = IF r.type = "stream" /\ r.id = s THEN sent[s] \o r.payload ELSE sent[s]
           /\ sent' \in [Streams -> Seq(Piece)]
           /\ done' \in Seq(PushStreams)
           /\ ended \subseteq ended' /\ ended' \subseteq Streams
           /\ (r.type = "stream" /\ r.id \in Streams /\ r.fin) => r.id \in ended'
           /\ \A s \in ended' \ ended : s \in Usable
<1>1. r.payload \in Seq(Piece) /\ r.fin \in BOOLEAN
  BY DEF Sendable, Record
<1>2. \A s \in Streams : sent[s] \in Seq(Piece) /\ sent[s] \o <<>> = sent[s]
  BY DEF TypeOK
<1>3. \A s \in Streams :
          sent'[s] = IF r.type = "stream" /\ r.id = s THEN sent[s] \o r.payload ELSE sent[s]
  BY <1>2 DEF GatewaySends, Sendable
<1>4. sent' \in [Streams -> Seq(Piece)]
  <2>1. \A s \in Streams : sent[s] \o r.payload \in Seq(Piece)
    BY <1>1, <1>2
  <2> QED BY <1>2, <2>1 DEF GatewaySends
<1>5. r.fin => r.type = "stream" /\ r.id \in Usable \ ended
  BY <1>1 DEF Sendable
<1>6. ended' = IF r.fin THEN ended \cup {r.id} ELSE ended
  BY DEF GatewaySends
<1>7. done' \in Seq(PushStreams)
  BY DEF GatewaySends, TypeOK
<1> QED BY <1>3, <1>4, <1>5, <1>6, <1>7 DEF TypeOK, Usable

(* a record is on its way *)
LEMMA FlowSent ==
    ASSUME TypeOK, Calls, Flow, NEW r, Sendable(r), GatewaySends(r)
    PROVE  Flow'
<1> DEFINE n == Len(inbox)
<1>1. PICK got \in [1 .. n + 1 -> [ClientStreams -> Seq(Piece)]] : Flows(got)
  BY DEF Flow
<1>2. /\ inbox \in Seq(Record) /\ n \in Nat /\ Len(inbox') = n + 1
      /\ inbox'[n + 1] = r
      /\ \A i \in 1 .. n : inbox'[i] = inbox[i]
  BY DEF TypeOK, GatewaySends, Sendable
<1>3. /\ \A c \in ClientStreams :
             sent'[c] = IF r.type = "stream" /\ r.id = c THEN sent[c] \o r.payload ELSE sent[c]
      /\ [c \in ClientStreams |-> sent'[c]] \in [ClientStreams -> Seq(Piece)]
      /\ ended \subseteq ended'
      /\ \A c \in ClientStreams : (r.type = "stream" /\ r.id = c /\ r.fin) => c \in ended'
  BY Sending DEF Streams
<1>4. \A c \in ClientStreams \cap ended : sent'[c] = sent[c]
  BY <1>3, StreamIds DEF Sendable, Streams
<1>5. \A c \in ClientStreams : nextStream <= c => sent'[c] = <<>>
  <2>1. \A c \in ClientStreams : nextStream <= c => c \notin Usable /\ c # 2
    BY StreamIds DEF Usable, TypeOK, Streams
  <2> QED BY <1>3, <2>1 DEF Calls, Sendable
<1>6. PICK next \in [1 .. Len(inbox') + 1 -> [ClientStreams -> Seq(Piece)]] :
        /\ \A i \in 1 .. n + 1 : next[i] = got[i]
        /\ next[n + 2] = [c \in ClientStreams |-> sent'[c]]
  <2> DEFINE longer == [i \in 1 .. n + 2 |-> IF i = n + 2 THEN [c \in ClientStreams |-> sent'[c]]
                                             ELSE got[i]]
  <2>1. longer \in [1 .. Len(inbox') + 1 -> [ClientStreams -> Seq(Piece)]]
    BY <1>1, <1>2, <1>3
  <2>2. (\A i \in 1 .. n + 1 : longer[i] = got[i])
        /\ longer[n + 2] = [c \in ClientStreams |-> sent'[c]]
    BY <1>2
  <2> HIDE DEF longer
  <2> QED BY <2>1, <2>2
<1>7. next[Len(inbox') + 1] = [c \in ClientStreams |-> sent'[c]]
  BY <1>2, <1>6
<1>8. \A c \in pending' : chunks'[c] = next[1][c]
  BY <1>1, <1>2, <1>6 DEF Flows, GatewaySends, callVars
<1>9. ASSUME NEW i \in 1 .. Len(inbox'), NEW c \in ClientStreams
      PROVE  /\ next[i + 1][c] = IF inbox'[i].type = "stream" /\ inbox'[i].id = c
                                 THEN next[i][c] \o inbox'[i].payload ELSE next[i][c]
             /\ (inbox'[i].type = "stream" /\ inbox'[i].id = c /\ inbox'[i].fin) =>
                    c \in ended' /\ next[i + 1][c] = sent'[c]
  <2>1. CASE i \in 1 .. n
    <3>1. next[i] = got[i] /\ next[i + 1] = got[i + 1] /\ inbox'[i] = inbox[i]
      BY <1>2, <1>6, <2>1
    <3>2. /\ got[i + 1][c] = IF inbox[i].type = "stream" /\ inbox[i].id = c
                             THEN got[i][c] \o inbox[i].payload ELSE got[i][c]
          /\ (inbox[i].type = "stream" /\ inbox[i].id = c /\ inbox[i].fin) =>
                 c \in ended /\ got[i + 1][c] = sent[c]
      BY <1>1, <2>1 DEF Flows
    <3> QED BY <1>3, <1>4, <3>1, <3>2
  <2>2. CASE i = n + 1
    <3>1. next[i] = got[n + 1] /\ inbox'[i] = r /\ next[i + 1] = [d \in ClientStreams |-> sent'[d]]
      BY <1>2, <1>6, <2>2
    <3>2. got[n + 1] = [d \in ClientStreams |-> sent[d]]
      BY <1>1 DEF Flows
    <3> QED BY <1>3, <3>1, <3>2
  <2> QED BY <1>2, <2>1, <2>2
<1>10. \A i \in 1 .. Len(inbox') + 1, c \in ClientStreams : nextStream' <= c => next[i][c] = <<>>
  <2>1. nextStream' = nextStream
    BY DEF GatewaySends, callVars
  <2>2. \A i \in 1 .. n + 1, c \in ClientStreams : nextStream <= c => got[i][c] = <<>>
    BY <1>1 DEF Flows
  <2>3. \A i \in 1 .. Len(inbox') + 1 : i \in 1 .. n + 1 \/ i = n + 2
    BY <1>2
  <2> QED BY <1>5, <1>6, <2>1, <2>2, <2>3
<1> HIDE DEF n
<1>11. Flows(next)'
  BY <1>7, <1>8, <1>9, <1>10 DEF Flows
<1> QED BY <1>6, <1>11 DEF Flow

(***************************************************************************)
(* The initial state, and steps outside handleMessage                      *)
(***************************************************************************)
LEMMA InitInv == Init => Inv
<1> SUFFICES ASSUME Init PROVE Inv
  OBVIOUS
<1>1. 0 \in Nat /\ <<>> \in Seq(Piece) /\ <<>> \in Seq(PushStreams) /\ <<>> \in Seq(Record)
      /\ <<>> \in Seq([seq : Nat, push : PushStreams, frame : Frame])
  OBVIOUS
<1>2. TypeOK
  BY <1>1 DEF Init, TypeOK, Call
<1>3. Life
  BY DEF Init, Life
<1>4. Calls
  BY DEF Init, Calls, Waiting, AnswersIntact, Streams
<1>5. Inbox
  BY DEF Init, Inbox
<1>6. Flow
  <2> DEFINE got == [i \in 1 .. 1 |-> [c \in ClientStreams |-> <<>>]]
  <2>1. Len(inbox) = 0 /\ 1 .. 0 + 1 = 1 .. 1
    BY DEF Init
  <2>2. got \in [1 .. Len(inbox) + 1 -> [ClientStreams -> Seq(Piece)]]
    BY <1>1, <2>1
  <2>3. Flows(got)
    BY <2>1 DEF Flows, Init, Streams
  <2> QED BY <2>2, <2>3 DEF Flow
<1> QED BY <1>2, <1>3, <1>4, <1>5, <1>6 DEF Inv

(* a change of the socket, the status or the handlers alone *)
LEMMA CallsKept ==
    ASSUME Calls, UNCHANGED <<callVars, sent, ended, done>>
    PROVE  Calls'
BY DEF Calls, callVars, Waiting, Undecodable, AnswersIntact

LEMMA ConnectInv ==
    ASSUME Inv,
           \/ connect \/ connectTimeout \/ onConnectError \/ subscribe
           \/ \E protocol \in {"lyune.v2", ""} : onOpen(protocol)
    PROVE  Inv'
<1> DEFINE ConnectStep ==
      /\ UNCHANGED <<callVars, pushVars, inbox, gatewayVars>> /\ handlers' \in BOOLEAN
      /\ socket' \in {"none", "connecting", "open", "closing", "closed"}
      /\ opening' \in [state : {"none", "waiting", "unconfirmed", "resolved", "rejected"},
                       timer : BOOLEAN]
      /\ status' \in [connected : BOOLEAN, closedBy : {"nobody", "user", "peer"}, told : Nat]
      /\ Life'
<1> USE DEF callVars, pushVars, gatewayVars, Inv, TypeOK, Life
<1>1. ConnectStep
  <2>1. CASE connect
    BY <2>1 DEF connect, connectVars
  <2>2. CASE connectTimeout
    BY <2>2 DEF connectTimeout, connectVars
  <2>3. CASE onConnectError
    BY <2>3 DEF onConnectError, connectVars
  <2>4. CASE subscribe
    BY <2>4 DEF subscribe
  <2>5. ASSUME NEW protocol, onOpen(protocol) PROVE ConnectStep
    BY <2>5 DEF onOpen, connectVars
  <2> QED BY <2>1, <2>2, <2>3, <2>4, <2>5
<1>3. TypeOK'
  BY <1>1
<1>4. Life'
  BY <1>1
<1>5. Calls'
  BY <1>1, CallsKept
<1>6. Inbox'
  BY <1>1 DEF Inbox
<1>7. Flow'
  BY <1>1, FlowKept
<1> QED BY <1>3, <1>4, <1>5, <1>6, <1>7

(* call, with the exchanges in failing rejected *)
LEMMA RejectedCalls ==
    ASSUME TypeOK, NEW failing
    PROVE  /\ Rejected(failing) \in [ClientStreams -> Call]
           /\ \A c \in ClientStreams :
                  /\ Rejected(failing)[c].answer = call[c].answer
                  /\ Rejected(failing)[c].op = call[c].op
                  /\ Rejected(failing)[c].state = IF c \in failing THEN "failed" ELSE call[c].state
<1>1. \A r \in Call : LET f == [r EXCEPT !.state = "failed"]
                      IN  f \in Call /\ f.answer = r.answer /\ f.op = r.op /\ f.state = "failed"
  BY DEF Call
<1> QED BY <1>1 DEF Rejected, TypeOK

(* handleClose rejects every exchange that is pending; callers whose       *)
(* answer did not decode go on waiting                                     *)
LEMMA Closing ==
    ASSUME Inv, NEW reason \in {"user", "peer"},
           handleClose(reason), UNCHANGED <<nextStream, opening, sent, ended, done>>,
           socket \notin {"none", "connecting"}, socket' \in {"closing", "closed"}
    PROVE  /\ Life' /\ Calls'
           /\ pending' = {} /\ timers' \subseteq ClientStreams
           /\ chunks' \in [ClientStreams -> Seq(Piece)]
           /\ call' \in [ClientStreams -> Call]
           /\ status' \in [connected : BOOLEAN, closedBy : {"nobody", "user", "peer"}, told : Nat]
           /\ pushes' \in [PushStreams -> Seq(Piece)]
<1>1. CASE AlreadyClosed
  <2>1. UNCHANGED <<status, pending, timers, chunks, call, pushes>> /\ ~status.connected
    BY <1>1 DEF handleClose, AlreadyClosed
  <2>2. pending' = {}
    BY <2>1 DEF Inv, Life
  <2>3. Life'
    BY <2>1 DEF Inv, Life
  <2>4. Calls'
    BY <2>1 DEF Inv, Calls, Waiting, Undecodable, AnswersIntact
  <2> QED BY <2>1, <2>2, <2>3, <2>4 DEF Inv, TypeOK
<1>2. CASE ~AlreadyClosed
  <2>1. /\ status.connected /\ status.closedBy = "nobody" /\ opening.state = "resolved"
        /\ Waiting \ pending \subseteq Undecodable
    BY <1>2 DEF AlreadyClosed, Inv, Life, Calls
  <2>2. /\ status' = [connected |-> FALSE, closedBy |-> reason,
                      told |-> IF handlers THEN status.told + 1 ELSE status.told]
        /\ pending' = {} /\ timers' = timers \ pending
        /\ chunks' = [c \in ClientStreams |-> <<>>]
        /\ call' = Rejected(pending)
        /\ pushes' = [p \in PushStreams |-> <<>>]
    BY <1>2 DEF handleClose
  <2>3. <<>> \in Seq(Piece)
    OBVIOUS
  <2>4. /\ chunks' \in [ClientStreams -> Seq(Piece)] /\ pushes' \in [PushStreams -> Seq(Piece)]
        /\ status' \in [connected : BOOLEAN, closedBy : {"nobody", "user", "peer"}, told : Nat]
        /\ timers' = {}
    BY <2>2, <2>3 DEF Inv, TypeOK, Calls
  <2>5. /\ call' \in [ClientStreams -> Call]
        /\ \A c \in ClientStreams :
               /\ call'[c].answer = call[c].answer /\ call'[c].op = call[c].op
               /\ call'[c].state = IF c \in pending THEN "failed" ELSE call[c].state
    BY <2>2, RejectedCalls DEF Inv
  <2>6. Life'
    <3>1. opening.timer = FALSE
      BY DEF Inv, Life, TypeOK
    <3>2. /\ status'.connected = FALSE /\ pending' = {}
          /\ \A p \in PushStreams : pushes'[p] = <<>>
      BY <2>2
    <3> QED BY <2>1, <3>1, <3>2 DEF Inv, Life
  <2>7. Waiting' = Waiting \ pending
    BY <2>5 DEF Waiting
  <2>8. Calls'
    <3>1. Waiting' \ pending' \subseteq Undecodable'
      BY <2>1, <2>5, <2>7 DEF Undecodable
    <3>2. /\ AnswersIntact'
          /\ \A c \in ClientStreams : nextStream <= c =>
                 call'[c].state = "none" /\ call'[c].answer = NoFrame /\ sent[c] = <<>> /\ c \notin ended
      BY <2>1, <2>5 DEF Inv, Calls, AnswersIntact, Waiting
    <3> QED BY <2>2, <2>4, <3>1, <3>2 DEF Calls
  <2> QED BY <2>2, <2>4, <2>5, <2>6, <2>8
<1> QED BY <1>1, <1>2

LEMMA CloseInv ==
    ASSUME Inv, close \/ onClose
    PROVE  Inv'
<1>1. /\ UNCHANGED <<nextStream, authenticated, pushSequence, seen, opening, handlers, gatewayVars>>
      /\ socket \notin {"none", "connecting"} /\ socket' \in {"closing", "closed"}
      /\ \E reason \in {"user", "peer"} : handleClose(reason)
      /\ inbox' = inbox \/ inbox' = <<>>
  BY DEF close, onClose, closeVars, Inv, TypeOK, Life
<1>2. /\ Life' /\ Calls'
      /\ pending' = {} /\ timers' \subseteq ClientStreams
      /\ chunks' \in [ClientStreams -> Seq(Piece)]
      /\ call' \in [ClientStreams -> Call]
      /\ status' \in [connected : BOOLEAN,
                      closedBy : {"nobody", "user", "peer"}, told : Nat]
      /\ pushes' \in [PushStreams -> Seq(Piece)]
  BY <1>1, Closing DEF gatewayVars
<1>3. inbox' \in Seq(Record)
  <2>1. <<>> \in Seq(Record) /\ inbox \in Seq(Record)
    BY DEF Inv, TypeOK
  <2> QED BY <1>1, <2>1
<1>4. TypeOK'
  BY <1>1, <1>2, <1>3 DEF Inv, TypeOK, gatewayVars
<1>5. Inbox'
  BY <1>1 DEF Inv, Inbox
<1>6. Flow'
  <2>1. CASE inbox' = inbox
    BY <1>1, <1>2, <2>1, FlowKept DEF Inv, gatewayVars
  <2>2. CASE inbox' = <<>>
    BY <1>1, <1>2, <2>2, FlowDropped DEF Inv, Calls, gatewayVars
  <2> QED BY <1>1, <2>1, <2>2
<1> QED BY <1>2, <1>4, <1>5, <1>6 DEF Inv

(* an exchange is begun *)
LEMMA ExchangeInv ==
    ASSUME Inv, NEW op \in {"auth", "command", "typing"}, exchange(op)
    PROVE  Inv'
<1>1. /\ nextStream \in ClientStreams /\ nextStream' = nextStream + 4
      /\ pending' = pending \cup {nextStream} /\ timers' = timers \cup {nextStream}
      /\ call' = [call EXCEPT ![nextStream] = [op |-> op, state |-> "waiting", answer |-> NoFrame]]
      /\ socket = "open"
      /\ UNCHANGED <<socket, opening, chunks, authenticated, status, pushes, pushSequence, seen,
                     handlers, inbox, sent, ended, done, records>>
  BY DEF exchange, pushVars, gatewayVars
<1>2. ClientStreams \subseteq Nat /\ TypeOK
  BY StreamIds DEF Inv
<1>3. call' \in [ClientStreams -> Call]
  BY <1>1, <1>2 DEF TypeOK, Call
<1>4. TypeOK'
  BY <1>1, <1>2, <1>3 DEF TypeOK
<1>5. status.connected
  BY <1>1 DEF exchange, Inv, Life
<1>6. Life'
  BY <1>1, <1>5 DEF Inv, Life
<1>7. /\ Waiting' = Waiting \cup {nextStream}
      /\ \A c \in ClientStreams : call'[c].answer = call[c].answer
      /\ \A c \in ClientStreams : c # nextStream => call'[c] = call[c]
      /\ nextStream \notin Waiting /\ chunks[nextStream] = <<>>
  <2>1. /\ call'[nextStream].state = "waiting" /\ call'[nextStream].answer = NoFrame
        /\ \A c \in ClientStreams : c # nextStream => call'[c] = call[c]
    BY <1>1, <1>2 DEF TypeOK
  <2>2. /\ call[nextStream].state = "none" /\ call[nextStream].answer = NoFrame
        /\ nextStream \notin pending /\ nextStream \notin Waiting
    BY <1>1, <1>2 DEF Inv, Calls, Waiting
  <2>3. Waiting' = Waiting \cup {nextStream}
    BY <1>1, <2>1 DEF Waiting
  <2> QED BY <1>1, <2>1, <2>2, <2>3 DEF Inv, Calls
<1>8. Calls'
  <2>1. pending' \subseteq Waiting' /\ Waiting' \ pending' \subseteq Waiting \ pending
    BY <1>1, <1>7 DEF Inv, Calls
  <2>2. \A c \in ClientStreams : nextStream' <= c => nextStream <= c /\ c # nextStream
    BY <1>1, <1>2
  <2>3. AnswersIntact'
    BY <1>1, <1>7 DEF Inv, Calls, AnswersIntact
  <2>4. Waiting \ pending \subseteq Undecodable'
    BY <1>1, <1>7 DEF Inv, Calls, Undecodable
  <2> QED BY <1>1, <1>7, <2>1, <2>2, <2>3, <2>4 DEF Inv, Calls
<1>9. Inbox'
  BY <1>1 DEF Inv, Inbox
<1>10. Flow'
  BY <1>1, <1>7, FlowBegun DEF Inv
<1> QED BY <1>4, <1>6, <1>8, <1>9, <1>10 DEF Inv

(* the exchanges in gone leave, and are settled if they can be decoded *)
LEMMA Leaving ==
    ASSUME Inv, NEW gone, gone \subseteq pending, Leave(gone),
           UNCHANGED <<sent, ended, done>>,
           \A d \in ClientStreams : call'[d].op = call[d].op,
           \A d \in ClientStreams \ gone :
               call'[d].state = call[d].state /\ call'[d].answer = call[d].answer,
           \A d \in gone :
               /\ call'[d].state # "waiting" \/ d \in Undecodable
               /\ call'[d].answer # NoFrame => sent[d] = Bytes(call'[d].answer) /\ d \in ended
    PROVE  /\ Calls'
           /\ nextStream' = nextStream /\ pending' \subseteq pending
           /\ timers' \subseteq ClientStreams
           /\ chunks' \in [ClientStreams -> Seq(Piece)]
           /\ \A d \in pending' : chunks'[d] = chunks[d]
<1>1. /\ nextStream' = nextStream /\ pending' = pending \ gone /\ timers' = timers \ gone
      /\ chunks' = [d \in ClientStreams |-> IF d \in gone THEN <<>> ELSE chunks[d]]
  BY DEF Leave
<1>2. timers = pending /\ pending \subseteq ClientStreams /\ <<>> \in Seq(Piece)
  BY DEF Inv, TypeOK, Calls
<1>3. pending \subseteq Waiting /\ Waiting \ pending \subseteq Undecodable
  BY DEF Inv, Calls
<1>4. pending' \subseteq Waiting' /\ Waiting' \ pending' \subseteq Undecodable
  BY <1>1, <1>2, <1>3 DEF Waiting
<1>5. ended' = ended /\ Undecodable' = Undecodable
  BY DEF Undecodable
<1>6. AnswersIntact'
  <2>1. AnswersIntact
    BY DEF Inv, Calls
  <2> QED BY <1>5, <2>1 DEF AnswersIntact
<1>7. \A c \in ClientStreams \ pending' : chunks'[c] = <<>>
  <2>1. \A c \in ClientStreams \ pending : chunks[c] = <<>>
    BY DEF Inv, Calls
  <2> QED BY <1>1, <2>1
<1>8. ASSUME NEW c \in ClientStreams, nextStream <= c
      PROVE  call'[c].state = "none" /\ call'[c].answer = NoFrame /\ sent[c] = <<>> /\ c \notin ended
  <2>1. call[c].state = "none" /\ call[c].answer = NoFrame /\ sent[c] = <<>> /\ c \notin ended
    BY <1>8 DEF Inv, Calls
  <2>2. c \notin gone
    BY <1>3, <2>1 DEF Waiting
  <2> QED BY <2>1, <2>2
<1>9. Calls'
  <2>1. timers' = pending' /\ pending' \subseteq Waiting' /\ Waiting' \ pending' \subseteq Undecodable'
    BY <1>1, <1>2, <1>4, <1>5
  <2>2. \A c \in ClientStreams : nextStream' <= c =>
            call'[c].state = "none" /\ call'[c].answer = NoFrame /\ sent'[c] = <<>> /\ c \notin ended'
    BY <1>1, <1>5, <1>8
  <2> QED BY <1>6, <1>7, <2>1, <2>2 DEF Calls
<1>10. chunks' \in [ClientStreams -> Seq(Piece)]
  BY <1>1, <1>2 DEF Inv, TypeOK
<1>11. \A d \in pending' : chunks'[d] = chunks[d]
  BY <1>1, <1>2
<1> QED BY <1>1, <1>2, <1>9, <1>10, <1>11

(* rejecting some of the pending exchanges gives none of them an answer *)
LEMMA RejectedAre ==
    ASSUME Inv, NEW gone, gone \subseteq pending, call' = Rejected(gone)
    PROVE  /\ call' \in [ClientStreams -> Call]
           /\ \A d \in ClientStreams : call'[d].op = call[d].op
           /\ \A d \in ClientStreams \ gone :
                  call'[d].state = call[d].state /\ call'[d].answer = call[d].answer
           /\ \A d \in gone :
                  /\ call'[d].state # "waiting" \/ d \in Undecodable
                  /\ call'[d].answer # NoFrame => sent[d] = Bytes(call'[d].answer) /\ d \in ended
<1>1. /\ call' \in [ClientStreams -> Call]
      /\ \A d \in ClientStreams :
             /\ call'[d].answer = call[d].answer /\ call'[d].op = call[d].op
             /\ call'[d].state = IF d \in gone THEN "failed" ELSE call[d].state
  BY RejectedCalls DEF Inv
<1>2. gone \subseteq ClientStreams /\ AnswersIntact
  BY DEF Inv, TypeOK, Calls
<1> QED BY <1>1, <1>2 DEF AnswersIntact

(* the timer of an exchange fires *)
LEMMA TimeoutInv ==
    ASSUME Inv, NEW c \in ClientStreams, exchangeTimeout(c)
    PROVE  Inv'
<1>1. /\ c \in timers /\ Leave({c}) /\ call' = Rejected({c})
      /\ UNCHANGED <<socket, opening, authenticated, status, pushes, pushSequence,
                     seen, handlers, inbox, sent, ended, done, records>>
  BY DEF exchangeTimeout, pushVars, gatewayVars
<1>2. {c} \subseteq pending /\ status.connected
  BY <1>1 DEF Inv, Calls, Life
<1>3. /\ call' \in [ClientStreams -> Call] /\ Calls'
      /\ nextStream' = nextStream /\ pending' \subseteq pending
      /\ timers' \subseteq ClientStreams
      /\ chunks' \in [ClientStreams -> Seq(Piece)]
      /\ \A d \in pending' : chunks'[d] = chunks[d]
  BY <1>1, <1>2, RejectedAre, Leaving
<1>4. TypeOK'
  <2>1. TypeOK /\ inbox' \in Seq(Record)
    BY <1>1 DEF Inv, TypeOK
  <2>2. seen' \in Seq([seq : Nat, push : PushStreams, frame : Frame]) /\ done' \in Seq(PushStreams)
    BY <1>1, <2>1 DEF TypeOK
  <2>3. nextStream' \in Nat /\ pending' \subseteq ClientStreams
    BY <1>3, <2>1 DEF TypeOK
  <2>4. UNCHANGED <<socket, opening, authenticated, status, pushes, pushSequence, handlers,
                    sent, ended, records>>
    BY <1>1
  <2> QED BY <1>3, <2>1, <2>2, <2>3, <2>4 DEF TypeOK
<1>5. Life'
  BY <1>1, <1>2 DEF Inv, Life
<1>6. Inbox'
  BY <1>1 DEF Inv, Inbox
<1>7. Flow'
  BY <1>1, <1>3, FlowKept DEF Inv
<1> QED BY <1>3, <1>4, <1>5, <1>6, <1>7 DEF Inv

(* the gateway sends *)
(* whatever the gateway does, it is one such record *)
LEMMA GatewayRecord ==
    ASSUME Gateway
    PROVE  \E r : Sendable(r) /\ GatewaySends(r)
<1>1. <<>> \in Seq(Piece) /\ Answers \subseteq Seq(Piece) /\ Events \subseteq Seq(Piece)
  BY WssSessionAssumption
<1>2. Streams \subseteq Nat /\ 2 \in Nat
  BY StreamIds DEF Streams
<1>3. ASSUME NEW s \in Usable \ ended, NEW fin \in BOOLEAN,
             NEW payload \in IF s \in PushStreams THEN Events ELSE Answers
      PROVE  Sendable([type |-> "stream", id |-> s, payload |-> payload, fin |-> fin])
  BY <1>1, <1>2 DEF Sendable, Record, Usable
<1>4. ASSUME NEW s \in Usable, NEW type \in {"reset", "stop"}
      PROVE  Sendable([type |-> type, id |-> s, payload |-> <<>>, fin |-> FALSE])
  BY <1>1, <1>2 DEF Sendable, Record, Usable
<1>5. ASSUME NEW type \in {"ephemeral", "bad", "stream"}
      PROVE  Sendable([type |-> type, id |-> 2, payload |-> <<>>, fin |-> FALSE])
  BY <1>1, <1>2 DEF Sendable, Record
<1> QED BY <1>3, <1>4, <1>5 DEF Gateway

LEMMA GatewayInv ==
    ASSUME Inv, Gateway
    PROVE  Inv'
<1>1. PICK r : Sendable(r) /\ GatewaySends(r)
  BY GatewayRecord
<1>2. /\ inbox' = Append(inbox, r) /\ r \in Record /\ records' = records + 1
      /\ UNCHANGED <<socket, opening, nextStream, pending, timers, chunks, call, authenticated,
                     status, pushes, pushSequence, seen, handlers>>
  BY <1>1 DEF GatewaySends, Sendable, callVars, pushVars
<1>3. /\ \A s \in Streams :
             sent'[s] = IF r.type = "stream" /\ r.id = s THEN sent[s] \o r.payload ELSE sent[s]
      /\ sent' \in [Streams -> Seq(Piece)]
      /\ done' \in Seq(PushStreams)
      /\ ended \subseteq ended' /\ ended' \subseteq Streams
      /\ \A s \in ended' \ ended : s \in Usable
  BY <1>1, Sending DEF Inv
<1>4. TypeOK'
  BY <1>2, <1>3 DEF Inv, TypeOK
<1>5. Life'
  BY <1>2 DEF Inv, Life
<1>6. \A c \in ClientStreams \cap ended : sent'[c] = sent[c]
  BY <1>1, <1>3, StreamIds DEF Sendable, Streams
<1>7. \A c \in ClientStreams : nextStream <= c => c \notin Usable /\ c # 2
  BY StreamIds DEF Usable, Inv, TypeOK, Streams
<1>8. \A c \in ClientStreams : nextStream <= c => sent'[c] = <<>> /\ c \notin ended'
  BY <1>1, <1>3, <1>7 DEF Inv, Calls, Sendable, Streams
<1>9. Waiting' = Waiting /\ Waiting \subseteq ClientStreams
  BY <1>2 DEF Waiting
<1>14. Undecodable \subseteq Undecodable'
  BY <1>2, <1>3, <1>6 DEF Undecodable
<1>10. AnswersIntact'
  BY <1>2, <1>3, <1>6 DEF Inv, Calls, AnswersIntact
<1>11. Calls'
  BY <1>2, <1>8, <1>9, <1>10, <1>14 DEF Inv, Calls
<1>12. Inbox'
  <2>1. r.type = "stream" => r.id \in Streams \cup {2}
    BY <1>1 DEF Sendable, Usable
  <2>2. inbox \in Seq(Record)
    BY DEF Inv, TypeOK
  <2>3. /\ DOMAIN inbox' = 1 .. Len(inbox) + 1 /\ inbox'[Len(inbox) + 1] = r
        /\ DOMAIN inbox = 1 .. Len(inbox) /\ Len(inbox) \in Nat
        /\ \A i \in 1 .. Len(inbox) : inbox'[i] = inbox[i]
    BY <1>2, <2>2
  <2>4. \A i \in DOMAIN inbox' : i \in DOMAIN inbox \/ i = Len(inbox) + 1
    BY <2>3
  <2> QED BY <2>1, <2>3, <2>4 DEF Inv, Inbox
<1>13. Flow'
  BY <1>1, FlowSent DEF Inv
<1> QED BY <1>4, <1>5, <1>11, <1>12, <1>13 DEF Inv

(***************************************************************************)
(* handleMessage                                                           *)
(***************************************************************************)
(* what every branch of it does and leaves alone *)
Took ==
    /\ socket = "open" /\ opening.state = "resolved" /\ inbox # <<>> /\ inbox' = Tail(inbox)
    /\ UNCHANGED <<opening, socket, status, handlers, gatewayVars, nextStream>>

LEMMA Front ==
    ASSUME Inv, Took
    PROVE  /\ status.connected
           /\ Head(inbox) \in Record
           /\ Head(inbox).type = "stream" => Head(inbox).id \in Streams \cup {2}
           /\ inbox' \in Seq(Record) /\ Inbox'
<1>1. status.connected
  BY DEF Took, Inv, Life
<1>3. /\ inbox \in Seq(Record) /\ Len(inbox) \in Nat \ {0}
      /\ Head(inbox) = inbox[1] /\ inbox' = Tail(inbox) /\ inbox' \in Seq(Record)
      /\ DOMAIN inbox = 1 .. Len(inbox) /\ DOMAIN inbox' = 1 .. Len(inbox) - 1
      /\ \A i \in 1 .. Len(inbox) - 1 : inbox'[i] = inbox[i + 1]
  BY DEF Took, Inv, TypeOK
<1>4. 1 \in DOMAIN inbox /\ inbox[1] \in Record
  BY <1>3
<1>5. \A i \in DOMAIN inbox' : i + 1 \in DOMAIN inbox /\ inbox'[i] = inbox[i + 1]
  BY <1>3
<1>6. Inbox'
  BY <1>5 DEF Inv, Inbox
<1> QED BY <1>1, <1>3, <1>4, <1>6 DEF Inv, Inbox

(* the invariant, from what differs between the branches *)
LEMMA TookInv ==
    ASSUME Inv, Took,
           pending' \subseteq pending, timers' \subseteq ClientStreams,
           chunks' \in [ClientStreams -> Seq(Piece)],
           call' \in [ClientStreams -> Call], authenticated' \in BOOLEAN,
           pushes' \in [PushStreams -> Seq(Piece)], pushSequence' \in Nat,
           seen' \in Seq([seq : Nat, push : PushStreams, frame : Frame]),
           Life', Calls',
           \A c \in pending' :
               chunks'[c] = IF Head(inbox).type = "stream" /\ Head(inbox).id = c
                            THEN chunks[c] \o Head(inbox).payload ELSE chunks[c]
    PROVE  Inv'
<1>1. inbox' \in Seq(Record) /\ Inbox'
  BY Front
<1>2. TypeOK'
  BY <1>1 DEF Took, gatewayVars, Inv, TypeOK
<1>3. Flow'
  BY FlowTaken DEF Took, gatewayVars, Inv
<1> QED BY <1>1, <1>2, <1>3 DEF Inv

(* exchanges leave, the pushes are left alone *)
LEMMA SettledInv ==
    ASSUME Inv, Took, UNCHANGED pushVars,
           NEW gone, gone \subseteq pending, Leave(gone),
           Head(inbox).type = "stream" => Head(inbox).id \in gone \/ Head(inbox).id \notin pending,
           call' \in [ClientStreams -> Call], authenticated' \in BOOLEAN,
           \A d \in ClientStreams : call'[d].op = call[d].op,
           \A d \in ClientStreams \ gone :
               call'[d].state = call[d].state /\ call'[d].answer = call[d].answer,
           \A d \in gone :
               /\ call'[d].state # "waiting" \/ d \in Undecodable
               /\ call'[d].answer # NoFrame => sent[d] = Bytes(call'[d].answer) /\ d \in ended
    PROVE  Inv'
<1>1. status.connected /\ UNCHANGED <<sent, ended, done>>
  BY Front DEF Took, gatewayVars
<1>2. /\ Calls'
      /\ nextStream' = nextStream /\ pending' \subseteq pending
      /\ timers' \subseteq ClientStreams
      /\ chunks' \in [ClientStreams -> Seq(Piece)]
      /\ \A d \in pending' : chunks'[d] = chunks[d]
  BY <1>1, Leaving
<1>3. pending' = pending \ gone
  BY DEF Leave
<1>4. Life'
  BY <1>1 DEF Took, Inv, Life
<1>5. \A c \in pending' :
          chunks'[c] = IF Head(inbox).type = "stream" /\ Head(inbox).id = c
                       THEN chunks[c] \o Head(inbox).payload ELSE chunks[c]
  BY <1>2, <1>3
<1>6. /\ pushes' \in [PushStreams -> Seq(Piece)] /\ pushSequence' \in Nat
      /\ seen' \in Seq([seq : Nat, push : PushStreams, frame : Frame])
  BY DEF Took, Inv, TypeOK, pushVars
<1> QED BY <1>2, <1>4, <1>5, <1>6, TookInv

LEMMA AbortInv ==
    ASSUME Inv, Took, Head(inbox).type \in {"reset", "stop"}, handleAbort(Head(inbox))
    PROVE  Inv'
<1> DEFINE gone == {Head(inbox).id} \cap pending
<1>1. /\ Leave(gone) /\ call' = Rejected(gone) /\ gone \subseteq pending
      /\ UNCHANGED <<authenticated, pushVars>>
  BY DEF handleAbort
<1> HIDE DEF gone
<1>2. /\ call' \in [ClientStreams -> Call]
      /\ \A d \in ClientStreams : call'[d].op = call[d].op
      /\ \A d \in ClientStreams \ gone :
             call'[d].state = call[d].state /\ call'[d].answer = call[d].answer
      /\ \A d \in gone :
             /\ call'[d].state # "waiting" \/ d \in Undecodable
             /\ call'[d].answer # NoFrame => sent[d] = Bytes(call'[d].answer) /\ d \in ended
  BY <1>1, RejectedAre
<1>3. authenticated' \in BOOLEAN /\ Head(inbox).type # "stream"
  BY <1>1 DEF Inv, TypeOK
<1> QED BY <1>1, <1>2, <1>3, SettledInv

(* an EPHEMERAL record, stream data nobody waits for, a protocol error *)
LEMMA IgnoredInv ==
    ASSUME Inv, Took, UNCHANGED <<callVars, pushVars>>,
           Head(inbox).type = "stream" => Head(inbox).id \notin pending
    PROVE  Inv'
<1>1. Life'
  BY DEF Took, Inv, Life, callVars, pushVars
<1>2. Calls'
  BY CallsKept DEF Took, gatewayVars, Inv
<1>3. \A c \in pending' :
          chunks'[c] = IF Head(inbox).type = "stream" /\ Head(inbox).id = c
                       THEN chunks[c] \o Head(inbox).payload ELSE chunks[c]
  BY DEF callVars
<1>4. /\ pending' \subseteq pending /\ timers' \subseteq ClientStreams
      /\ chunks' \in [ClientStreams -> Seq(Piece)]
      /\ call' \in [ClientStreams -> Call] /\ authenticated' \in BOOLEAN
      /\ pushes' \in [PushStreams -> Seq(Piece)] /\ pushSequence' \in Nat
      /\ seen' \in Seq([seq : Nat, push : PushStreams, frame : Frame])
  BY DEF Took, Inv, TypeOK, pushVars, callVars
<1> QED BY <1>1, <1>2, <1>3, <1>4, TookInv

(* an answer goes on *)
LEMMA PartialInv ==
    ASSUME Inv, Took, Head(inbox).type = "stream", Head(inbox).id \in pending,
           chunks' = [chunks EXCEPT ![Head(inbox).id] = Received(Head(inbox))],
           UNCHANGED <<nextStream, pending, timers, call, authenticated, pushVars>>
    PROVE  Inv'
<1> DEFINE r == Head(inbox)
<1>1. /\ status.connected /\ r \in Record /\ r.payload \in Seq(Piece)
      /\ r.id \in ClientStreams /\ chunks \in [ClientStreams -> Seq(Piece)]
  BY Front DEF Inv, TypeOK, Record
<1> HIDE DEF r
<1>2. /\ chunks' = [chunks EXCEPT ![r.id] = chunks[r.id] \o r.payload]
      /\ chunks' \in [ClientStreams -> Seq(Piece)]
  <2>1. chunks[r.id] \o r.payload \in Seq(Piece)
    BY <1>1
  <2>2. chunks' = [chunks EXCEPT ![r.id] = chunks[r.id] \o r.payload]
    BY DEF r, Received
  <2> QED BY <1>1, <2>1, <2>2
<1>3. Life'
  BY DEF Took, Inv, Life, pushVars
<1>4. Calls'
  <2>1. Waiting' = Waiting /\ ended' = ended /\ sent' = sent
    BY DEF Waiting, Took, gatewayVars
  <2>2. AnswersIntact'
    BY <2>1 DEF Inv, Calls, AnswersIntact
  <2>3. \A c \in ClientStreams \ pending' : chunks'[c] = <<>>
    BY <1>1, <1>2 DEF Inv, Calls, r
  <2>4. Undecodable' = Undecodable
    BY <2>1 DEF Undecodable
  <2> QED BY <2>1, <2>2, <2>3, <2>4 DEF Inv, Calls
<1>5. \A c \in pending' :
          chunks'[c] = IF Head(inbox).type = "stream" /\ Head(inbox).id = c
                       THEN chunks[c] \o Head(inbox).payload ELSE chunks[c]
  BY <1>1, <1>2 DEF r, Inv, TypeOK
<1>6. /\ pending' \subseteq pending /\ timers' \subseteq ClientStreams
      /\ call' \in [ClientStreams -> Call] /\ authenticated' \in BOOLEAN
      /\ pushes' \in [PushStreams -> Seq(Piece)] /\ pushSequence' \in Nat
      /\ seen' \in Seq([seq : Nat, push : PushStreams, frame : Frame])
  BY DEF Took, Inv, TypeOK, pushVars
<1> QED BY <1>2, <1>3, <1>4, <1>5, <1>6, TookInv

(* an answer is settled *)
LEMMA SettleInv ==
    ASSUME Inv, Took, Head(inbox).type = "stream", NEW c \in pending, Head(inbox).id = c,
           NEW state \in {"ok", "failed"}, NEW answer \in Frame \cup {NoFrame},
           answer # NoFrame => sent[c] = Bytes(answer) /\ c \in ended,
           Settle(c, state, answer)
    PROVE  Inv'
<1>1. /\ Leave({c}) /\ UNCHANGED pushVars
      /\ call' = [call EXCEPT ![c] = [op |-> call[c].op, state |-> state, answer |-> answer]]
      /\ authenticated' \in BOOLEAN
  BY DEF Settle, Inv, TypeOK
<1>2. c \in ClientStreams /\ call \in [ClientStreams -> Call]
  BY DEF Inv, TypeOK
<1>3. call' \in [ClientStreams -> Call]
  <2>1. [op |-> call[c].op, state |-> state, answer |-> answer] \in Call
    BY <1>2 DEF Call
  <2> QED BY <1>1, <1>2, <2>1
<1>4. /\ call'[c].state = state /\ call'[c].answer = answer
      /\ \A d \in ClientStreams \ {c} : call'[d] = call[d]
      /\ \A d \in ClientStreams : call'[d].op = call[d].op
  BY <1>1, <1>2
<1>5. \A d \in {c} :
          /\ call'[d].state # "waiting" \/ d \in Undecodable
          /\ call'[d].answer # NoFrame => sent[d] = Bytes(call'[d].answer) /\ d \in ended
  BY <1>4
<1> QED BY <1>1, <1>3, <1>4, <1>5, SettledInv

(* an answer does not decode: its exchange leaves, and its caller waits on *)
LEMMA UndecodableInv ==
    ASSUME Inv, Took, Head(inbox).type = "stream", NEW c \in pending, Head(inbox).id = c,
           call[c].op # "typing", c \in ended, ~Decodable(sent[c]),
           Leave({c}), protocolError, UNCHANGED pushes
    PROVE  Inv'
<1>1. UNCHANGED <<call, authenticated, pushVars>>
  BY DEF protocolError, pushVars
<1>2. c \in ClientStreams /\ call \in [ClientStreams -> Call] /\ authenticated \in BOOLEAN
  BY DEF Inv, TypeOK
<1>3. c \in Undecodable
  BY <1>2 DEF Undecodable
<1>4. call'[c].answer # NoFrame => sent[c] = Bytes(call'[c].answer) /\ c \in ended
  BY <1>1, <1>2 DEF Inv, Calls, AnswersIntact
<1> QED BY <1>1, <1>2, <1>3, <1>4, SettledInv

LEMMA ResponseInv ==
    ASSUME Inv, Took, Head(inbox).type = "stream", handleResponse(Head(inbox))
    PROVE  Inv'
<1> DEFINE r == Head(inbox)
<1>1. CASE r.id \notin pending
  BY <1>1, IgnoredInv DEF handleResponse
<1>2. CASE r.id \in pending /\ ~r.fin
  BY <1>2, PartialInv DEF handleResponse
<1>3. CASE r.id \in pending /\ r.fin
  <2> DEFINE c == Head(inbox).id
             bytes == Received(Head(inbox))
  <2>1. bytes = sent[c] /\ c \in ended /\ finishResponse(c, bytes)
    BY <1>3, FlowEnds DEF Inv, Took, Received, handleResponse
  <2>2. c \in pending /\ c \in Streams /\ sent[c] \in Seq(Piece)
    BY <1>3 DEF Inv, TypeOK, Streams
  <2> HIDE DEF c, bytes
  <2>3. Head(inbox).id = c
    BY DEF c
  <2>4. CASE call[c].op = "typing" /\ Settle(c, IF bytes = <<>> THEN "ok" ELSE "failed", NoFrame)
    BY <2>2, <2>3, <2>4, SettleInv
  <2>5. CASE /\ call[c].op # "typing" /\ ~Decodable(bytes)
             /\ Leave({c}) /\ protocolError /\ UNCHANGED pushes
    BY <2>1, <2>2, <2>3, <2>5, UndecodableInv
  <2>6. CASE Settle(c, "failed", NoFrame)
    BY <2>2, <2>3, <2>6, SettleInv
  <2>7. CASE /\ Decodable(bytes) /\ Len(decodeFrames(bytes)) = 1
             /\ Settle(c, IF Accepts(call[c].op, decodeFrames(bytes)[1]) THEN "ok" ELSE "failed",
                       decodeFrames(bytes)[1])
    <3>1. decodeFrames(bytes)[1] \in Frame /\ sent[c] = Bytes(decodeFrames(bytes)[1])
      BY <2>1, <2>2, <2>7, OneFrame
    <3> QED BY <2>1, <2>2, <2>3, <2>7, <3>1, SettleInv
  <2> QED BY <2>1, <2>4, <2>5, <2>6, <2>7 DEF finishResponse
<1> QED BY <1>1, <1>2, <1>3

LEMMA PushInv ==
    ASSUME Inv, Took, Head(inbox).type = "stream", Head(inbox).id % 4 = 1,
           handlePush(Head(inbox))
    PROVE  Inv'
<1> DEFINE r == Head(inbox)
           bytes == pushes[Head(inbox).id] \o Head(inbox).payload
           event == [seq |-> NextPush, push |-> Head(inbox).id, frame |-> decodeFrames(bytes)[1]]
<1>1. /\ r.id \in PushStreams /\ r.id \notin pending /\ r.payload \in Seq(Piece)
      /\ status.connected
  <2>1. r \in Record /\ r.id \in Streams \cup {2} /\ status.connected
    BY Front
  <2>2. 0 # 1 /\ 2 % 4 # 1
    OBVIOUS
  <2>3. r.id \in PushStreams
    BY <2>1, <2>2, StreamIds DEF Streams
  <2> QED BY <2>1, <2>3, StreamIds DEF Record, Inv, TypeOK
<1>2. bytes \in Seq(Piece) /\ NextPush \in Nat
  BY <1>1 DEF Inv, TypeOK, NextPush
<1>4. ASSUME UNCHANGED callVars,
             \E b \in {<<>>, bytes} : pushes' = [pushes EXCEPT ![r.id] = b],
             pushSequence' \in Nat,
             seen' \in Seq([seq : Nat, push : PushStreams, frame : Frame])
      PROVE  Inv'
  <2>1. pushes' \in [PushStreams -> Seq(Piece)]
    <3>1. <<>> \in Seq(Piece) /\ pushes \in [PushStreams -> Seq(Piece)]
      BY DEF Inv, TypeOK
    <3>2. PICK b \in Seq(Piece) : pushes' = [pushes EXCEPT ![r.id] = b]
      BY <1>2, <1>4, <3>1
    <3> QED BY <1>1, <3>1, <3>2
  <2>2. Life'
    BY <1>1, <1>4 DEF Took, Inv, Life, callVars
  <2>3. Calls'
    BY <1>4, CallsKept DEF Took, gatewayVars, Inv
  <2>4.   /\ pending' \subseteq pending /\ timers' \subseteq ClientStreams
        /\ chunks' \in [ClientStreams -> Seq(Piece)]
        /\ call' \in [ClientStreams -> Call] /\ authenticated' \in BOOLEAN
    BY <1>4 DEF Took, Inv, TypeOK, callVars
  <2>5. \A c \in pending' :
            chunks'[c] = IF Head(inbox).type = "stream" /\ Head(inbox).id = c
                         THEN chunks[c] \o Head(inbox).payload ELSE chunks[c]
    BY <1>1, <1>4 DEF callVars
  <2> QED BY <1>4, <2>1, <2>2, <2>3, <2>4, <2>5, TookInv
<1>3. CASE r.fin /\ ~ValidPush(bytes)
  <2>1. /\ UNCHANGED <<callVars, pushSequence, seen>>
        /\ pushes' = [pushes EXCEPT ![r.id] = <<>>]
    BY <1>3 DEF handlePush, protocolError, exchangeVars, callVars
  <2>2. pushSequence' \in Nat /\ seen' \in Seq([seq : Nat, push : PushStreams, frame : Frame])
    BY <2>1 DEF Inv, TypeOK
  <2> QED BY <1>4, <2>1, <2>2
<1>5. CASE ~r.fin
  <2>1. /\ UNCHANGED <<callVars, pushSequence, seen>>
        /\ pushes' = [pushes EXCEPT ![r.id] = bytes]
    BY <1>5 DEF handlePush
  <2>2. pushSequence' \in Nat /\ seen' \in Seq([seq : Nat, push : PushStreams, frame : Frame])
    BY <2>1 DEF Inv, TypeOK
  <2> QED BY <1>4, <2>1, <2>2
<1>6. CASE r.fin /\ ValidPush(bytes)
  <2>1. /\ UNCHANGED callVars
        /\ pushes' = [pushes EXCEPT ![r.id] = <<>>]
        /\ pushSequence' = NextPush
        /\ seen' = IF handlers THEN Append(seen, event) ELSE seen
    BY <1>6 DEF handlePush
  <2>2. decodeFrames(bytes)[1] \in Frame
    BY <1>2, <1>6, OneFrame DEF ValidPush
  <2>3. event \in [seq : Nat, push : PushStreams, frame : Frame]
    BY <1>1, <1>2, <2>2
  <2>4. seen \in Seq([seq : Nat, push : PushStreams, frame : Frame])
    BY DEF Inv, TypeOK
  <2>5. seen' \in Seq([seq : Nat, push : PushStreams, frame : Frame])
    <3> DEFINE Heard == [seq : Nat, push : PushStreams, frame : Frame]
    <3> HIDE DEF event, Heard
    <3>1. seen \in Seq(Heard) /\ event \in Heard
      BY <2>3, <2>4 DEF Heard
    <3>2. Append(seen, event) \in Seq(Heard)
      BY <3>1
    <3> QED BY <2>1, <3>1, <3>2 DEF Heard
  <2> QED BY <1>2, <1>4, <2>1, <2>5
<1> QED BY <1>3, <1>5, <1>6

LEMMA MessageInv ==
    ASSUME Inv, handleMessage
    PROVE  Inv'
<1>1. Took
  <2>1. nextStream' = nextStream /\ UNCHANGED <<socket, status>>
    BY DEF handleMessage, handleResponse, finishResponse, Settle, Leave, handlePush, handleAbort,
           protocolError, exchangeVars, callVars
  <2> QED BY <2>1 DEF handleMessage, Took
<1>2. CASE /\ Head(inbox).type = "bad" \/ Head(inbox).id % 4 > 1
           /\ protocolError /\ UNCHANGED <<exchangeVars, pushes>>
  <2>1. UNCHANGED <<callVars, pushVars>>
    BY <1>2 DEF protocolError, exchangeVars, callVars, pushVars
  <2>2. Head(inbox).type = "stream" => Head(inbox).id \notin pending
    <3>1. \A c \in pending : c % 4 = 0
      BY StreamIds DEF Inv, TypeOK
    <3>2. ~(0 > 1)
      OBVIOUS
    <3>3. \A c \in pending : ~(c % 4 > 1)
      BY <3>1, <3>2
    <3> QED BY <1>2, <3>3
  <2> QED BY <1>1, <2>1, <2>2, IgnoredInv
<1>3. CASE Head(inbox).type = "ephemeral" /\ UNCHANGED <<socket, callVars, status, pushVars>>
  BY <1>1, <1>3, IgnoredInv
<1>4. CASE Head(inbox).type \in {"reset", "stop"} /\ handleAbort(Head(inbox))
  BY <1>1, <1>4, AbortInv
<1>5. CASE Head(inbox).type = "stream" /\ handleResponse(Head(inbox))
  BY <1>1, <1>5, ResponseInv
<1>6. CASE /\ Head(inbox).type = "stream" /\ Head(inbox).id % 4 = 1
           /\ handlePush(Head(inbox))
  BY <1>1, <1>6, PushInv
<1> QED BY <1>2, <1>3, <1>4, <1>5, <1>6 DEF handleMessage

(***************************************************************************)
(* Pushes                                                                  *)
(***************************************************************************)
(* the last record of a push *)
EndsPush(r) == r.type = "stream" /\ r.fin /\ r.id \in PushStreams

(* Of the pushes, before the i-th record: got[i][p] is what has been       *)
(* carried of p, over[i] are those that have ended, and count[i] is how    *)
(* many of them are valid.  Nothing follows a FIN.                         *)
PushFlows(got, over, count) ==
    /\ got[Len(inbox) + 1] = [p \in PushStreams |-> sent[p]]
    /\ over[Len(inbox) + 1] = ended \cap PushStreams
    /\ count[1] = pushSequence /\ count[Len(inbox) + 1] = Len(done)
    /\ \A p \in PushStreams : p \notin over[1] => pushes[p] = got[1][p]
    /\ \A i \in 1 .. Len(inbox), p \in PushStreams :
           got[i + 1][p] = IF inbox[i].type = "stream" /\ inbox[i].id = p
                           THEN got[i][p] \o inbox[i].payload ELSE got[i][p]
    /\ \A i \in 1 .. Len(inbox) :
           /\ over[i + 1] = IF EndsPush(inbox[i]) THEN over[i] \cup {inbox[i].id} ELSE over[i]
           /\ inbox[i].type = "stream" => inbox[i].id \notin over[i]
           /\ count[i + 1] = IF EndsPush(inbox[i]) /\ ValidPush(sent[inbox[i].id])
                             THEN count[i] + 1 ELSE count[i]
           /\ EndsPush(inbox[i]) =>
                  inbox[i].id \in ended /\ got[i + 1][inbox[i].id] = sent[inbox[i].id]
           /\ EndsPush(inbox[i]) /\ ValidPush(sent[inbox[i].id]) =>
                  done[count[i + 1]] = inbox[i].id

PushFlow ==
    \E got \in [1 .. Len(inbox) + 1 -> [PushStreams -> Seq(Piece)]],
       over \in [1 .. Len(inbox) + 1 -> SUBSET PushStreams],
       count \in [1 .. Len(inbox) + 1 -> 0 .. Len(done)] : PushFlows(got, over, count)

(* PushesInOrder, with the number of the last event *)
Heard ==
    \A i \in DOMAIN seen :
        /\ seen[i].seq \in DOMAIN done /\ seen[i].seq <= pushSequence
        /\ done[seen[i].seq] = seen[i].push
        /\ sent[seen[i].push] = Bytes(seen[i].frame)
        /\ \A j \in DOMAIN seen : j < i => seen[j].seq < seen[i].seq

(* The invariant behind PushesInOrder: the flow of the pushes holds as     *)
(* long as records may still be handled.                                   *)
EventsInv ==
    /\ \A k \in DOMAIN done : done[k] \in ended
    /\ Heard
    /\ socket \in {"none", "connecting", "open"} => PushFlow

(* nothing is received *)
LEMMA PushFlowKept ==
    ASSUME PushFlow, UNCHANGED <<inbox, sent, ended, done, pushes, pushSequence>>
    PROVE  PushFlow'
<1>1. PICK got \in [1 .. Len(inbox) + 1 -> [PushStreams -> Seq(Piece)]],
           over \in [1 .. Len(inbox) + 1 -> SUBSET PushStreams],
           count \in [1 .. Len(inbox) + 1 -> 0 .. Len(done)] : PushFlows(got, over, count)
  BY DEF PushFlow
<1>2. /\ got[Len(inbox') + 1] = [p \in PushStreams |-> sent'[p]]
      /\ over[Len(inbox') + 1] = ended' \cap PushStreams
      /\ count[1] = pushSequence' /\ count[Len(inbox') + 1] = Len(done')
      /\ \A p \in PushStreams : p \notin over[1] => pushes'[p] = got[1][p]
  BY <1>1 DEF PushFlows
<1>3. \A i \in 1 .. Len(inbox'), p \in PushStreams :
          got[i + 1][p] = IF inbox'[i].type = "stream" /\ inbox'[i].id = p
                          THEN got[i][p] \o inbox'[i].payload ELSE got[i][p]
  BY <1>1 DEF PushFlows
<1>4. \A i \in 1 .. Len(inbox') :
          /\ over[i + 1] = IF EndsPush(inbox'[i]) THEN over[i] \cup {inbox'[i].id} ELSE over[i]
          /\ inbox'[i].type = "stream" => inbox'[i].id \notin over[i]
          /\ count[i + 1] = IF EndsPush(inbox'[i]) /\ ValidPush(sent'[inbox'[i].id])
                            THEN count[i] + 1 ELSE count[i]
          /\ EndsPush(inbox'[i]) =>
                 inbox'[i].id \in ended' /\ got[i + 1][inbox'[i].id] = sent'[inbox'[i].id]
          /\ EndsPush(inbox'[i]) /\ ValidPush(sent'[inbox'[i].id]) =>
                 done'[count[i + 1]] = inbox'[i].id
  BY <1>1 DEF PushFlows
<1>5. PushFlows(got, over, count)'
  BY <1>2, <1>3, <1>4 DEF PushFlows, EndsPush
<1> QED BY <1>5 DEF PushFlow

(* the record at the front is received *)
LEMMA PushFlowTaken ==
    ASSUME TypeOK, PushFlow, inbox # <<>>, inbox' = Tail(inbox), UNCHANGED <<sent, ended, done>>,
           pushSequence' = IF EndsPush(Head(inbox)) /\ ValidPush(sent[Head(inbox).id])
                           THEN pushSequence + 1 ELSE pushSequence,
           \A p \in PushStreams :
               pushes'[p] = IF Head(inbox).type = "stream" /\ Head(inbox).id = p
                            THEN IF Head(inbox).fin THEN <<>> ELSE pushes[p] \o Head(inbox).payload
                            ELSE pushes[p]
    PROVE  PushFlow'
<1> DEFINE n == Len(inbox)
<1>1. PICK got \in [1 .. n + 1 -> [PushStreams -> Seq(Piece)]],
           over \in [1 .. n + 1 -> SUBSET PushStreams],
           count \in [1 .. n + 1 -> 0 .. Len(done)] : PushFlows(got, over, count)
  BY DEF PushFlow
<1>2. /\ inbox \in Seq(Record) /\ n \in Nat \ {0} /\ Len(inbox') = n - 1
      /\ inbox[1] = Head(inbox) /\ 1 \in 1 .. n
      /\ \A i \in 1 .. n - 1 : inbox'[i] = inbox[i + 1]
  BY DEF TypeOK
<1>3. PICK next \in [1 .. Len(inbox') + 1 -> [PushStreams -> Seq(Piece)]] :
        \A i \in 1 .. n : next[i] = got[i + 1]
  <2> DEFINE shifted == [i \in 1 .. Len(inbox') + 1 |-> got[i + 1]]
  <2>1. shifted \in [1 .. Len(inbox') + 1 -> [PushStreams -> Seq(Piece)]]
    BY <1>1, <1>2
  <2>2. \A i \in 1 .. n : shifted[i] = got[i + 1]
    BY <1>2
  <2> QED BY <2>1, <2>2
<1>4. PICK later \in [1 .. Len(inbox') + 1 -> 0 .. Len(done)] :
        \A i \in 1 .. n : later[i] = count[i + 1]
  <2> DEFINE shifted == [i \in 1 .. Len(inbox') + 1 |-> count[i + 1]]
  <2>1. shifted \in [1 .. Len(inbox') + 1 -> 0 .. Len(done)]
    BY <1>1, <1>2
  <2>2. \A i \in 1 .. n : shifted[i] = count[i + 1]
    BY <1>2
  <2> QED BY <2>1, <2>2
<1>5. PICK past \in [1 .. Len(inbox') + 1 -> SUBSET PushStreams] :
        \A i \in 1 .. n : past[i] = over[i + 1]
  <2> DEFINE shifted == [i \in 1 .. Len(inbox') + 1 |-> over[i + 1]]
  <2>1. shifted \in [1 .. Len(inbox') + 1 -> SUBSET PushStreams]
    BY <1>1, <1>2
  <2>2. \A i \in 1 .. n : shifted[i] = over[i + 1]
    BY <1>2
  <2> QED BY <2>1, <2>2
<1>6. /\ next[Len(inbox') + 1] = [p \in PushStreams |-> sent'[p]]
      /\ past[Len(inbox') + 1] = ended' \cap PushStreams
      /\ later[Len(inbox') + 1] = Len(done')
  <2>1. /\ got[n + 1] = [p \in PushStreams |-> sent[p]] /\ over[n + 1] = ended \cap PushStreams
        /\ count[n + 1] = Len(done)
    BY <1>1 DEF PushFlows
  <2>2. Len(inbox') + 1 = n /\ n \in 1 .. n
    BY <1>2
  <2>3. /\ next[Len(inbox') + 1] = got[n + 1] /\ past[Len(inbox') + 1] = over[n + 1]
        /\ later[Len(inbox') + 1] = count[n + 1]
    BY <1>3, <1>4, <1>5, <2>2
  <2> QED BY <2>1, <2>3
<1>7. next[1] = got[1 + 1] /\ later[1] = count[1 + 1] /\ past[1] = over[1 + 1]
  BY <1>2, <1>3, <1>4, <1>5
<1>8. /\ count[1] = pushSequence
      /\ count[1 + 1] = IF EndsPush(inbox[1]) /\ ValidPush(sent[inbox[1].id])
                        THEN count[1] + 1 ELSE count[1]
      /\ over[1 + 1] = IF EndsPush(inbox[1]) THEN over[1] \cup {inbox[1].id} ELSE over[1]
  BY <1>1, <1>2 DEF PushFlows
<1>9. later[1] = pushSequence'
  BY <1>2, <1>7, <1>8
<1>11. ASSUME NEW p \in PushStreams, p \notin past[1]
       PROVE  pushes'[p] = next[1][p]
  <2>1. p \notin over[1] /\ ~(EndsPush(inbox[1]) /\ inbox[1].id = p)
    BY <1>7, <1>8, <1>11
  <2>2. pushes[p] = got[1][p]
    BY <1>1, <2>1 DEF PushFlows
  <2>3. got[1 + 1][p] = IF inbox[1].type = "stream" /\ inbox[1].id = p
                        THEN got[1][p] \o inbox[1].payload ELSE got[1][p]
    BY <1>1, <1>2 DEF PushFlows
  <2>4. ~(inbox[1].type = "stream" /\ inbox[1].id = p /\ inbox[1].fin)
    BY <2>1 DEF EndsPush
  <2> QED BY <1>2, <1>7, <2>2, <2>3, <2>4
<1>12. ASSUME NEW i \in 1 .. Len(inbox')
       PROVE  /\ i + 1 \in 1 .. n /\ inbox'[i] = inbox[i + 1]
              /\ next[i] = got[i + 1] /\ next[i + 1] = got[(i + 1) + 1]
              /\ past[i] = over[i + 1] /\ past[i + 1] = over[(i + 1) + 1]
              /\ later[i] = count[i + 1] /\ later[i + 1] = count[(i + 1) + 1]
  BY <1>2, <1>3, <1>4, <1>5
<1>13. ASSUME NEW i \in 1 .. Len(inbox'), NEW p \in PushStreams
       PROVE  next[i + 1][p] = IF inbox'[i].type = "stream" /\ inbox'[i].id = p
                               THEN next[i][p] \o inbox'[i].payload ELSE next[i][p]
  <2>1. PICK m \in 1 .. n : m = i + 1
    BY <1>12
  <2>2. inbox'[i] = inbox[m] /\ next[i] = got[m] /\ next[i + 1] = got[m + 1]
    BY <1>12, <2>1
  <2>3. got[m + 1][p] = IF inbox[m].type = "stream" /\ inbox[m].id = p
                        THEN got[m][p] \o inbox[m].payload ELSE got[m][p]
    BY <1>1 DEF PushFlows
  <2> QED BY <2>2, <2>3
<1>14. ASSUME NEW i \in 1 .. Len(inbox')
       PROVE  /\ past[i + 1] = IF EndsPush(inbox'[i]) THEN past[i] \cup {inbox'[i].id} ELSE past[i]
              /\ inbox'[i].type = "stream" => inbox'[i].id \notin past[i]
              /\ later[i + 1] = IF EndsPush(inbox'[i]) /\ ValidPush(sent[inbox'[i].id])
                                THEN later[i] + 1 ELSE later[i]
              /\ EndsPush(inbox'[i]) =>
                     inbox'[i].id \in ended /\ next[i + 1][inbox'[i].id] = sent[inbox'[i].id]
              /\ EndsPush(inbox'[i]) /\ ValidPush(sent[inbox'[i].id]) =>
                     done[later[i + 1]] = inbox'[i].id
  <2>1. PICK m \in 1 .. n : m = i + 1
    BY <1>12
  <2>2. /\ inbox'[i] = inbox[m] /\ next[i + 1] = got[m + 1]
        /\ past[i] = over[m] /\ past[i + 1] = over[m + 1]
        /\ later[i] = count[m] /\ later[i + 1] = count[m + 1]
    BY <1>12, <2>1
  <2>3. /\ over[m + 1] = IF EndsPush(inbox[m]) THEN over[m] \cup {inbox[m].id} ELSE over[m]
        /\ inbox[m].type = "stream" => inbox[m].id \notin over[m]
        /\ count[m + 1] = IF EndsPush(inbox[m]) /\ ValidPush(sent[inbox[m].id])
                          THEN count[m] + 1 ELSE count[m]
        /\ EndsPush(inbox[m]) =>
               inbox[m].id \in ended /\ got[m + 1][inbox[m].id] = sent[inbox[m].id]
        /\ EndsPush(inbox[m]) /\ ValidPush(sent[inbox[m].id]) =>
               done[count[m + 1]] = inbox[m].id
    BY <1>1 DEF PushFlows
  <2> QED BY ONLY <2>2, <2>3
<1> HIDE DEF n
<1>15. PushFlows(next, past, later)'
  BY <1>6, <1>9, <1>11, <1>13, <1>14 DEF PushFlows, EndsPush
<1> QED BY <1>3, <1>4, <1>5, <1>15 DEF PushFlow

(* the record ends a push that is valid *)
Counts(r) == EndsPush(r) /\ ValidPush(sent[r.id] \o r.payload)

(* what one record changes for the pushes that have ended *)
LEMMA SendingPushes ==
    ASSUME TypeOK, \A k \in DOMAIN done : done[k] \in ended,
           NEW r, Sendable(r), GatewaySends(r)
    PROVE  /\ Len(done) \in Nat /\ DOMAIN done = 1 .. Len(done)
           /\ Len(done') = IF Counts(r) THEN Len(done) + 1 ELSE Len(done)
           /\ DOMAIN done' = 1 .. Len(done')
           /\ Counts(r) => done'[Len(done) + 1] = r.id
           /\ \A k \in 1 .. Len(done) :
                  /\ done'[k] = done[k] /\ sent'[done[k]] = sent[done[k]]
           /\ \A k \in DOMAIN done' : done'[k] \in ended'
<1>1. done \in Seq(PushStreams) /\ Len(done) \in Nat /\ DOMAIN done = 1 .. Len(done)
  BY DEF TypeOK
<1>2. done' = IF Counts(r) THEN Append(done, r.id) ELSE done
  BY DEF GatewaySends, Sendable, EndsPush, Counts
<1>3. /\ Len(done') = IF Counts(r) THEN Len(done) + 1 ELSE Len(done)
      /\ DOMAIN done' = 1 .. Len(done')
      /\ Counts(r) => done'[Len(done) + 1] = r.id
      /\ \A k \in 1 .. Len(done) : done'[k] = done[k]
  <2>1. CASE Counts(r)
    <3>1. r.id \in PushStreams
      BY <2>1 DEF Counts, EndsPush
    <3> QED BY <1>1, <1>2, <2>1, <3>1
  <2>2. CASE ~Counts(r)
    BY <1>1, <1>2, <2>2
  <2> QED BY <2>1, <2>2
<1>4. ASSUME NEW k \in 1 .. Len(done)
      PROVE  sent'[done[k]] = sent[done[k]]
  <2>1. done[k] \in ended /\ done[k] \in Streams
    BY <1>1 DEF Streams
  <2>2. r.type = "stream" => done[k] # r.id
    BY <2>1, StreamIds DEF Sendable
  <2> QED BY <2>1, <2>2, Sending
<1>5. ASSUME NEW k \in DOMAIN done' PROVE done'[k] \in ended'
  <2>1. CASE k \in 1 .. Len(done)
    BY <1>1, <1>3, <2>1, Sending
  <2>2. CASE Counts(r) /\ k = Len(done) + 1
    <3>1. r.type = "stream" /\ r.id \in Streams /\ r.fin
      BY <2>2 DEF Counts, EndsPush, Streams
    <3> QED BY <1>3, <2>2, <3>1, Sending
  <2> QED BY <1>1, <1>3, <2>1, <2>2
<1> QED BY <1>1, <1>3, <1>4, <1>5

(* a record is on its way *)
LEMMA PushFlowSent ==
    ASSUME TypeOK, PushFlow, \A k \in DOMAIN done : done[k] \in ended,
           NEW r, Sendable(r), GatewaySends(r)
    PROVE  PushFlow'
<1> DEFINE n == Len(inbox)
           d == Len(done)
<1>1. PICK got \in [1 .. n + 1 -> [PushStreams -> Seq(Piece)]],
           over \in [1 .. n + 1 -> SUBSET PushStreams],
           count \in [1 .. n + 1 -> 0 .. d] : PushFlows(got, over, count)
  BY DEF PushFlow
<1>2. /\ inbox \in Seq(Record) /\ n \in Nat /\ Len(inbox') = n + 1
      /\ inbox'[n + 1] = r
      /\ \A i \in 1 .. n : inbox'[i] = inbox[i]
      /\ UNCHANGED <<pushes, pushSequence>>
  BY DEF TypeOK, GatewaySends, Sendable, pushVars
<1>3. /\ \A p \in PushStreams :
             sent'[p] = IF r.type = "stream" /\ r.id = p THEN sent[p] \o r.payload ELSE sent[p]
      /\ [p \in PushStreams |-> sent'[p]] \in [PushStreams -> Seq(Piece)]
      /\ ended \subseteq ended'
      /\ ended' \cap PushStreams = IF EndsPush(r) THEN (ended \cap PushStreams) \cup {r.id}
                                    ELSE ended \cap PushStreams
      /\ EndsPush(r) => r.id \in ended'
      /\ r.type = "stream" => r.id \notin ended
  <2>1. r.type = "stream" => r.id \notin ended
    BY StreamIds DEF Sendable, TypeOK
  <2>2. r.fin => r.type = "stream"
    BY DEF Sendable, Record
  <2>3. ended' = IF r.fin THEN ended \cup {r.id} ELSE ended
    BY DEF GatewaySends
  <2>4. r.fin /\ r.id \in PushStreams <=> EndsPush(r)
    BY <2>2 DEF EndsPush
  <2> QED BY <2>1, <2>3, <2>4, Sending DEF Streams
<1>4. /\ d \in Nat /\ Len(done') = IF Counts(r) THEN d + 1 ELSE d
      /\ Counts(r) => done'[d + 1] = r.id
      /\ \A k \in 1 .. d : done'[k] = done[k]
  BY SendingPushes
<1> HIDE DEF d
<1>5. PICK next \in [1 .. Len(inbox') + 1 -> [PushStreams -> Seq(Piece)]] :
        /\ \A i \in 1 .. n + 1 : next[i] = got[i]
        /\ next[n + 2] = [p \in PushStreams |-> sent'[p]]
  <2> DEFINE longer == [i \in 1 .. n + 2 |-> IF i = n + 2 THEN [p \in PushStreams |-> sent'[p]]
                                             ELSE got[i]]
  <2>1. longer \in [1 .. Len(inbox') + 1 -> [PushStreams -> Seq(Piece)]]
    BY <1>1, <1>2, <1>3
  <2>2. (\A i \in 1 .. n + 1 : longer[i] = got[i])
        /\ longer[n + 2] = [p \in PushStreams |-> sent'[p]]
    BY <1>2
  <2> HIDE DEF longer
  <2> QED BY <2>1, <2>2
<1>6. PICK later \in [1 .. Len(inbox') + 1 -> 0 .. Len(done')] :
        /\ \A i \in 1 .. n + 1 : later[i] = count[i]
        /\ later[n + 2] = Len(done')
  <2> DEFINE longer == [i \in 1 .. n + 2 |-> IF i = n + 2 THEN Len(done') ELSE count[i]]
  <2>1. longer \in [1 .. Len(inbox') + 1 -> 0 .. Len(done')]
    BY <1>1, <1>2, <1>4
  <2>2. (\A i \in 1 .. n + 1 : longer[i] = count[i]) /\ longer[n + 2] = Len(done')
    BY <1>2
  <2> HIDE DEF longer
  <2> QED BY <2>1, <2>2
<1>7. PICK past \in [1 .. Len(inbox') + 1 -> SUBSET PushStreams] :
        /\ \A i \in 1 .. n + 1 : past[i] = over[i]
        /\ past[n + 2] = ended' \cap PushStreams
  <2> DEFINE longer == [i \in 1 .. n + 2 |-> IF i = n + 2 THEN ended' \cap PushStreams ELSE over[i]]
  <2>1. longer \in [1 .. Len(inbox') + 1 -> SUBSET PushStreams]
    BY <1>1, <1>2
  <2>2. (\A i \in 1 .. n + 1 : longer[i] = over[i]) /\ longer[n + 2] = ended' \cap PushStreams
    BY <1>2
  <2> HIDE DEF longer
  <2> QED BY <2>1, <2>2
<1>8. /\ next[Len(inbox') + 1] = [p \in PushStreams |-> sent'[p]]
      /\ past[Len(inbox') + 1] = ended' \cap PushStreams
      /\ later[Len(inbox') + 1] = Len(done')
      /\ later[1] = pushSequence' /\ next[1] = got[1] /\ past[1] = over[1]
  <2>1. Len(inbox') + 1 = n + 2 /\ 1 \in 1 .. n + 1
    BY <1>2
  <2>2. count[1] = pushSequence
    BY <1>1 DEF PushFlows
  <2> QED BY <1>2, <1>5, <1>6, <1>7, <2>1, <2>2
<1>9. \A p \in PushStreams : p \notin past[1] => pushes'[p] = next[1][p]
  BY <1>1, <1>2, <1>8 DEF PushFlows
<1>10. ASSUME NEW i \in 1 .. n
       PROVE  /\ next[i] = got[i] /\ next[i + 1] = got[i + 1] /\ inbox'[i] = inbox[i]
              /\ past[i] = over[i] /\ past[i + 1] = over[i + 1]
              /\ later[i] = count[i] /\ later[i + 1] = count[i + 1]
              /\ count[i] \in 0 .. d /\ count[i + 1] \in 0 .. d
  <2>1. i \in 1 .. n + 1 /\ i + 1 \in 1 .. n + 1
    BY <1>2
  <2> QED BY <1>1, <1>2, <1>5, <1>6, <1>7, <2>1
<1>11. /\ next[n + 1] = [p \in PushStreams |-> sent[p]] /\ later[n + 1] = d
       /\ past[n + 1] = ended \cap PushStreams
       /\ inbox'[n + 1] = r
       /\ next[(n + 1) + 1] = [p \in PushStreams |-> sent'[p]] /\ later[(n + 1) + 1] = Len(done')
       /\ past[(n + 1) + 1] = ended' \cap PushStreams
  <2>1. /\ got[n + 1] = [p \in PushStreams |-> sent[p]] /\ count[n + 1] = d
        /\ over[n + 1] = ended \cap PushStreams
    BY <1>1 DEF PushFlows, d
  <2>2. n + 1 \in 1 .. n + 1 /\ (n + 1) + 1 = n + 2
    BY <1>2
  <2> QED BY <1>2, <1>5, <1>6, <1>7, <2>1, <2>2
<1>12. ASSUME NEW i \in 1 .. Len(inbox'), NEW p \in PushStreams
       PROVE  next[i + 1][p] = IF inbox'[i].type = "stream" /\ inbox'[i].id = p
                               THEN next[i][p] \o inbox'[i].payload ELSE next[i][p]
  <2>1. CASE i \in 1 .. n
    <3>1. got[i + 1][p] = IF inbox[i].type = "stream" /\ inbox[i].id = p
                          THEN got[i][p] \o inbox[i].payload ELSE got[i][p]
      BY <1>1, <2>1 DEF PushFlows
    <3> QED BY <1>10, <2>1, <3>1
  <2>2. CASE i = n + 1
    BY <1>3, <1>11, <2>2
  <2> QED BY <1>2, <2>1, <2>2
<1>13. ASSUME NEW i \in 1 .. Len(inbox')
       PROVE  /\ past[i + 1] = IF EndsPush(inbox'[i]) THEN past[i] \cup {inbox'[i].id} ELSE past[i]
              /\ inbox'[i].type = "stream" => inbox'[i].id \notin past[i]
              /\ later[i + 1] = IF EndsPush(inbox'[i]) /\ ValidPush(sent'[inbox'[i].id])
                                THEN later[i] + 1 ELSE later[i]
              /\ EndsPush(inbox'[i]) =>
                     inbox'[i].id \in ended' /\ next[i + 1][inbox'[i].id] = sent'[inbox'[i].id]
              /\ EndsPush(inbox'[i]) /\ ValidPush(sent'[inbox'[i].id]) =>
                     done'[later[i + 1]] = inbox'[i].id
  <2>1. CASE i \in 1 .. n
    <3>1. /\ over[i + 1] = IF EndsPush(inbox[i]) THEN over[i] \cup {inbox[i].id} ELSE over[i]
          /\ inbox[i].type = "stream" => inbox[i].id \notin over[i]
          /\ count[i + 1] = IF EndsPush(inbox[i]) /\ ValidPush(sent[inbox[i].id])
                            THEN count[i] + 1 ELSE count[i]
          /\ EndsPush(inbox[i]) =>
                 inbox[i].id \in ended /\ got[i + 1][inbox[i].id] = sent[inbox[i].id]
          /\ EndsPush(inbox[i]) /\ ValidPush(sent[inbox[i].id]) =>
                 done[count[i + 1]] = inbox[i].id
      BY <1>1, <2>1 DEF PushFlows
    <3>2. EndsPush(inbox[i]) => sent'[inbox[i].id] = sent[inbox[i].id]
      <4>1. EndsPush(inbox[i]) => inbox[i].id \in PushStreams
        BY DEF EndsPush
      <4> QED BY <1>3, <3>1, <4>1
    <3>3. EndsPush(inbox[i]) /\ ValidPush(sent[inbox[i].id]) => count[i + 1] \in 1 .. d
      <4>1. count[i] \in 0 .. d /\ count[i + 1] \in 0 .. d
        BY <1>10, <2>1
      <4>2. EndsPush(inbox[i]) /\ ValidPush(sent[inbox[i].id]) => count[i + 1] = count[i] + 1
        BY <3>1
      <4>3. d \in Nat
        BY <1>4
      <4> QED BY ONLY <4>1, <4>2, <4>3
    <3>4. EndsPush(inbox[i]) /\ ValidPush(sent[inbox[i].id]) => done'[count[i + 1]] = inbox[i].id
      BY <1>4, <3>1, <3>3
    <3>5. /\ inbox'[i] = inbox[i] /\ next[i + 1] = got[i + 1]
          /\ past[i] = over[i] /\ past[i + 1] = over[i + 1]
          /\ later[i] = count[i] /\ later[i + 1] = count[i + 1]
      BY <1>10, <2>1
    <3>6. EndsPush(inbox[i]) => inbox[i].id \in ended'
      BY <1>3, <3>1
    <3> QED BY ONLY <3>1, <3>2, <3>4, <3>5, <3>6
  <2>2. CASE i = n + 1
    <3>1. EndsPush(r) => r.id \in PushStreams /\ r.type = "stream"
      BY DEF EndsPush
    <3>2. EndsPush(r) => sent'[r.id] = sent[r.id] \o r.payload
      BY <1>3, <3>1
    <3>3. Counts(r) <=> EndsPush(r) /\ ValidPush(sent'[r.id])
      BY <3>2 DEF Counts
    <3>4. EndsPush(r) => next[(n + 1) + 1][r.id] = sent'[r.id]
      BY <1>11, <3>1
    <3>5. Counts(r) => done'[later[(n + 1) + 1]] = r.id
      BY <1>4, <1>11
    <3>6. later[(n + 1) + 1] = IF Counts(r) THEN later[n + 1] + 1 ELSE later[n + 1]
      BY <1>4, <1>11
    <3>7. past[(n + 1) + 1] = IF EndsPush(r) THEN past[n + 1] \cup {r.id} ELSE past[n + 1]
      BY <1>3, <1>11
    <3> QED BY <1>3, <1>11, <2>2, <3>3, <3>4, <3>5, <3>6, <3>7
  <2> QED BY <1>2, <2>1, <2>2
<1> HIDE DEF n
<1>14. PushFlows(next, past, later)'
  BY <1>8, <1>9, <1>12, <1>13 DEF PushFlows, EndsPush
<1> QED BY <1>5, <1>6, <1>7, <1>14 DEF PushFlow

(* no event is given, and the pushes that have ended stay as they are *)
LEMMA HeardKept ==
    ASSUME Heard, UNCHANGED <<seen, pushSequence>>,
           \A k \in DOMAIN done : k \in DOMAIN done' /\ done'[k] = done[k] /\ sent'[done[k]] = sent[done[k]]
    PROVE  Heard'
BY DEF Heard

(* everything but what the gateway sends and what the browser receives *)
LEMMA EventsKept ==
    ASSUME EventsInv, UNCHANGED <<seen, pushSequence, sent, ended, done>>,
           \/ socket' \in {"closing", "closed"}
           \/ socket \in {"none", "connecting", "open"} /\ UNCHANGED <<inbox, pushes>>
           \/ UNCHANGED <<socket, inbox, pushes>>
    PROVE  EventsInv'
<1>1. Heard'
  BY HeardKept DEF EventsInv
<1>2. \A k \in DOMAIN done' : done'[k] \in ended'
  BY DEF EventsInv
<1>3. socket' \in {"none", "connecting", "open"} => PushFlow'
  BY PushFlowKept DEF EventsInv
<1> QED BY <1>1, <1>2, <1>3 DEF EventsInv

LEMMA EventsGateway ==
    ASSUME Inv, EventsInv, NEW r, Sendable(r), GatewaySends(r)
    PROVE  EventsInv'
<1>1. /\ TypeOK /\ Heard /\ \A k \in DOMAIN done : done[k] \in ended
      /\ UNCHANGED <<seen, pushSequence, socket>>
  BY DEF Inv, EventsInv, GatewaySends, pushVars
<1>2. /\ \A k \in DOMAIN done' : done'[k] \in ended'
      /\ \A k \in DOMAIN done : k \in DOMAIN done' /\ done'[k] = done[k] /\ sent'[done[k]] = sent[done[k]]
  BY <1>1, SendingPushes
<1>3. Heard'
  BY <1>1, <1>2, HeardKept
<1>4. socket' \in {"none", "connecting", "open"} => PushFlow'
  BY <1>1, PushFlowSent DEF EventsInv
<1> QED BY <1>2, <1>3, <1>4 DEF EventsInv

(* the front of the inbox, when it is the last record of a push *)
LEMMA PushEnds ==
    ASSUME TypeOK, PushFlow, inbox # <<>>, EndsPush(Head(inbox))
    PROVE  /\ pushes[Head(inbox).id] \o Head(inbox).payload = sent[Head(inbox).id]
           /\ ValidPush(sent[Head(inbox).id]) =>
                  /\ pushSequence + 1 \in DOMAIN done
                  /\ done[pushSequence + 1] = Head(inbox).id
<1> DEFINE p == Head(inbox).id
<1>1. PICK got \in [1 .. Len(inbox) + 1 -> [PushStreams -> Seq(Piece)]],
           over \in [1 .. Len(inbox) + 1 -> SUBSET PushStreams],
           count \in [1 .. Len(inbox) + 1 -> 0 .. Len(done)] : PushFlows(got, over, count)
  BY DEF PushFlow
<1>2. /\ 1 \in 1 .. Len(inbox) /\ 1 + 1 \in 1 .. Len(inbox) + 1 /\ inbox[1] = Head(inbox)
      /\ DOMAIN done = 1 .. Len(done) /\ pushSequence \in Nat
  BY DEF TypeOK
<1>3. /\ inbox[1].type = "stream" /\ inbox[1].id = p /\ p \in PushStreams
      /\ EndsPush(inbox[1])
  BY <1>2 DEF EndsPush
<1> HIDE DEF p
<1>4. /\ count[1] = pushSequence /\ got[1 + 1][p] = sent[p] /\ p \notin over[1]
      /\ ValidPush(sent[p]) => count[1 + 1] = count[1] + 1 /\ done[count[1 + 1]] = p
  BY <1>1, <1>2, <1>3 DEF PushFlows
<1>5. count[1 + 1] \in 0 .. Len(done)
  BY <1>1, <1>2
<1>6. pushes[p] = got[1][p] /\ got[1 + 1][p] = got[1][p] \o inbox[1].payload
  BY <1>1, <1>2, <1>3, <1>4 DEF PushFlows
<1>7. ValidPush(sent[p]) => pushSequence + 1 \in DOMAIN done /\ done[pushSequence + 1] = p
  BY <1>2, <1>4, <1>5
<1>8. pushes[p] \o inbox[1].payload = sent[p]
  BY <1>4, <1>6
<1> QED BY <1>2, <1>7, <1>8 DEF p

(* the page is given one more event *)
LEMMA HeardOneMore ==
    ASSUME TypeOK, Heard, UNCHANGED <<sent, done>>, pushSequence' = pushSequence + 1,
           NEW event, event.seq = pushSequence + 1,
           event.seq \in DOMAIN done, done[event.seq] = event.push,
           sent[event.push] = Bytes(event.frame),
           seen' = Append(seen, event) \/ seen' = seen
    PROVE  Heard'
<1>1. /\ seen \in Seq([seq : Nat, push : PushStreams, frame : Frame]) /\ pushSequence \in Nat
      /\ DOMAIN seen = 1 .. Len(seen) /\ Len(seen) \in Nat
      /\ \A i \in DOMAIN seen : seen[i].seq \in Nat
  <2>1. seen \in Seq([seq : Nat, push : PushStreams, frame : Frame]) /\ pushSequence \in Nat
    BY DEF TypeOK
  <2>2. /\ DOMAIN seen = 1 .. Len(seen) /\ Len(seen) \in Nat
        /\ \A i \in DOMAIN seen : seen[i] \in [seq : Nat, push : PushStreams, frame : Frame]
    <3> DEFINE Event == [seq : Nat, push : PushStreams, frame : Frame]
    <3> HIDE DEF Event
    <3>1. seen \in Seq(Event)
      BY <2>1 DEF Event
    <3>2. /\ DOMAIN seen = 1 .. Len(seen) /\ Len(seen) \in Nat
          /\ \A i \in DOMAIN seen : seen[i] \in Event
      BY <3>1
    <3> QED BY <3>2 DEF Event
  <2> QED BY <2>1, <2>2
<1>2. CASE seen' = seen
  BY <1>1, <1>2 DEF Heard
<1>3. CASE seen' = Append(seen, event)
  <2>1. /\ DOMAIN seen' = 1 .. Len(seen) + 1 /\ seen'[Len(seen) + 1] = event
        /\ \A i \in 1 .. Len(seen) : seen'[i] = seen[i]
    BY <1>1, <1>3
  <2>2. ASSUME NEW i \in DOMAIN seen'
        PROVE  /\ seen'[i].seq \in DOMAIN done /\ seen'[i].seq <= pushSequence + 1
               /\ done[seen'[i].seq] = seen'[i].push
               /\ sent[seen'[i].push] = Bytes(seen'[i].frame)
               /\ \A j \in DOMAIN seen' : j < i => seen'[j].seq < seen'[i].seq
    <3>1. CASE i \in 1 .. Len(seen)
      <4>1. seen'[i] = seen[i] /\ \A j \in DOMAIN seen' : j < i => j \in 1 .. Len(seen) /\ seen'[j] = seen[j]
        BY <1>1, <2>1, <3>1
      <4> QED BY <1>1, <3>1, <4>1 DEF Heard
    <3>2. CASE i = Len(seen) + 1
      <4>1. \A j \in DOMAIN seen' : j < i => j \in 1 .. Len(seen) /\ seen'[j] = seen[j]
        BY <1>1, <2>1, <3>2
      <4>2. \A j \in DOMAIN seen' : j < i => seen'[j].seq < pushSequence + 1
        BY <1>1, <4>1 DEF Heard
      <4> QED BY <1>1, <2>1, <3>2, <4>2
    <3> QED BY <1>1, <2>1, <3>1, <3>2
  <2> QED BY <2>2 DEF Heard
<1> QED BY <1>2, <1>3

LEMMA EventsMessage ==
    ASSUME Inv, EventsInv, handleMessage
    PROVE  EventsInv'
<1> DEFINE r == Head(inbox)
<1>1. /\ TypeOK /\ Heard /\ PushFlow /\ inbox # <<>> /\ inbox' = Tail(inbox)
      /\ socket = "open" /\ UNCHANGED <<handlers, sent, ended, done>>
  BY DEF Inv, EventsInv, handleMessage, gatewayVars
<1>2. /\ r \in Record
      /\ r.type = "stream" => r.id \in Streams \cup {2}
  <2>1. inbox \in Seq(Record) /\ inbox[1] = r /\ 1 \in DOMAIN inbox
    BY <1>1 DEF TypeOK
  <2> QED BY <2>1 DEF Inv, Inbox
<1>3. \A k \in DOMAIN done' : done'[k] \in ended'
  BY <1>1 DEF EventsInv
<1>5. ASSUME UNCHANGED pushVars, r.type = "stream" => r.id \notin PushStreams
      PROVE  EventsInv'
  <2>1. UNCHANGED <<pushes, pushSequence, seen>> /\ ~EndsPush(r)
    BY <1>5 DEF pushVars, EndsPush
  <2>2. PushFlow'
    BY <1>1, <1>5, <2>1, PushFlowTaken
  <2>3. Heard'
    BY <1>1, <2>1, HeardKept
  <2> QED BY <1>3, <2>2, <2>3 DEF EventsInv
<1>6. CASE /\ r.type = "bad" \/ r.id % 4 > 1
           /\ protocolError /\ UNCHANGED <<exchangeVars, pushes>>
  <2>1. UNCHANGED pushVars
    BY <1>6 DEF protocolError, pushVars
  <2>2. r.type = "stream" => r.id \notin PushStreams
    <3>2. \A p \in PushStreams : p % 4 = 1
      BY StreamIds
    <3>3. ~(1 > 1)
      OBVIOUS
    <3>1. \A p \in PushStreams : ~(p % 4 > 1)
      BY <3>2, <3>3
    <3> HIDE DEF r
    <3> QED BY <1>6, <3>1
  <2> QED BY <1>5, <2>1, <2>2
<1>7. CASE r.type = "ephemeral" /\ UNCHANGED <<socket, callVars, status, pushVars>>
  BY <1>5, <1>7
<1>8. CASE r.type \in {"reset", "stop"} /\ handleAbort(r)
  BY <1>5, <1>8 DEF handleAbort
<1>9. CASE r.type = "stream" /\ r.id % 4 = 0 /\ handleResponse(r)
  <2>1. r.id \notin PushStreams
    <3>1. \A p \in PushStreams : p % 4 # 0
      BY StreamIds
    <3> HIDE DEF r
    <3> QED BY <1>9, <3>1
  <2>2. UNCHANGED pushVars
    BY <1>9 DEF handleResponse, finishResponse, Settle, protocolError, pushVars
  <2> QED BY <1>5, <2>1, <2>2
<1>10. CASE r.type = "stream" /\ r.id % 4 = 1 /\ handlePush(r)
  <2> DEFINE bytes == pushes[r.id] \o r.payload
             event == [seq |-> NextPush, push |-> r.id, frame |-> decodeFrames(bytes)[1]]
  <2>1. /\ r.id \in PushStreams /\ r.payload \in Seq(Piece)
        /\ pushes \in [PushStreams -> Seq(Piece)] /\ bytes \in Seq(Piece)
    <3>1. 0 # 1 /\ 2 % 4 # 1
      OBVIOUS
    <3>2. r.id \in PushStreams
      <4> HIDE DEF r
      <4> QED BY <1>2, <1>10, <3>1, StreamIds DEF Streams
    <3>3. r.payload \in Seq(Piece)
      BY <1>2 DEF Record
    <3>4. pushes \in [PushStreams -> Seq(Piece)]
      BY <1>1 DEF TypeOK
    <3> QED BY <3>2, <3>3, <3>4
  <2>2. CASE r.fin /\ ~ValidPush(bytes)
    <3>1. pushes' = [pushes EXCEPT ![r.id] = <<>>] /\ UNCHANGED <<pushSequence, seen>>
      BY <1>10, <2>2 DEF handlePush, protocolError
    <3>2. EndsPush(r)
      BY <1>10, <2>1, <2>2 DEF EndsPush
    <3>3. \A p \in PushStreams : pushes'[p] = IF r.id = p THEN <<>> ELSE pushes[p]
      BY <2>1, <3>1
    <3>4. bytes = sent[r.id]
      BY <1>1, <3>2, PushEnds
    <3>5. ~ValidPush(sent[r.id])
      BY <2>2, <3>4
    <3>6. PushFlow'
      <4> HIDE DEF bytes
      <4> QED BY <1>1, <1>10, <2>2, <3>1, <3>3, <3>5, PushFlowTaken
    <3>7. Heard'
      BY <1>1, <3>1, HeardKept
    <3> QED BY <1>3, <3>6, <3>7 DEF EventsInv
  <2>3. CASE ~r.fin
    <3>1. /\ pushes' = [pushes EXCEPT ![r.id] = bytes]
          /\ UNCHANGED <<pushSequence, seen>>
      BY <1>10, <2>3 DEF handlePush
    <3>2. ~EndsPush(r)
      BY <2>3 DEF EndsPush
    <3>3. \A p \in PushStreams : pushes'[p] = IF r.id = p THEN bytes ELSE pushes[p]
      BY <2>1, <3>1
    <3>4. PushFlow'
      BY <1>1, <1>10, <2>3, <3>1, <3>2, <3>3, PushFlowTaken
    <3>5. Heard'
      BY <1>1, <3>1, HeardKept
    <3> QED BY <1>3, <3>4, <3>5 DEF EventsInv
  <2>4. CASE r.fin /\ ValidPush(bytes)
    <3>1. /\ pushes' = [pushes EXCEPT ![r.id] = <<>>] /\ pushSequence' = pushSequence + 1
          /\ seen' = IF handlers THEN Append(seen, event) ELSE seen
      BY <1>10, <2>4 DEF handlePush, NextPush
    <3>2. EndsPush(r)
      BY <1>10, <2>1, <2>4 DEF EndsPush
    <3>3. \A p \in PushStreams : pushes'[p] = IF r.id = p THEN <<>> ELSE pushes[p]
      BY <2>1, <3>1
    <3>8. bytes = sent[r.id] /\ ValidPush(sent[r.id])
      BY <1>1, <2>4, <3>2, PushEnds
    <3>4. PushFlow'
      <4> HIDE DEF bytes
      <4> QED BY <1>1, <1>10, <2>4, <3>1, <3>2, <3>3, <3>8, PushFlowTaken
    <3>5. /\ pushSequence + 1 \in DOMAIN done /\ done[pushSequence + 1] = r.id
          /\ bytes = sent[r.id]
      BY <1>1, <3>2, <3>8, PushEnds
    <3>6. sent[r.id] = Bytes(decodeFrames(bytes)[1])
      BY <2>1, <2>4, <3>5, OneFrame DEF ValidPush
    <3>7. Heard'
      <4>1. /\ event.seq = pushSequence + 1 /\ event.push = r.id
            /\ event.frame = decodeFrames(bytes)[1]
        BY DEF NextPush
      <4> HIDE DEF event, bytes, r
      <4> QED BY <1>1, <3>1, <3>5, <3>6, <4>1, HeardOneMore
    <3> QED BY <1>3, <3>4, <3>7 DEF EventsInv
  <2> QED BY <2>2, <2>3, <2>4
<1> QED BY <1>6, <1>7, <1>8, <1>9, <1>10 DEF handleMessage

LEMMA InitEvents == Init => EventsInv
<1> SUFFICES ASSUME Init PROVE EventsInv
  OBVIOUS
<1>1. Len(inbox) = 0 /\ 1 .. 0 + 1 = 1 .. 1 /\ <<>> \in Seq(Piece) /\ Len(done) = 0
      /\ DOMAIN done = {} /\ DOMAIN seen = {}
  BY DEF Init
<1> DEFINE got == [i \in 1 .. 1 |-> [p \in PushStreams |-> <<>>]]
           count == [i \in 1 .. 1 |-> 0]
           over == [i \in 1 .. 1 |-> {}]
<1>2. /\ got \in [1 .. Len(inbox) + 1 -> [PushStreams -> Seq(Piece)]]
      /\ over \in [1 .. Len(inbox) + 1 -> SUBSET PushStreams]
      /\ count \in [1 .. Len(inbox) + 1 -> 0 .. Len(done)]
  BY <1>1
<1>3. PushFlows(got, over, count)
  BY <1>1 DEF PushFlows, Init, Streams
<1>4. PushFlow
  BY <1>2, <1>3 DEF PushFlow
<1> QED BY <1>1, <1>4 DEF EventsInv, Heard

LEMMA NextEvents == Inv /\ EventsInv /\ [Next]_vars => EventsInv'
<1> SUFFICES ASSUME Inv, EventsInv, [Next]_vars PROVE EventsInv'
  OBVIOUS
<1> USE DEF callVars, pushVars, gatewayVars
<1>1. CASE connect \/ connectTimeout \/ onConnectError \/ subscribe
  <2>1. UNCHANGED <<seen, pushSequence, sent, ended, done, inbox, pushes>>
    BY <1>1 DEF connect, connectTimeout, onConnectError, subscribe, connectVars
  <2>2. \/ socket' \in {"closing", "closed"} \/ socket' = socket
        \/ socket \in {"none", "connecting", "open"}
    BY <1>1 DEF connect, connectTimeout, onConnectError, subscribe, Inv, Life, TypeOK
  <2> QED BY <2>1, <2>2, EventsKept
<1>2. CASE \E protocol \in {"lyune.v2", ""} : onOpen(protocol)
  <2>1. UNCHANGED <<seen, pushSequence, sent, ended, done, inbox, pushes>> /\ socket = "connecting"
    BY <1>2 DEF onOpen, connectVars
  <2> QED BY <2>1, EventsKept
<1>3. CASE close \/ onClose
  <2>1. UNCHANGED <<seen, pushSequence, sent, ended, done>> /\ socket' \in {"closing", "closed"}
    BY <1>3 DEF close, onClose, closeVars, Inv, Life, TypeOK
  <2> QED BY <2>1, EventsKept
<1>4. CASE \/ \E op \in {"auth", "command", "typing"} : exchange(op)
           \/ \E c \in ClientStreams : exchangeTimeout(c)
           \/ UNCHANGED vars
  <2>1. UNCHANGED <<seen, pushSequence, sent, ended, done, inbox, pushes, socket>>
    BY <1>4 DEF exchange, exchangeTimeout, vars
  <2> QED BY <2>1, EventsKept
<1>5. CASE handleMessage
  BY <1>5, EventsMessage
<1>6. CASE Gateway
  BY <1>6, GatewayRecord, EventsGateway
<1> QED BY <1>1, <1>2, <1>3, <1>4, <1>5, <1>6 DEF Next

(***************************************************************************)
(* Theorems                                                                *)
(***************************************************************************)
LEMMA StutterInv == Inv /\ UNCHANGED vars => Inv'
<1> SUFFICES ASSUME Inv, UNCHANGED vars PROVE Inv'
  OBVIOUS
<1> USE DEF vars, callVars, pushVars, gatewayVars
<1>1. TypeOK' /\ Life' /\ Inbox'
  BY DEF Inv, TypeOK, Life, Inbox
<1>2. Calls'
  BY CallsKept DEF Inv
<1>3. Flow'
  BY FlowKept DEF Inv
<1> QED BY <1>1, <1>2, <1>3 DEF Inv

LEMMA NextInv == Inv /\ [Next]_vars => Inv'
<1> SUFFICES ASSUME Inv, [Next]_vars PROVE Inv'
  OBVIOUS
<1>1. CASE connect \/ connectTimeout \/ onConnectError \/ subscribe
  BY <1>1, ConnectInv
<1>2. CASE \E protocol \in {"lyune.v2", ""} : onOpen(protocol)
  BY <1>2, ConnectInv
<1>3. CASE close \/ onClose
  BY <1>3, CloseInv
<1>4. CASE \E op \in {"auth", "command", "typing"} : exchange(op)
  BY <1>4, ExchangeInv
<1>5. CASE \E c \in ClientStreams : exchangeTimeout(c)
  BY <1>5, TimeoutInv
<1>6. CASE handleMessage
  BY <1>6, MessageInv
<1>7. CASE Gateway
  BY <1>7, GatewayInv
<1>8. CASE UNCHANGED vars
  BY <1>8, StutterInv
<1> QED BY <1>1, <1>2, <1>3, <1>4, <1>5, <1>6, <1>7, <1>8 DEF Next

(* The invariant holds in every state of the session: the typing, what the *)
(* socket says of the status, the callers that wait, and how the records   *)
(* on their way join up with what has been received and sent.              *)
THEOREM SessionInvariant == Spec => []Inv
<1>1. Init => Inv
  BY InitInv
<1>2. Inv /\ [Next]_vars => Inv'
  BY NextInv
<1> QED BY <1>1, <1>2, PTL DEF Spec

(* Every caller that waits has an entry in pending and a timer, and a      *)
(* closed session keeps nothing; the callers whose answer did not decode   *)
(* are the one exception (the delete of handleResponse comes before the    *)
(* decoding, and the catch block of handleMessage settles nothing).        *)
THEOREM CallsAccountedAlways == Spec => []CallsAccounted
<1>1. Inv => CallsAccounted
  BY DEF Inv, Life, Calls, CallsAccounted
<1> QED BY <1>1, SessionInvariant, PTL

(* An answer is the whole of what the gateway sent on the stream of the    *)
(* exchange, put together by handleResponse from the records of any number *)
(* of interleaved streams, and the stream has ended.                       *)
THEOREM AnswersCorrect == Spec => []AnswersIntact
<1>1. Inv => AnswersIntact
  BY DEF Inv, Calls
<1> QED BY <1>1, SessionInvariant, PTL

(* Once handleClose has given a session its reason no step changes the     *)
(* status again, nor calls onClose a second time.                          *)
THEOREM ReasonStays == Spec => FirstReasonStays
<1>1. ASSUME Inv, [Next]_vars, status.closedBy # "nobody" PROVE UNCHANGED status
  <2>1. /\ ~status.connected /\ socket \notin {"none", "connecting", "open"}
        /\ opening.state = "resolved" /\ ~opening.timer /\ timers = {}
    BY <1>1 DEF Inv, TypeOK, Life, Calls
  <2>2. CASE close \/ onClose
    BY <2>1, <2>2 DEF close, onClose, handleClose, AlreadyClosed
  <2>3. CASE \/ connect \/ connectTimeout \/ onConnectError \/ subscribe
             \/ \E protocol \in {"lyune.v2", ""} : onOpen(protocol)
    BY <2>1, <2>3 DEF connect, connectTimeout, onOpen, onConnectError, subscribe
  <2>4. CASE \/ \E op \in {"auth", "command", "typing"} : exchange(op)
             \/ \E c \in ClientStreams : exchangeTimeout(c)
             \/ handleMessage \/ Gateway
    <3>1. ASSUME NEW r PROVE ~GatewaySends(r)
      BY <2>1 DEF GatewaySends
    <3>2. ~Gateway
      BY <3>1 DEF Gateway
    <3> QED BY <2>1, <2>4, <3>2 DEF exchange, exchangeTimeout, handleMessage
  <2>5. CASE UNCHANGED vars
    BY <2>5 DEF vars
  <2> QED BY <1>1, <2>2, <2>3, <2>4, <2>5 DEF Next
<1>2. Inv /\ [Next]_vars => [status.closedBy # "nobody" => UNCHANGED status]_vars
  BY <1>1
<1> QED BY <1>2, SessionInvariant, PTL DEF Spec, FirstReasonStays

(* The events of the page are the valid pushes in the order in which the   *)
(* gateway ended them, numbered by NextPush, each once and each with the   *)
(* frame that was sent, however handlePush met their records interleaved,  *)
(* whatever invalid pushes it met in between and whenever the page         *)
(* subscribed.                                                             *)
THEOREM PushesCorrect == Spec => []PushesInOrder
<1>1. Init => Inv /\ EventsInv
  BY InitInv, InitEvents
<1>2. Inv /\ EventsInv /\ [Next]_vars => (Inv /\ EventsInv)'
  BY NextInv, NextEvents
<1>3. EventsInv => PushesInOrder
  BY DEF EventsInv, Heard, PushesInOrder
<1> QED BY <1>1, <1>2, <1>3, PTL DEF Spec

===============================================================================
