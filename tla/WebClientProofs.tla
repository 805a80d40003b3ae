--------------------------- MODULE WebClientProofs ---------------------------
(***************************************************************************)
(* Proofs about the page of the web client, for any users, groups and      *)
(* transports, and for any number of sessions, requests, events and        *)
(* clicks.                                                                 *)
(***************************************************************************)
EXTENDS WebClient, FiniteSetTheorems, WellFoundedInduction, SequenceTheorems, TLAPS

(***************************************************************************)
(* The inductive invariant.                                                *)
(***************************************************************************)
Arrivals == {"auth", "restore"}
Op == {"list", "presence", "open", "create", "send", "join", "joinList", "joinOpen",
       "auth", "restore", "logout"}

Page == [groups : SUBSET Groups, active : Groups \cup {0}, messages : SUBSET (1 .. MaxEvents),
         presence : Groups \cup {0}, typing : BOOLEAN, busy : Busy,
         pushState : {"idle", "listening", "retrying"}]
Event == [type : {"message"}, group : Groups, id : 1 .. MaxEvents]
         \cup [type : {"typing"}, group : Groups, id : {0}]
SessionRecord == [user : Users \cup {"nobody"}, mode : Modes, up : BOOLEAN,
                  events : Seq(Event), received : Nat]
CallRecord == [op : Op, mode : Modes, via : Sessions, group : Groups \cup {0},
               stage : {"sent", "answered"}, got : SUBSET Nat]

(* A request and its answer; s are the sessions.  The backend answers over *)
(* the transport of the session only.                                      *)
CallTyped(c, s) ==
    /\ c \in CallRecord
    /\ c.op \in {"open", "join", "joinList", "joinOpen", "presence", "send"} => c.group \in Groups
    /\ c.op \in {"restore", "logout"} => c.mode = "raw-quic"
    /\ s[c.via].user # "nobody"
    /\ c.stage = "answered" =>
         /\ s[c.via].mode = c.mode
         /\ c.op \in {"list", "joinList"} => c.got \subseteq Groups
         /\ c.op \in {"open", "joinOpen", "send"} => c.got \subseteq 1 .. MaxEvents
         /\ c.op = "create" => \E g \in Groups : c.got = {g}

CallsTyped ==
    /\ calls \in [Slots -> {NoCall} \cup CallRecord]
    /\ \A i \in Slots : calls[i].op # "none" => CallTyped(calls[i], sess)

SessTyped ==
    /\ sess \in [Sessions -> SessionRecord]
    /\ \A k \in Sessions : sess[k].up => sess[k].user # "nobody"

BackendTyped ==
    /\ SessTyped
    /\ member \in [Users -> SUBSET Groups]
    /\ stored \in Seq(Groups) /\ Len(stored) <= MaxEvents

PageTyped ==
    /\ TypeOK
    /\ poll \in [state : {"none", "sent", "waiting"}, id : 0 .. MaxSessions, after : Nat]
    /\ effects \in [id : 0 .. MaxSessions, mode : Modes, active : Groups \cup {0},
                    up : BOOLEAN, once : BOOLEAN]
    /\ saved \in [id : 0 .. MaxSessions, mode : Modes]
    /\ origin \in [groups : SUBSET Sessions, messages : SUBSET Sessions, presence : SUBSET Sessions]
    /\ applied \in Seq(Nat)
    /\ raced \in BOOLEAN /\ lost \in BOOLEAN

WellTyped == PageTyped /\ BackendTyped /\ CallsTyped

(* where the data on the page came from *)
Sources(o) == o.groups \cup o.messages \cup o.presence

(* A session that the page knows was opened by a login, and one that a     *)
(* login or a restore is about to bring is new to the page.                *)
SessionsKnown ==
    /\ \A k \in {session.id, wss, on, effects.id, poll.id, saved.id} \ {0} : sess[k].user # "nobody"
    /\ \A k \in Sources(origin) : sess[k].user # "nobody"
    /\ \A i \in Slots : calls[i].op \in Arrivals =>
         /\ calls[i].via \notin {session.id, effects.id, wss}
         /\ \A j \in Slots \ {i} : calls[j].op \in Arrivals => calls[j].via # calls[i].via

(* What the effects that ran last have left: one subscription, or one      *)
(* poll, or none.                                                          *)
OneSubscription ==
    /\ effects.id # 0 => mode = effects.mode
    /\ effects.up => effects.once
    /\ effects.once => effects.id # 0 /\ effects.mode = "wss"
    /\ on # 0 => effects.id # 0 /\ effects.mode = "wss"
    /\ poll.state # "none" => effects.id # 0 /\ effects.mode = "raw-quic" /\ poll.id = effects.id
    /\ wss # 0 => sess[wss].mode = "wss"

(* While the effects are those of the session, the subscription is to the  *)
(* WebSocket of the page, and its end has been told.                       *)
Subscription ==
    (effects.id # 0 /\ effects.mode = "wss" /\ session.id = effects.id) =>
        /\ on = wss
        /\ effects.once => wss # 0
        /\ (effects.once /\ ~sess[wss].up) => ~session.connected
        /\ (effects.up /\ ~sess[wss].up) => page.pushState = "retrying"

(* Logins one after the other: nothing of a session outlives it.           *)
OneSession ==
    /\ (effects.id # 0 /\ session.id # 0) => session.id = effects.id
    /\ \A i \in Slots : calls[i].op \in Arrivals =>
         /\ session.id = 0 /\ effects.id = 0
         /\ \A j \in Slots \ {i} : calls[j].op \notin Arrivals \cup {"logout"}
         /\ calls[i].op = "restore" => cursor = 0
    /\ \A i \in Slots : calls[i].op = "logout" => session.id = 0 \/ mode = "raw-quic"
    /\ (effects.id # 0 /\ effects.mode = "wss" /\ session.id = 0) =>
         wss = 0 /\ (on # 0 => ~sess[on].up)

WssCallsAreCurrent ==
    \A i \in Slots : (calls[i].op \notin Arrivals \cup {"none"} /\ calls[i].mode = "wss") =>
        session.id # 0 /\ mode = "wss" /\ calls[i].via = wss

WssSourcesAreCurrent ==
    \A k \in Sources(origin) : sess[k].mode = "wss" => k = wss /\ session.id # 0 /\ mode = "wss"

(* the cursor, the events applied, and those received or polled *)
CursorIsLast ==
    /\ poll.state = "sent" => poll.after = cursor
    /\ (session.id # 0 /\ mode = "raw-quic" /\ applied = << >>) => cursor = 0
    /\ (session.id # 0 /\ effects.id # session.id) => applied = << >> /\ cursor = 0
    /\ (on # 0 /\ sess[on].up) =>
         /\ cursor <= sess[on].received
         /\ applied # << >> => cursor = sess[on].received
    /\ applied # << >> =>
         /\ \A n \in DOMAIN applied : applied[n] = applied[1] + n - 1
         /\ (session.id # 0 /\ mode = "raw-quic") => applied[1] = 1
         /\ cursor = applied[Len(applied)]

InTurn == OneSession /\ WssCallsAreCurrent /\ WssSourcesAreCurrent /\ CursorIsLast

PageInv == WellTyped /\ SessionsKnown /\ OneSubscription /\ Subscription /\ (~raced => InTurn)

(***************************************************************************)
(* The operators of the model.                                             *)
(***************************************************************************)
LEMMA LeastExists ==
    ASSUME NEW V, V \subseteq Nat, V # {}
    PROVE  Min(V) \in V
  <1>1. PICK m \in V : \A k \in V : ~(<<k, m>> \in OpToRel(<, Nat))
    BY NatLessThanWellFounded, WFMin
  <1>2. \A k \in V : ~(k < m)
    BY <1>1 DEF OpToRel
  <1>3. \A k \in V : m <= k
    BY <1>2
  <1> QED BY <1>3 DEF Min

LEMMA GreatestOfTwo ==
    ASSUME NEW a \in Nat, NEW b \in Nat
    PROVE  Max({a, b}) = IF a <= b THEN b ELSE a
  BY DEF Max

LEMMA GreatestOfOne ==
    ASSUME NEW a \in Nat
    PROVE  Max({a}) = a
  BY DEF Max

LEMMA Constants ==
    /\ "nobody" \notin Users
    /\ Groups \subseteq Nat \ {0}
    /\ Joined \in [Users -> SUBSET Groups]
    /\ Modes \subseteq {"wss", "raw-quic"} /\ "wss" \in Modes
    /\ MaxSessions \in Nat /\ MaxCalls \in Nat /\ MaxEvents \in Nat /\ MaxClicks \in Nat
    /\ Slots \subseteq Nat /\ Sessions \subseteq Nat /\ 0 \notin Sessions
    /\ Sessions \cup {0} = 0 .. MaxSessions
  BY WebClientAssumption DEF Slots, Sessions

(* A request is placed in a free slot. *)
LEMMA PlacedInFreeSlot ==
    ASSUME NEW cs, NEW r, \E i \in Slots : cs[i].op = "none"
    PROVE  \E j \in Slots : cs[j].op = "none" /\ Placed(cs, r) = [cs EXCEPT ![j] = r]
  <1> DEFINE F == {i \in Slots : cs[i].op = "none"}
  <1>1. F \subseteq Nat /\ F # {}
    BY Constants
  <1>2. Min(F) \in F
    BY <1>1, LeastExists
  <1> QED BY <1>2 DEF Placed

(* Of two free slots one is left when a request is placed. *)
LEMMA TwoFreeSlots ==
    ASSUME NEW cs, NEW j \in Slots,
           Cardinality({i \in Slots : cs[i].op = "none"}) >= 2
    PROVE  \E i \in Slots \ {j} : cs[i].op = "none"
  <1> DEFINE F == {i \in Slots : cs[i].op = "none"}
  <1>1. IsFiniteSet(Slots)
    BY FS_Interval, WebClientAssumption DEF Slots
  <1>2. IsFiniteSet(F)
    BY <1>1, FS_Subset
  <1>3. Cardinality(F) >= 2
    OBVIOUS
  <1>4. F # {} /\ F # {j}
    <2>1. Cardinality({}) = 0 /\ Cardinality({j}) = 1
      BY FS_EmptySet, FS_Singleton
    <2>2. Cardinality(F) # 0 /\ Cardinality(F) # 1
      BY <1>3
    <2> HIDE DEF F
    <2> QED BY <2>1, <2>2
  <1> QED BY <1>4

LEMMA OneFreeSlot ==
    ASSUME NEW cs, Cardinality({i \in Slots : cs[i].op = "none"}) >= 1
    PROVE  \E i \in Slots : cs[i].op = "none"
  <1>1. {i \in Slots : cs[i].op = "none"} # {}
    BY FS_EmptySet
  <1> QED BY <1>1

(***************************************************************************)
(* Sessions and requests keep what is known of them.                       *)
(***************************************************************************)

(* from s to t, a session that was opened stays that of its user *)
Stays(s, t) == \A k \in Sessions : s[k].user # "nobody" =>
                  t[k].user = s[k].user /\ t[k].mode = s[k].mode

LEMMA CallStays ==
    ASSUME NEW c, NEW s, NEW t, CallTyped(c, s), Stays(s, t)
    PROVE  CallTyped(c, t)
  BY DEF CallTyped, CallRecord, Stays

LEMMA CallIsRecord ==
    ASSUME NEW c, c \in {NoCall} \cup CallRecord
    PROVE  (c.op = "none" <=> c = NoCall) /\ c.op \in Op \cup {"none"}
  BY DEF NoCall, CallRecord, Op

(* the requests new are those of old, without some, and with some of R *)
Follows(new, old, R) ==
    /\ new = [i \in Slots |-> new[i]]
    /\ \A i \in Slots : new[i] \in {old[i], NoCall} \cup R

LEMMA CallsStay ==
    ASSUME CallsTyped, Stays(sess, sess'), NEW R, Follows(calls', calls, R),
           \A r \in R : CallTyped(r, sess')
    PROVE  CallsTyped'
  <1>1. \A i \in Slots : calls'[i].op # "none" => CallTyped(calls'[i], sess')
    <2> SUFFICES ASSUME NEW i \in Slots, calls'[i].op # "none" PROVE CallTyped(calls'[i], sess')
      OBVIOUS
    <2>1. CASE calls'[i] = calls[i]
      BY <2>1, CallStays DEF CallsTyped
    <2>2. CASE calls'[i] = NoCall
      BY <2>2 DEF NoCall
    <2> QED BY <2>1, <2>2 DEF Follows
  <1>2. \A i \in Slots : calls'[i] \in {NoCall} \cup CallRecord
    BY DEF CallsTyped, CallTyped, Follows
  <1>3. calls' \in [Slots -> {NoCall} \cup CallRecord]
    BY <1>2 DEF Follows
  <1> QED BY <1>1, <1>3 DEF CallsTyped

LEMMA CallsFollow ==
    ASSUME CallsTyped
    PROVE  Follows(calls, calls, {})
  BY DEF CallsTyped, Follows

LEMMA WithoutFollows ==
    ASSUME CallsTyped, NEW F
    PROVE  Follows(Without(F), calls, {})
  BY DEF Without, Follows

LEMMA PlacedFollows ==
    ASSUME NEW new, NEW old, NEW R, Follows(new, old, R), NEW r,
           \E i \in Slots : new[i].op = "none"
    PROVE  Follows(Placed(new, r), old, R \cup {r})
  <1>1. PICK j \in Slots : Placed(new, r) = [new EXCEPT ![j] = r]
    BY PlacedInFreeSlot
  <1> QED BY <1>1 DEF Follows

LEMMA ReplacedFollows ==
    ASSUME CallsTyped, NEW i, NEW r
    PROVE  Follows([calls EXCEPT ![i] = r], calls, {r})
  BY DEF CallsTyped, Follows

(***************************************************************************)
(* Typing, and that sessions stay, action by action.                       *)
(***************************************************************************)
LEMMA CommandTyped ==
    ASSUME WellTyped, SessionsKnown, NEW op \in Op \ {"restore", "logout"}, NEW m \in Modes,
           NEW id \in Sessions, sess[id].user # "nobody", Reaches(m, id),
           NEW g \in Groups \cup {0},
           op \in {"open", "join", "joinList", "joinOpen", "presence", "send"} => g \in Groups
    PROVE  CallTyped(Command(op, m, id, g), sess)
  <1>1. m = "wss" => wss \in Sessions /\ sess[wss].user # "nobody"
    BY Constants DEF Reaches, WellTyped, PageTyped, TypeOK, SessionsKnown
  <1>2. Command(op, m, id, g) \in CallRecord
    BY <1>1 DEF Command, Request, CallRecord
  <1> QED BY <1>1, <1>2 DEF CallTyped, Command, Request

LEMMA SessionInUse ==
    ASSUME WellTyped, SessionsKnown
    PROVE  /\ session.id # 0 => session.id \in Sessions /\ sess[session.id].user # "nobody"
           /\ effects.id # 0 => effects.id \in Sessions /\ sess[effects.id].user # "nobody"
           /\ saved.id # 0 => saved.id \in Sessions /\ sess[saved.id].user # "nobody"
           /\ wss # 0 => wss \in Sessions /\ sess[wss].user # "nobody"
           /\ on # 0 => on \in Sessions /\ sess[on].user # "nobody"
           /\ poll.id # 0 => poll.id \in Sessions /\ sess[poll.id].user # "nobody"
  <1>1. /\ session.id \in 0 .. MaxSessions /\ effects.id \in 0 .. MaxSessions
        /\ saved.id \in 0 .. MaxSessions /\ wss \in 0 .. MaxSessions
        /\ on \in 0 .. MaxSessions /\ poll.id \in 0 .. MaxSessions
    BY DEF WellTyped, PageTyped, TypeOK
  <1>2. \A k \in 0 .. MaxSessions : k # 0 => k \in Sessions
    BY Constants
  <1> QED BY <1>1, <1>2 DEF SessionsKnown

LEMMA AskStep ==
    ASSUME WellTyped, SessionsKnown, NEW op \in Op \ {"restore", "logout"}, NEW busy \in Busy,
           NEW g \in Groups \cup {0},
           op \in {"open", "join", "joinList", "joinOpen", "presence", "send"} => g \in Groups,
           Ask(op, g, busy)
    PROVE  /\ WellTyped'
           /\ Follows(calls', calls, {Command(op, mode, session.id, g)})
  <1> DEFINE r == Command(op, mode, session.id, g)
  <1>1. CallTyped(r, sess)
    BY SessionInUse, CommandTyped DEF Ask, SignedIn, WellTyped, PageTyped, TypeOK
  <1>2. Follows(calls', calls, {r})
    <2>1. \E i \in Slots : calls[i].op = "none"
      BY DEF Ask, Free
    <2>2. Follows(Placed(calls, r), calls, {} \cup {r})
      BY <2>1, CallsFollow, PlacedFollows DEF WellTyped
    <2> QED BY <2>2 DEF Ask
  <1>3. PageTyped'
    BY DEF Ask, WellTyped, PageTyped, TypeOK, history
  <1>4. CallsTyped'
    <2>1. Stays(sess, sess') /\ sess' = sess
      BY DEF Ask, backend, Stays
    <2> QED BY <1>1, <1>2, <2>1, CallsStay DEF WellTyped
  <1>5. BackendTyped'
    BY DEF Ask, WellTyped, BackendTyped, SessTyped, backend
  <1> QED BY <1>2, <1>3, <1>4, <1>5 DEF WellTyped

LEMMA setTransportModeStep ==
    ASSUME WellTyped, NEW m \in Modes, setTransportMode(m)
    PROVE  WellTyped' /\ calls' = calls /\ sess' = sess
  <1>1. PageTyped'
    BY DEF setTransportMode, WellTyped, PageTyped, TypeOK, history
  <1>2. BackendTyped' /\ sess' = sess
    BY DEF setTransportMode, WellTyped, BackendTyped, SessTyped, backend
  <1>3. CallsTyped' /\ calls' = calls
    BY <1>2 DEF setTransportMode, WellTyped, CallsTyped
  <1> QED BY <1>1, <1>2, <1>3 DEF WellTyped

LEMMA EndedTyped ==
    ASSUME SessTyped, NEW k \in Sessions
    PROVE  /\ Ended(k) \in SessionRecord /\ ~Ended(k).up
           /\ Ended(k).user = sess[k].user /\ Ended(k).mode = sess[k].mode
           /\ Ended(k).received = 0
  <1>1. << >> \in Seq(Event)
    OBVIOUS
  <1> QED BY <1>1 DEF SessTyped, SessionRecord, Ended, NewSession

(* the session that authenticate opens *)
NextSession == Min({n \in Sessions : sess[n].user = "nobody"})

LEMMA NextSessionIsNew ==
    ASSUME \E n \in Sessions : sess[n].user = "nobody"
    PROVE  NextSession \in Sessions /\ sess[NextSession].user = "nobody"
  <1> DEFINE V == {n \in Sessions : sess[n].user = "nobody"}
  <1>1. V \subseteq Nat /\ V # {}
    BY Constants
  <1>2. Min(V) \in V
    BY <1>1, LeastExists
  <1> QED BY <1>2 DEF NextSession

LEMMA RejectionKeepsPage ==
    ASSUME NEW p \in Page, NEW F
    PROVE  /\ AfterRejection(p, F) \in Page
           /\ AfterRejection(p, F).pushState = p.pushState
  <1>1. "none" \in Busy
    BY DEF Busy
  <1> QED BY <1>1 DEF AfterRejection, Page

LEMMA authenticateStep ==
    ASSUME WellTyped, NEW u \in Users, authenticate(u)
    PROVE  /\ WellTyped' /\ Stays(sess, sess')
           /\ NextSession \in Sessions /\ sess[NextSession].user = "nobody"
           /\ Follows(calls', calls, {Request("auth", mode, NextSession, 0)})
           /\ \A n \in Sessions : sess'[n] = IF n = NextSession THEN NewSession(u, mode)
                                             ELSE IF mode = "wss" /\ n = wss THEN Ended(n)
                                             ELSE sess[n]
  <1> DEFINE k == NextSession
             failing == IF mode = "wss" THEN PendingOn(wss) ELSE {}
             r == Request("auth", mode, k, 0)
  <1>1. k \in Sessions /\ sess[k].user = "nobody"
    BY NextSessionIsNew DEF authenticate
  <1>2. sess' = [n \in Sessions |-> IF n = k THEN NewSession(u, mode)
                                    ELSE IF mode = "wss" /\ n = wss THEN Ended(n) ELSE sess[n]]
    BY DEF authenticate, NextSession
  <1>3. Stays(sess, sess')
    BY <1>1, <1>2, EndedTyped DEF Stays, WellTyped, BackendTyped
  <1>4. NewSession(u, mode) \in SessionRecord /\ NewSession(u, mode).mode = mode
        /\ NewSession(u, mode).user = u
    <2>1. << >> \in Seq(Event)
      OBVIOUS
    <2> QED BY <2>1 DEF NewSession, SessionRecord, WellTyped, PageTyped, TypeOK
  <1>5. SessTyped'
    <2>1. sess' \in [Sessions -> SessionRecord]
      BY <1>2, <1>4, EndedTyped DEF WellTyped, BackendTyped, SessTyped
    <2>2. \A n \in Sessions : sess'[n].up => sess'[n].user # "nobody"
      BY <1>2, <1>4, EndedTyped DEF WellTyped, BackendTyped, SessTyped, NewSession
    <2> QED BY <2>1, <2>2 DEF SessTyped
  <1>6. CallTyped(r, sess')
    BY <1>1, <1>2, <1>4, Constants
       DEF CallTyped, CallRecord, Request, Op, WellTyped, PageTyped, TypeOK
  <1>7. Follows(calls', calls, {r})
    <2>1. \E i \in Slots : Without(failing)[i].op = "none"
      <3>1. PICK i \in Slots : calls[i].op = "none"
        BY DEF authenticate, Free
      <3>2. Without(failing)[i].op = "none"
        BY <3>1 DEF Without, NoCall
      <3> QED BY <3>2
    <2>2. Follows(Placed(Without(failing), r), calls, {} \cup {r})
      BY <2>1, WithoutFollows, PlacedFollows DEF WellTyped
    <2>3. calls' = Placed(Without(failing), r)
      BY DEF authenticate, NextSession
    <2> QED BY <2>2, <2>3
  <1>8. page' \in Page
    <2>1. [page EXCEPT !.busy = "auth"] \in Page
      BY DEF WellTyped, PageTyped, TypeOK, Page, Busy
    <2>2. page' = AfterRejection([page EXCEPT !.busy = "auth"], failing)
      BY DEF authenticate
    <2> QED BY <2>1, <2>2, RejectionKeepsPage
  <1>9. PageTyped'
    <2>1. raced' \in BOOLEAN
      BY DEF authenticate
    <2> QED BY <1>8, <2>1 DEF authenticate, WellTyped, PageTyped, TypeOK, Page
  <1>10. CallsTyped'
    BY <1>3, <1>6, <1>7, CallsStay DEF WellTyped
  <1>11. BackendTyped'
    BY <1>5 DEF authenticate, WellTyped, BackendTyped
  <1> HIDE DEF k
  <1> QED BY <1>1, <1>2, <1>3, <1>7, <1>9, <1>10, <1>11 DEF WellTyped, k

LEMMA ClearedTyped ==
    ASSUME NEW p \in Page
    PROVE  Cleared(p) \in Page /\ Cleared(p).pushState = p.pushState
  BY DEF Cleared, Page, EmptyPage

LEMMA NoDataTyped ==
    /\ NoOrigin \in [groups : SUBSET Sessions, messages : SUBSET Sessions, presence : SUBSET Sessions]
    /\ Sources(NoOrigin) = {}
    /\ NotSaved \in [id : 0 .. MaxSessions, mode : Modes] /\ NotSaved.id = 0
    /\ NoSession \in [id : 0 .. MaxSessions, connected : BOOLEAN] /\ NoSession.id = 0
    /\ EmptyPage \in Page
    /\ NoPoll \in [state : {"none", "sent", "waiting"}, id : 0 .. MaxSessions, after : Nat]
    /\ NoPoll.state = "none" /\ NoPoll.id = 0
  <1>1. 0 \in 0 .. MaxSessions
    BY Constants
  <1>2. EmptyPage \in Page
    BY DEF EmptyPage, Page, Busy
  <1> QED BY <1>1, <1>2, Constants DEF NoOrigin, Sources, NotSaved, NoSession, NoPoll

LEMMA logoutStep ==
    ASSUME WellTyped, SessionsKnown, logout
    PROVE  /\ WellTyped' /\ Stays(sess, sess')
           /\ \/ /\ mode = "wss" /\ closeWss /\ SignedOut
                 /\ Follows(calls', calls, {})
                 /\ \A k \in Sessions : sess'[k] = IF k = wss THEN Ended(k) ELSE sess[k]
              \/ /\ mode = "raw-quic"
                 /\ Follows(calls', calls, {Request("logout", mode, session.id, 0)})
                 /\ UNCHANGED <<session, wss, page, saved, sess, origin, applied>>
  <1>1. CASE mode = "wss" /\ closeWss /\ SignedOut
    <2> DEFINE p == [AfterRejection(page, PendingOn(wss)) EXCEPT
                       !.pushState = IF on # 0 /\ on = wss /\ sess[wss].up THEN "retrying" ELSE @]
    <2>1. page' \in Page
      <3>1. AfterRejection(page, PendingOn(wss)) \in Page
        BY RejectionKeepsPage DEF WellTyped, PageTyped, TypeOK, Page
      <3>2. p \in Page
        BY <3>1 DEF Page
      <3>3. page' = Cleared(p)
        BY <1>1 DEF closeWss
      <3> HIDE DEF p
      <3> QED BY <3>2, <3>3, ClearedTyped
    <2>2. sess' = [k \in Sessions |-> IF k = wss THEN Ended(k) ELSE sess[k]]
      BY <1>1 DEF closeWss
    <2>3. Stays(sess, sess')
      BY <2>2, EndedTyped DEF Stays, WellTyped, BackendTyped
    <2>4. SessTyped'
      BY <2>2, EndedTyped DEF WellTyped, BackendTyped, SessTyped
    <2>5. Follows(calls', calls, {})
      BY <1>1, WithoutFollows DEF closeWss, WellTyped
    <2>6. CallsTyped'
      BY <2>3, <2>5, CallsStay DEF WellTyped
    <2>7. applied' \in Seq(Nat)
      BY <1>1 DEF SignedOut
    <2>8. PageTyped'
      <3>1. wss' \in 0 .. MaxSessions
        BY <1>1, Constants DEF closeWss
      <3>2. /\ saved' = NotSaved /\ session' = NoSession /\ origin' = NoOrigin
        BY <1>1 DEF SignedOut
      <3> QED BY <2>1, <2>7, <3>1, <3>2, NoDataTyped
              DEF logout, WellTyped, PageTyped, TypeOK, Page
    <2>9. BackendTyped'
      BY <2>4 DEF logout, WellTyped, BackendTyped
    <2> QED BY <1>1, <2>2, <2>3, <2>5, <2>6, <2>8, <2>9 DEF WellTyped
  <1>2. CASE /\ mode = "raw-quic" /\ Free # {}
             /\ calls' = Placed(calls, Request("logout", mode, session.id, 0))
             /\ UNCHANGED <<session, wss, page, saved, sess, origin, applied>>
    <2> DEFINE r == Request("logout", mode, session.id, 0)
    <2>1. Stays(sess, sess') /\ sess' = sess
      BY <1>2 DEF Stays
    <2>2. CallTyped(r, sess)
      BY <1>2, SessionInUse DEF logout, SignedIn, CallTyped, CallRecord, Request, Op, WellTyped, PageTyped, TypeOK
    <2>3. Follows(calls', calls, {r})
      <3>1. \E i \in Slots : calls[i].op = "none"
        BY <1>2 DEF Free
      <3>2. Follows(Placed(calls, r), calls, {} \cup {r})
        BY <3>1, CallsFollow, PlacedFollows DEF WellTyped
      <3> QED BY <1>2, <3>2
    <2>4. CallsTyped'
      BY <2>1, <2>2, <2>3, CallsStay DEF WellTyped
    <2>5. PageTyped'
      BY <1>2 DEF logout, WellTyped, PageTyped, TypeOK
    <2>6. BackendTyped'
      BY <1>2 DEF logout, WellTyped, BackendTyped, SessTyped
    <2> QED BY <1>2, <2>1, <2>3, <2>4, <2>5, <2>6 DEF WellTyped
  <1>3. QED
    BY <1>1, <1>2 DEF logout

LEMMA reloadStep ==
    ASSUME WellTyped, SessionsKnown, reload
    PROVE  /\ WellTyped' /\ Stays(sess, sess')
           /\ \A i \in Slots : calls'[i] # NoCall =>
                /\ saved.id # 0 /\ calls'[i] = Request("restore", "raw-quic", saved.id, 0)
                /\ \A j \in Slots \ {i} : calls'[j] = NoCall
  <1> DEFINE restore == saved.id # 0 /\ saved.mode = "raw-quic"
             empty == [i \in Slots |-> NoCall]
             r == Request("restore", "raw-quic", saved.id, 0)
  <1>1. sess' = [k \in Sessions |-> IF sess[k].mode = "wss" THEN Ended(k) ELSE sess[k]]
    BY DEF reload
  <1>2. Stays(sess, sess')
    BY <1>1, EndedTyped DEF Stays, WellTyped, BackendTyped
  <1>3. SessTyped'
    BY <1>1, EndedTyped DEF WellTyped, BackendTyped, SessTyped
  <1>4. restore => CallTyped(r, sess')
    <2>1. restore => CallTyped(r, sess)
      BY SessionInUse DEF CallTyped, CallRecord, Request, Op, WellTyped, PageTyped
    <2> QED BY <1>2, <2>1, CallStays
  <1>5. /\ calls' = [i \in Slots |-> calls'[i]]
        /\ \A i \in Slots : calls'[i] = NoCall \/
             (restore /\ calls'[i] = r /\ \A j \in Slots \ {i} : calls'[j] = NoCall)
    <2>1. CASE ~restore
      BY <2>1 DEF reload
    <2>2. CASE restore /\ Slots = {}
      <3>1. calls' = Placed(empty, r)
        BY <2>2 DEF reload
      <3>2. calls' = empty
        BY <2>2, <3>1 DEF Placed
      <3> QED BY <2>2, <3>2
    <2>3. CASE restore /\ Slots # {}
      <3>1. calls' = Placed(empty, r)
        BY <2>3 DEF reload
      <3>2. \E i \in Slots : empty[i].op = "none"
        BY <2>3 DEF NoCall
      <3>3. PICK j \in Slots : calls' = [empty EXCEPT ![j] = r]
        BY <3>1, <3>2, PlacedInFreeSlot
      <3> QED BY <2>3, <3>3
    <2> QED BY <2>1, <2>2, <2>3
  <1>6. CallsTyped'
    <2>1. \A i \in Slots : calls'[i] \in {NoCall} \cup CallRecord
      BY <1>4, <1>5 DEF CallTyped
    <2>2. calls' \in [Slots -> {NoCall} \cup CallRecord]
      BY <1>5, <2>1
    <2>3. \A i \in Slots : calls'[i].op # "none" => CallTyped(calls'[i], sess')
      BY <1>4, <1>5 DEF NoCall
    <2> QED BY <2>2, <2>3 DEF CallsTyped
  <1>7. PageTyped'
    <2>1. mode' \in Modes
      BY Constants DEF reload, WellTyped, PageTyped
    <2>2. effects' \in [id : 0 .. MaxSessions, mode : Modes, active : Groups \cup {0},
                        up : BOOLEAN, once : BOOLEAN]
      BY Constants DEF reload, NoDeps, WellTyped, PageTyped
    <2>3. applied' \in Seq(Nat) /\ cursor' \in Nat /\ typingTimers' \in Nat /\ wss' \in 0 .. MaxSessions
          /\ on' \in 0 .. MaxSessions /\ raced' \in BOOLEAN /\ lost' \in BOOLEAN
      <3>1. /\ applied' = << >> /\ cursor' = 0 /\ typingTimers' = 0 /\ wss' = 0 /\ on' = 0
            /\ raced' = FALSE /\ lost' = FALSE
        BY DEF reload
      <3>2. << >> \in Seq(Nat) /\ 0 \in Nat /\ 0 \in 0 .. MaxSessions
        BY Constants
      <3> QED BY <3>1, <3>2
    <2>4. session' = NoSession /\ page' = EmptyPage /\ poll' = NoPoll /\ saved' = saved /\ origin' = NoOrigin
      BY DEF reload
    <2> QED BY <2>1, <2>2, <2>3, <2>4, NoDataTyped DEF WellTyped, PageTyped, TypeOK, Page
  <1>8. BackendTyped'
    BY <1>3 DEF reload, WellTyped, BackendTyped
  <1>9. \A i \in Slots : calls'[i] # NoCall => restore
    BY <1>5
  <1> QED BY <1>2, <1>5, <1>6, <1>7, <1>8, <1>9 DEF WellTyped

(* a request of command, with the transport m *)
IsCommand(r, m) ==
    r.op \in Op \ {"auth", "restore", "logout"} /\ r.mode = m /\ (m = "wss" => r.via = wss)

LEMMA CommandIsCommand ==
    ASSUME NEW op \in Op \ {"auth", "restore", "logout"}, NEW m, NEW id, NEW g
    PROVE  IsCommand(Command(op, m, id, g), m)
  BY DEF IsCommand, Command, Request

LEMMA FlushEffectsStep ==
    ASSUME WellTyped, SessionsKnown, FlushEffects
    PROVE  /\ WellTyped' /\ sess' = sess
           /\ \E R : /\ Follows(calls', calls, R)
                     /\ \A r \in R : IsCommand(r, mode) /\ Reaches(mode, session.id)
  <1> DEFINE asks == Reaches(mode, session.id)
             kept == Without({i \in Slots : calls[i].op = "presence"})
             list == asks /\ <<session.id, mode>> # <<effects.id, effects.mode>>
             watch == asks /\ page.active # 0
             a == Command("list", mode, session.id, 0)
             b == Command("presence", mode, session.id, page.active)
             listed == IF list THEN Placed(kept, a) ELSE kept
  <1>1. /\ calls' = IF watch THEN Placed(listed, b) ELSE listed
        /\ Cardinality({i \in Slots : kept[i].op = "none"}) >= IF list /\ watch THEN 2 ELSE 1
    BY DEF FlushEffects, Deps
  <1>2. asks => session.id \in Sessions /\ sess[session.id].user # "nobody"
    BY SessionInUse DEF Reaches
  <1>3. mode \in Modes /\ page.active \in Groups \cup {0}
    BY DEF WellTyped, PageTyped, TypeOK
  <1>4. asks => CallTyped(a, sess) /\ IsCommand(a, mode)
    BY <1>2, <1>3, CommandTyped, CommandIsCommand DEF Op
  <1>5. watch => CallTyped(b, sess) /\ IsCommand(b, mode)
    BY <1>2, <1>3, CommandTyped, CommandIsCommand DEF Op
  <1>6. Follows(kept, calls, {})
    BY WithoutFollows DEF WellTyped
  <1>7. \E i \in Slots : kept[i].op = "none"
    <2>1. Cardinality({i \in Slots : kept[i].op = "none"}) >= 1
      <3> DEFINE F == {i \in Slots : kept[i].op = "none"}
      <3>1. IsFiniteSet(F)
        <4>1. IsFiniteSet(Slots)
          BY FS_Interval, WebClientAssumption DEF Slots
        <4> QED BY <4>1, FS_Subset
      <3>2. Cardinality(F) \in Nat /\ Cardinality(F) >= IF list /\ watch THEN 2 ELSE 1
        BY <1>1, <3>1, FS_CardinalityType
      <3> HIDE DEF F, list, watch
      <3>3. Cardinality(F) >= 1
        BY <3>2
      <3> QED BY <3>3 DEF F
    <2> HIDE DEF kept
    <2> QED BY <2>1, OneFreeSlot
  <1>8. list => Follows(listed, calls, {a})
    <2> HIDE DEF kept, a
    <2>1. Follows(Placed(kept, a), calls, {} \cup {a})
      BY <1>6, <1>7, PlacedFollows
    <2>2. {} \cup {a} = {a}
      OBVIOUS
    <2> QED BY <2>1, <2>2
  <1>9. ~list => Follows(listed, calls, {})
    BY <1>6
  <1>10. watch => \E i \in Slots : listed[i].op = "none"
    <2>1. CASE ~list
      BY <2>1, <1>7
    <2>2. CASE list /\ watch
      <3>1. Cardinality({i \in Slots : kept[i].op = "none"}) >= 2
        BY <1>1, <2>2
      <3> HIDE DEF kept, a, list, watch
      <3>2. PICK j \in Slots : Placed(kept, a) = [kept EXCEPT ![j] = a]
        BY <1>7, PlacedInFreeSlot
      <3>3. PICK i \in Slots \ {j} : kept[i].op = "none"
        BY <3>1, TwoFreeSlots
      <3>4. kept = [n \in Slots |-> kept[n]]
        BY <1>6 DEF Follows
      <3>5. listed[i].op = "none"
        BY <2>2, <3>2, <3>3, <3>4
      <3> QED BY <3>5
    <2> QED BY <2>1, <2>2
  <1>11. \E R : /\ Follows(calls', calls, R)
                /\ \A r \in R : CallTyped(r, sess) /\ IsCommand(r, mode) /\ asks
    <2> HIDE DEF kept, a, b
    <2>1. CASE list /\ watch
      <3>1. Follows(Placed(listed, b), calls, {a} \cup {b})
        <4> HIDE DEF listed
        <4> QED BY <1>8, <1>10, <2>1, PlacedFollows
      <3> QED BY <1>1, <1>4, <1>5, <2>1, <3>1
    <2>2. CASE list /\ ~watch
      BY <1>1, <1>4, <1>8, <2>2
    <2>3. CASE ~list /\ watch
      <3>1. Follows(Placed(listed, b), calls, {} \cup {b})
        <4> HIDE DEF listed
        <4> QED BY <1>9, <1>10, <2>3, PlacedFollows
      <3> QED BY <1>1, <1>5, <2>3, <3>1
    <2>4. CASE ~list /\ ~watch
      BY <1>1, <1>9, <2>4
    <2> QED BY <2>1, <2>2, <2>3, <2>4
  <1>12. sess' = sess /\ Stays(sess, sess')
    BY DEF FlushEffects, backend, Stays
  <1>13. CallsTyped'
    BY <1>11, <1>12, CallsStay DEF WellTyped
  <1>14. PageTyped'
    <2>1. effects' \in [id : 0 .. MaxSessions, mode : Modes, active : Groups \cup {0},
                        up : BOOLEAN, once : BOOLEAN]
      <3>1. \A k \in Sessions : sess[k].up \in BOOLEAN
        BY DEF WellTyped, BackendTyped, SessTyped, SessionRecord
      <3>2. session.id # 0 /\ mode = "wss" /\ wss # 0 => wss \in Sessions
        BY SessionInUse
      <3>3. (session.id # 0 /\ mode = "wss" /\ wss # 0 /\ sess[wss].up) \in BOOLEAN
        BY <3>1, <3>2
      <3> DEFINE open == session.id # 0 /\ mode = "wss" /\ wss # 0 /\ sess[wss].up
                 again == effects.once /\ effects.id = session.id
      <3>4. effects' = [id |-> session.id, mode |-> mode, active |-> page.active,
                        up |-> open, once |-> open \/ again]
        BY DEF FlushEffects, Deps
      <3>5. open \in BOOLEAN /\ again \in BOOLEAN
        BY <3>3 DEF WellTyped, PageTyped
      <3> HIDE DEF open, again
      <3>6. (open \/ again) \in BOOLEAN
        BY <3>5
      <3> QED BY <3>4, <3>5, <3>6, <1>3 DEF WellTyped, PageTyped, TypeOK
    <2>2. on' \in 0 .. MaxSessions
      BY Constants DEF FlushEffects, Subscribed, WellTyped, PageTyped, TypeOK
    <2>3. poll' \in [state : {"none", "sent", "waiting"}, id : 0 .. MaxSessions, after : Nat]
      <3>1. poll' = NoPoll \/ poll' = [state |-> "sent", id |-> session.id, after |-> cursor]
        BY DEF FlushEffects, Deps
      <3>2. session.id \in 0 .. MaxSessions /\ cursor \in Nat
        BY DEF WellTyped, PageTyped, TypeOK
      <3> QED BY <3>1, <3>2, NoDataTyped
    <2>4. page' \in Page
      <3>1. page \in Page
        BY DEF WellTyped, PageTyped, TypeOK, Page
      <3> QED BY <3>1 DEF FlushEffects, Page
    <2>5. UNCHANGED <<session, mode, wss, cursor, typingTimers, saved, applied, origin, raced, lost>>
      BY DEF FlushEffects, history
    <2> QED BY <2>1, <2>2, <2>3, <2>4, <2>5 DEF WellTyped, PageTyped, TypeOK, Page
  <1>15. BackendTyped'
    BY DEF FlushEffects, backend, WellTyped, BackendTyped, SessTyped
  <1> QED BY <1>11, <1>12, <1>13, <1>14, <1>15 DEF WellTyped

LEMMA refreshPresenceStep ==
    ASSUME WellTyped, SessionsKnown, refreshPresence
    PROVE  /\ WellTyped' /\ sess' = sess
           /\ Follows(calls', calls, {Command("presence", effects.mode, effects.id, effects.active)})
  <1> DEFINE r == Command("presence", effects.mode, effects.id, effects.active)
  <1>1. CallTyped(r, sess)
    BY SessionInUse, CommandTyped DEF refreshPresence, Reaches, Op, WellTyped, PageTyped, TypeOK
  <1>2. Follows(calls', calls, {r})
    <2>1. \E i \in Slots : calls[i].op = "none"
      BY DEF refreshPresence, Free
    <2>2. Follows(Placed(calls, r), calls, {} \cup {r})
      BY <2>1, CallsFollow, PlacedFollows DEF WellTyped
    <2> QED BY <2>2 DEF refreshPresence
  <1>3. PageTyped'
    BY DEF refreshPresence, WellTyped, PageTyped, TypeOK, history
  <1>4. Stays(sess, sess') /\ sess' = sess
    BY DEF refreshPresence, backend, Stays
  <1>5. CallsTyped'
    BY <1>1, <1>2, <1>4, CallsStay DEF WellTyped
  <1>6. BackendTyped'
    BY DEF refreshPresence, WellTyped, BackendTyped, SessTyped, backend
  <1> QED BY <1>2, <1>3, <1>4, <1>5, <1>6 DEF WellTyped

(* the requests of joinGroup's next step *)
LEMMA GoesOnStep ==
    ASSUME WellTyped, SessionsKnown, NEW i \in Slots, NEW op \in {"joinList", "joinOpen"},
           NEW busy \in Busy, NEW p, NEW o,
           calls[i].op \in {"join", "joinList"}, GoesOn(i, op, busy, p, o)
    PROVE  \E R : /\ Follows(calls', calls, R)
                  /\ \A r \in R : /\ CallTyped(r, sess) /\ IsCommand(r, calls[i].mode)
                                  /\ Reaches(calls[i].mode, calls[i].via)
  <1> DEFINE c == calls[i]
             r == Command(op, c.mode, c.via, c.group)
             ok == Reaches(c.mode, c.via)
  <1>1. CallTyped(c, sess) /\ c \in CallRecord
    BY DEF WellTyped, CallsTyped, CallTyped
  <1>2. ok => CallTyped(r, sess) /\ IsCommand(r, c.mode)
    BY <1>1, CommandTyped, CommandIsCommand DEF CallTyped, CallRecord, Op
  <1>3. calls' = [calls EXCEPT ![i] = IF ok THEN r ELSE NoCall]
    BY DEF GoesOn
  <1>4. CASE ok
    <2>1. Follows(calls', calls, {r})
      BY <1>3, <1>4, ReplacedFollows DEF WellTyped
    <2> QED BY <1>2, <1>4, <2>1
  <1>5. CASE ~ok
    <2>1. Follows(calls', calls, {})
      BY <1>3, <1>5 DEF WellTyped, CallsTyped, Follows
    <2> QED BY <2>1
  <1> QED BY <1>4, <1>5

LEMMA DoneFollows ==
    ASSUME WellTyped, NEW i, Done(i)
    PROVE  Follows(calls', calls, {})
  BY WithoutFollows DEF Done, WellTyped

LEMMA ShowsTyped ==
    ASSUME WellTyped, NEW p, NEW o, Shows(p, o), p \in Page,
           o \in [groups : SUBSET Sessions, messages : SUBSET Sessions, presence : SUBSET Sessions],
           UNCHANGED <<effects, on, poll, typingTimers, raced, lost>>
    PROVE  PageTyped'
  BY DEF Shows, WellTyped, PageTyped, TypeOK, Page

Origin == [groups : SUBSET Sessions, messages : SUBSET Sessions, presence : SUBSET Sessions]

(* The continuation of a command leaves the page with data of the session  *)
(* that was asked, and may ask again.                                      *)
LEMMA ArriveShows ==
    ASSUME WellTyped, SessionsKnown, NEW i \in Slots, Arrive(i),
           calls[i].op \notin {"auth", "restore", "logout"}
    PROVE  /\ WellTyped' /\ sess' = sess
           /\ UNCHANGED <<session, mode, wss, cursor, effects, on, poll, saved, applied, raced>>
           /\ page'.pushState = page.pushState
           /\ Sources(origin') \subseteq Sources(origin) \cup {calls[i].via}
           /\ calls[i].op # "none" /\ sess[calls[i].via].mode = calls[i].mode
           /\ \E R : /\ Follows(calls', calls, R)
                     /\ \A r \in R : /\ IsCommand(r, calls[i].mode)
                                     /\ Reaches(calls[i].mode, calls[i].via)
  <1> DEFINE c == calls[i]
  <1>1. c.op \in Op /\ CallTyped(c, sess) /\ c.stage = "answered"
    BY CallIsRecord DEF Arrive, WellTyped, CallsTyped, NoCall
  <1>2. c.via \in Sessions /\ c.group \in Groups \cup {0} /\ sess[c.via].mode = c.mode
    BY <1>1 DEF CallTyped, CallRecord
  <1>3. page \in Page /\ origin \in Origin
    BY DEF WellTyped, PageTyped, TypeOK, Page, Origin
  <1>4. /\ sess' = sess /\ Stays(sess, sess')
        /\ UNCHANGED <<effects, on, poll, typingTimers, member, stored, raced, lost>>
    BY DEF Arrive, backend, Stays
  <1>5. /\ {"none", "history"} \subseteq Busy /\ page.busy \in Busy
    BY <1>3 DEF Busy, Page
  <1>6. ASSUME NEW p, NEW o, Shows(p, o), p \in Page, o \in Origin,
               p.pushState = page.pushState, Sources(o) \subseteq Sources(origin) \cup {c.via},
               \E R : /\ Follows(calls', calls, R)
                      /\ \A r \in R : /\ CallTyped(r, sess) /\ IsCommand(r, c.mode)
                                      /\ Reaches(c.mode, c.via)
        PROVE  /\ WellTyped'
               /\ UNCHANGED <<session, mode, wss, cursor, saved, applied>>
               /\ page'.pushState = page.pushState
               /\ Sources(origin') \subseteq Sources(origin) \cup {c.via}
               /\ \E R : /\ Follows(calls', calls, R)
                         /\ \A r \in R : IsCommand(r, c.mode) /\ Reaches(c.mode, c.via)
    <2>1. PageTyped'
      BY <1>4, <1>6, ShowsTyped DEF Origin
    <2>2. CallsTyped'
      BY <1>4, <1>6, CallsStay DEF WellTyped
    <2>3. BackendTyped'
      BY <1>4 DEF WellTyped, BackendTyped, SessTyped
    <2>4. /\ UNCHANGED <<session, mode, wss, cursor, saved, applied>>
          /\ page' = p /\ origin' = o
      BY <1>6 DEF Shows
    <2> QED BY <1>6, <2>1, <2>2, <2>3, <2>4 DEF WellTyped
  <1>7. Done(i) => \E R : /\ Follows(calls', calls, R)
                          /\ \A r \in R : /\ CallTyped(r, sess) /\ IsCommand(r, c.mode)
                                          /\ Reaches(c.mode, c.via)
    BY DoneFollows
  <1>8. /\ WellTyped'
        /\ UNCHANGED <<session, mode, wss, cursor, saved, applied>>
        /\ page'.pushState = page.pushState
        /\ Sources(origin') \subseteq Sources(origin) \cup {c.via}
        /\ \E R : /\ Follows(calls', calls, R)
                  /\ \A r \in R : IsCommand(r, c.mode) /\ Reaches(c.mode, c.via)
    <2>1. CASE /\ c.op = "list" /\ Done(i)
               /\ Shows([page EXCEPT !.groups = c.got], [origin EXCEPT !.groups = {c.via}])
      <3> DEFINE p == [page EXCEPT !.groups = c.got]
                 o == [origin EXCEPT !.groups = {c.via}]
      <3>1. p \in Page /\ p.pushState = page.pushState
        BY <1>1, <1>3, <2>1 DEF Page, CallTyped
      <3>2. o \in Origin /\ Sources(o) \subseteq Sources(origin) \cup {c.via}
        BY <1>2, <1>3 DEF Origin, Sources
      <3> HIDE DEF p, o
      <3>3. Shows(p, o)
        BY <2>1 DEF p, o
      <3> QED BY <1>6, <1>7, <2>1, <3>1, <3>2, <3>3
    <2>2. CASE /\ c.op = "presence" /\ Done(i)
               /\ Shows([page EXCEPT !.presence = c.group], [origin EXCEPT !.presence = {c.via}])
      <3> DEFINE p == [page EXCEPT !.presence = c.group]
                 o == [origin EXCEPT !.presence = {c.via}]
      <3>1. p \in Page /\ p.pushState = page.pushState
        BY <1>2, <1>3 DEF Page
      <3>2. o \in Origin /\ Sources(o) \subseteq Sources(origin) \cup {c.via}
        BY <1>2, <1>3 DEF Origin, Sources
      <3> HIDE DEF p, o
      <3>3. Shows(p, o)
        BY <2>2 DEF p, o
      <3> QED BY <1>6, <1>7, <2>2, <3>1, <3>2, <3>3
    <2>3. CASE c.op \in {"open", "joinOpen"} /\ Done(i) /\ opened(c)
      <3> DEFINE p == [page EXCEPT !.active = c.group, !.messages = c.got, !.presence = c.group,
                                   !.typing = FALSE, !.busy = "none"]
                 o == [origin EXCEPT !.messages = {c.via}, !.presence = {c.via}]
      <3>1. p \in Page /\ p.pushState = page.pushState
        BY <1>1, <1>2, <1>3, <1>5, <2>3 DEF Page, CallTyped
      <3>2. o \in Origin /\ Sources(o) \subseteq Sources(origin) \cup {c.via}
        BY <1>2, <1>3 DEF Origin, Sources
      <3> HIDE DEF p, o
      <3>3. Shows(p, o)
        BY <2>3 DEF p, o, opened
      <3> QED BY <1>6, <1>7, <2>3, <3>1, <3>2, <3>3
    <2>4. CASE /\ c.op = "create" /\ Done(i)
               /\ Shows([page EXCEPT !.groups = @ \cup c.got, !.active = Max(c.got),
                                     !.messages = {}, !.busy = "none"],
                        [origin EXCEPT !.groups = @ \cup {c.via}, !.messages = {}])
      <3> DEFINE p == [page EXCEPT !.groups = @ \cup c.got, !.active = Max(c.got),
                                   !.messages = {}, !.busy = "none"]
                 o == [origin EXCEPT !.groups = @ \cup {c.via}, !.messages = {}]
      <3>1. p \in Page /\ p.pushState = page.pushState
        <4>1. PICK g \in Groups : c.got = {g}
          BY <1>1, <2>4 DEF CallTyped
        <4>2. Max(c.got) = g
          BY <4>1, GreatestOfOne, Constants
        <4> QED BY <1>3, <1>5, <4>1, <4>2 DEF Page
      <3>2. o \in Origin /\ Sources(o) \subseteq Sources(origin) \cup {c.via}
        BY <1>2, <1>3 DEF Origin, Sources
      <3> HIDE DEF p, o
      <3>3. Shows(p, o)
        BY <2>4 DEF p, o
      <3> QED BY <1>6, <1>7, <2>4, <3>1, <3>2, <3>3
    <2>5. CASE /\ c.op = "send" /\ Done(i)
               /\ Shows([page EXCEPT !.messages = mergeMessages(@, c.got), !.busy = "none"],
                        [origin EXCEPT !.messages = @ \cup {c.via}])
      <3> DEFINE p == [page EXCEPT !.messages = mergeMessages(@, c.got), !.busy = "none"]
                 o == [origin EXCEPT !.messages = @ \cup {c.via}]
      <3>1. p \in Page /\ p.pushState = page.pushState
        BY <1>1, <1>3, <1>5, <2>5 DEF Page, CallTyped, mergeMessages
      <3>2. o \in Origin /\ Sources(o) \subseteq Sources(origin) \cup {c.via}
        BY <1>2, <1>3 DEF Origin, Sources
      <3> HIDE DEF p, o
      <3>3. Shows(p, o)
        BY <2>5 DEF p, o
      <3> QED BY <1>6, <1>7, <2>5, <3>1, <3>2, <3>3
    <2>6. CASE c.op = "join" /\ GoesOn(i, "joinList", page.busy, page, origin)
      <3> DEFINE p == [page EXCEPT !.busy = IF Reaches(c.mode, c.via) THEN page.busy ELSE "none"]
      <3>1. p \in Page /\ p.pushState = page.pushState
        BY <1>3, <1>5 DEF Page
      <3>2. Shows(p, origin)
        BY <2>6 DEF GoesOn
      <3>3. \E R : /\ Follows(calls', calls, R)
                   /\ \A r \in R : /\ CallTyped(r, sess) /\ IsCommand(r, c.mode)
                                   /\ Reaches(c.mode, c.via)
        BY <1>5, <2>6, GoesOnStep
      <3> HIDE DEF p
      <3> QED BY <1>3, <1>6, <3>1, <3>2, <3>3
    <2>7. CASE /\ c.op = "joinList"
               /\ GoesOn(i, "joinOpen", "history", [page EXCEPT !.groups = c.got],
                         [origin EXCEPT !.groups = {c.via}])
      <3> DEFINE q == [page EXCEPT !.groups = c.got]
                 p == [q EXCEPT !.busy = IF Reaches(c.mode, c.via) THEN "history" ELSE "none"]
                 o == [origin EXCEPT !.groups = {c.via}]
      <3>1. q \in Page /\ q.pushState = page.pushState
        BY <1>1, <1>3, <2>7 DEF Page, CallTyped
      <3>2. p \in Page /\ p.pushState = page.pushState
        <4> HIDE DEF q
        <4> QED BY <1>5, <3>1 DEF Page
      <3>3. o \in Origin /\ Sources(o) \subseteq Sources(origin) \cup {c.via}
        BY <1>2, <1>3 DEF Origin, Sources
      <3>4. Shows(p, o)
        BY <2>7 DEF GoesOn
      <3>5. \E R : /\ Follows(calls', calls, R)
                   /\ \A r \in R : /\ CallTyped(r, sess) /\ IsCommand(r, c.mode)
                                   /\ Reaches(c.mode, c.via)
        BY <1>5, <2>7, GoesOnStep
      <3> HIDE DEF p, q, o
      <3> QED BY <1>6, <3>2, <3>3, <3>4, <3>5
    <2> QED BY <2>1, <2>2, <2>3, <2>4, <2>5, <2>6, <2>7 DEF Arrive
  <1> QED BY <1>1, <1>2, <1>4, <1>8 DEF Op

(* a logout is through: the page is cleared *)
LEMMA loggedOutTyped ==
    ASSUME WellTyped, loggedOut, UNCHANGED <<effects, on, poll, typingTimers, raced, lost>>
    PROVE  PageTyped' /\ page'.pushState = page.pushState
  <1>1. page' \in Page /\ page'.pushState = page.pushState
    <2>1. page \in Page
      BY DEF WellTyped, PageTyped, TypeOK, Page
    <2> QED BY <2>1, ClearedTyped DEF loggedOut
  <1>2. /\ session' = NoSession /\ origin' = NoOrigin /\ saved' = NotSaved /\ applied' = << >>
        /\ UNCHANGED <<mode, wss, cursor>>
    BY DEF loggedOut, SignedOut
  <1>3. << >> \in Seq(Nat)
    OBVIOUS
  <1> QED BY <1>1, <1>2, <1>3, NoDataTyped DEF WellTyped, PageTyped, TypeOK, Page

(* a login, a restore or a logout is answered *)
LEMMA ArriveSession ==
    ASSUME WellTyped, SessionsKnown, NEW i \in Slots, Arrive(i),
           calls[i].op \in {"auth", "restore", "logout"}
    PROVE  /\ WellTyped' /\ sess' = sess
           /\ UNCHANGED <<mode, effects, on, poll, raced>>
           /\ page'.pushState = page.pushState
           /\ Done(i) /\ Follows(calls', calls, {})
           /\ sess[calls[i].via].mode = calls[i].mode
           /\ calls[i].via \in Sessions /\ sess[calls[i].via].user # "nobody"
           /\ \/ calls[i].op = "auth" /\ authenticated(calls[i])
              \/ calls[i].op = "restore" /\ restored(calls[i])
              \/ calls[i].op = "logout" /\ loggedOut
  <1> DEFINE c == calls[i]
  <1>1. c.op \in Op /\ CallTyped(c, sess) /\ c.stage = "answered"
    BY CallIsRecord DEF Arrive, WellTyped, CallsTyped, NoCall
  <1>2. /\ c.via \in Sessions /\ sess[c.via].mode = c.mode /\ sess[c.via].user # "nobody"
        /\ c.mode \in Modes
    BY <1>1 DEF CallTyped, CallRecord
  <1>3. page \in Page /\ origin \in Origin
    BY DEF WellTyped, PageTyped, TypeOK, Page, Origin
  <1>4. /\ sess' = sess /\ Stays(sess, sess')
        /\ UNCHANGED <<effects, on, poll, typingTimers, member, stored, raced, lost>>
    BY DEF Arrive, backend, Stays
  <1>5. /\ Done(i)
        /\ \/ c.op = "auth" /\ authenticated(c)
           \/ c.op = "restore" /\ restored(c)
           \/ c.op = "logout" /\ loggedOut
    BY DEF Arrive
  <1>6. Follows(calls', calls, {})
    BY <1>5, DoneFollows
  <1>7. CallsTyped'
    BY <1>4, <1>6, CallsStay DEF WellTyped
  <1>8. BackendTyped'
    BY <1>4 DEF WellTyped, BackendTyped, SessTyped
  <1>9. PageTyped' /\ page'.pushState = page.pushState /\ mode' = mode
    <2>1. c.via \in 0 .. MaxSessions
      BY <1>2, Constants
    <2>2. << >> \in Seq(Nat) /\ 0 \in Nat
      OBVIOUS
    <2>3. CASE c.op = "auth" /\ authenticated(c)
      <3>1. page' \in Page /\ page'.pushState = page.pushState
        BY <1>3, <2>3 DEF authenticated, Page, Busy
      <3>2. /\ wss' \in {c.via, wss} /\ saved' = [id |-> c.via, mode |-> c.mode] /\ cursor' = 0
            /\ session' = [id |-> c.via, connected |-> TRUE] /\ applied' = << >>
            /\ UNCHANGED <<mode, origin>>
        BY <2>3 DEF authenticated
      <3> QED BY <1>2, <1>4, <2>1, <2>2, <3>1, <3>2 DEF WellTyped, PageTyped, TypeOK, Page
    <2>4. CASE c.op = "restore" /\ restored(c)
      <3>1. /\ session' = [id |-> c.via, connected |-> TRUE] /\ applied' = << >>
            /\ UNCHANGED <<mode, wss, page, cursor, saved, origin>>
        BY <2>4 DEF restored
      <3> QED BY <1>4, <2>1, <2>2, <3>1 DEF WellTyped, PageTyped, TypeOK
    <2>5. CASE c.op = "logout" /\ loggedOut
      BY <1>4, <2>5, loggedOutTyped DEF loggedOut
    <2> QED BY <1>5, <2>3, <2>4, <2>5
  <1> QED BY <1>2, <1>4, <1>5, <1>6, <1>7, <1>8, <1>9 DEF WellTyped

LEMMA RejectStep ==
    ASSUME WellTyped, SessionsKnown, NEW i \in Slots, Reject(i)
    PROVE  /\ WellTyped' /\ Stays(sess, sess')
           /\ UNCHANGED <<mode, wss, cursor, effects, on, poll, raced>>
           /\ page'.pushState = page.pushState
           /\ Follows(calls', calls, {}) /\ calls[i].op \in Op
           /\ sess' = IF calls[i].op = "auth" THEN [sess EXCEPT ![calls[i].via] = Ended(calls[i].via)]
                      ELSE sess
           /\ \/ calls[i].op = "logout" /\ loggedOut
              \/ UNCHANGED <<session, applied, origin>> /\ saved'.id \in {0, saved.id}
  <1> DEFINE c == calls[i]
  <1>1. c.op \in Op /\ CallTyped(c, sess)
    BY CallIsRecord DEF Reject, WellTyped, CallsTyped
  <1>2. c.via \in Sessions
    BY <1>1 DEF CallTyped, CallRecord
  <1>3. page \in Page
    BY DEF WellTyped, PageTyped, TypeOK, Page
  <1>4. sess' = IF c.op = "auth" THEN [sess EXCEPT ![c.via] = Ended(c.via)] ELSE sess
    BY DEF Reject
  <1>5. Stays(sess, sess') /\ SessTyped'
    BY <1>2, <1>4, EndedTyped DEF Stays, WellTyped, BackendTyped, SessTyped
  <1>6. Follows(calls', calls, {})
    BY DoneFollows DEF Reject
  <1>7. CallsTyped'
    BY <1>5, <1>6, CallsStay DEF WellTyped
  <1>8. BackendTyped'
    BY <1>5 DEF Reject, WellTyped, BackendTyped
  <1>9. UNCHANGED <<effects, on, poll, typingTimers, raced, lost>>
    BY DEF Reject
  <1>10. CASE c.op = "logout" /\ loggedOut
    <2>1. PageTyped' /\ page'.pushState = page.pushState
      BY <1>9, <1>10, loggedOutTyped
    <2>2. UNCHANGED <<mode, wss, cursor>>
      BY <1>10 DEF loggedOut
    <2> QED BY <1>1, <1>4, <1>5, <1>6, <1>7, <1>8, <1>9, <1>10, <2>1, <2>2 DEF WellTyped
  <1>11. CASE /\ page' = AfterRejection(page, {i})
              /\ saved' = IF c.op = "restore" THEN NotSaved ELSE saved
              /\ UNCHANGED <<session, mode, wss, cursor, applied, origin>>
    <2>1. page' \in Page /\ page'.pushState = page.pushState
      BY <1>3, <1>11, RejectionKeepsPage
    <2>2. /\ saved' \in [id : 0 .. MaxSessions, mode : Modes]
          /\ saved'.id \in {0, saved.id}
      BY <1>11, NoDataTyped DEF WellTyped, PageTyped
    <2>3. PageTyped'
      BY <1>9, <1>11, <2>1, <2>2 DEF WellTyped, PageTyped, TypeOK, Page
    <2> QED BY <1>1, <1>4, <1>5, <1>6, <1>7, <1>8, <1>9, <1>11, <2>1, <2>2, <2>3 DEF WellTyped
  <1> QED BY <1>10, <1>11 DEF Reject

LEMMA LoseStep ==
    ASSUME WellTyped, NEW i \in Slots, Lose(i)
    PROVE  /\ WellTyped' /\ sess' = sess /\ Follows(calls', calls, {})
           /\ UNCHANGED <<session, mode, wss, page, cursor, effects, on, poll, saved, applied, origin, raced>>
  <1>1. /\ UNCHANGED <<session, mode, wss, page, cursor, effects, on, poll, typingTimers, saved>>
        /\ UNCHANGED <<sess, member, stored, applied, origin, raced>> /\ lost' = TRUE
    BY DEF Lose, backend
  <1>2. Follows(calls', calls, {})
    BY DoneFollows DEF Lose
  <1>3. Stays(sess, sess')
    BY <1>1 DEF Stays
  <1>4. CallsTyped'
    BY <1>2, <1>3, CallsStay DEF WellTyped
  <1>5. PageTyped'
    BY <1>1 DEF WellTyped, PageTyped, TypeOK
  <1>6. BackendTyped'
    BY <1>1 DEF WellTyped, BackendTyped, SessTyped
  <1> QED BY <1>1, <1>2, <1>4, <1>5, <1>6 DEF WellTyped

LEMMA PeerCloseStep ==
    ASSUME WellTyped, SessionsKnown, NEW k \in Sessions, PeerClose(k)
    PROVE  /\ WellTyped' /\ Stays(sess, sess')
           /\ UNCHANGED <<mode, wss, cursor, effects, on, poll, saved, applied, origin, raced>>
           /\ page'.pushState = IF on = k THEN "retrying" ELSE page.pushState
           /\ session' = IF on = k THEN [session EXCEPT !.connected = FALSE] ELSE session
           /\ Follows(calls', calls, {})
           /\ sess' = [sess EXCEPT ![k] = Ended(k)]
  <1>1. page \in Page
    BY DEF WellTyped, PageTyped, TypeOK, Page
  <1>2. sess' = [sess EXCEPT ![k] = Ended(k)]
    BY DEF PeerClose
  <1>3. Stays(sess, sess') /\ SessTyped'
    BY <1>2, EndedTyped DEF Stays, WellTyped, BackendTyped, SessTyped
  <1>4. Follows(calls', calls, {})
    BY WithoutFollows DEF PeerClose, WellTyped
  <1>5. CallsTyped'
    BY <1>3, <1>4, CallsStay DEF WellTyped
  <1>6. BackendTyped'
    BY <1>3 DEF PeerClose, WellTyped, BackendTyped
  <1>7. /\ UNCHANGED <<mode, wss, cursor, effects, on, poll, typingTimers, saved, applied, origin, raced>>
        /\ lost' = lost
    BY DEF PeerClose
  <1> DEFINE q == AfterRejection(page, PendingOn(k))
  <1>8. q \in Page /\ q.pushState = page.pushState
    BY <1>1, RejectionKeepsPage
  <1>9. /\ page' = [q EXCEPT !.pushState = IF on = k THEN "retrying" ELSE @]
        /\ session' = IF on = k THEN [session EXCEPT !.connected = FALSE] ELSE session
    BY DEF PeerClose, onClose
  <1>10. page' \in Page /\ page'.pushState = IF on = k THEN "retrying" ELSE page.pushState
    <2> HIDE DEF q
    <2> QED BY <1>8, <1>9 DEF Page
  <1>11. session' \in [id : 0 .. MaxSessions, connected : BOOLEAN]
    BY <1>9 DEF WellTyped, PageTyped, TypeOK
  <1>12. PageTyped'
    BY <1>7, <1>10, <1>11 DEF WellTyped, PageTyped, TypeOK, Page
  <1> QED BY <1>2, <1>3, <1>4, <1>5, <1>6, <1>7, <1>9, <1>10, <1>12 DEF WellTyped

(* what applyPush does, as far as the invariant sees it *)
Applies(k, from, to) ==
    /\ page' \in Page /\ origin' \in Origin /\ typingTimers' \in Nat
    /\ page'.pushState = IF poll.state = "none" THEN page.pushState ELSE "listening"
    /\ Sources(origin') \subseteq Sources(origin) \cup {k}
    /\ cursor' \in Nat /\ cursor' = IF cursor <= to THEN to ELSE cursor
    /\ applied' \in Seq(Nat)
    /\ applied' = applied \o [n \in 1 .. to - from + 1 |-> from + n - 1]

LEMMA applyPushTyped ==
    ASSUME WellTyped, NEW k \in Sessions, NEW from \in Nat \ {0}, NEW to \in Nat, to >= from - 1,
           from .. to \subseteq DOMAIN sess[k].events, applyPush(k, from, to)
    PROVE  Applies(k, from, to)
  <1> DEFINE heard == {sess[k].events[n] : n \in from .. to}
             mine == {e \in heard : e.group = effects.active}
             ids == {e.id : e \in {x \in mine : x.type = "message"}}
             typers == {n \in from .. to : sess[k].events[n].type = "typing"
                                              /\ sess[k].events[n].group = effects.active}
  <1>1. page \in Page /\ origin \in Origin /\ cursor \in Nat /\ typingTimers \in Nat
        /\ applied \in Seq(Nat)
    BY DEF WellTyped, PageTyped, TypeOK, Page, Origin
  <1>2. ids \subseteq 1 .. MaxEvents
    <2>1. \A n \in from .. to : sess[k].events[n] \in Event
      BY DEF WellTyped, BackendTyped, SessTyped, SessionRecord
    <2>2. \A e \in heard : e \in Event
      BY <2>1
    <2> HIDE DEF heard
    <2>3. \A x \in mine : x.type = "message" => x.id \in 1 .. MaxEvents
      BY <2>2 DEF Event
    <2> QED BY <2>3
  <1>3. IsFiniteSet(typers) /\ Cardinality(typers) \in Nat
    <2>1. IsFiniteSet(from .. to)
      BY FS_Interval
    <2>2. IsFiniteSet(typers)
      BY <2>1, FS_Subset
    <2> QED BY <2>2, FS_CardinalityType
  <1>4. /\ cursor' = Max({cursor, to})
        /\ page' = [page EXCEPT !.messages = @ \cup ids, !.typing = @ \/ typers # {},
                                !.pushState = IF poll.state = "none" THEN @ ELSE "listening"]
        /\ typingTimers' = typingTimers + Cardinality(typers)
        /\ origin' = IF ids = {} THEN origin ELSE [origin EXCEPT !.messages = @ \cup {k}]
        /\ applied' = applied \o [n \in 1 .. to - from + 1 |-> from + n - 1]
    BY DEF applyPush, NextCursor, mergeMessages
  <1>5. applied' \in Seq(Nat)
    <2> DEFINE more == [n \in 1 .. to - from + 1 |-> from + n - 1]
    <2>1. to - from + 1 \in Nat
      OBVIOUS
    <2>2. more \in Seq(Nat)
      BY <2>1
    <2> HIDE DEF more
    <2>3. applied \o more \in Seq(Nat)
      BY <1>1, <2>2
    <2> QED BY <1>4, <2>3 DEF more
  <1> HIDE DEF ids, typers
  <1>6. page' \in Page /\ page'.pushState = IF poll.state = "none" THEN page.pushState ELSE "listening"
    BY <1>1, <1>2, <1>4 DEF Page
  <1>7. origin' \in Origin /\ Sources(origin') \subseteq Sources(origin) \cup {k}
    BY <1>1, <1>4 DEF Origin, Sources
  <1>8. cursor' \in Nat /\ cursor' = IF cursor <= to THEN to ELSE cursor
    <2>1. cursor' = Max({cursor, to})
      BY <1>4
    <2> QED BY <1>1, <2>1, GreatestOfTwo
  <1>9. typingTimers' \in Nat
    <2>1. typingTimers' = typingTimers + Cardinality(typers)
      BY <1>4
    <2> QED BY <1>1, <1>3, <2>1
  <1>10. applied' = applied \o [n \in 1 .. to - from + 1 |-> from + n - 1]
    BY <1>4
  <1> QED BY <1>5, <1>6, <1>7, <1>8, <1>9, <1>10 DEF Applies

LEMMA receivePushStep ==
    ASSUME WellTyped, SessionsKnown, NEW k \in Sessions, receivePush(k)
    PROVE  /\ WellTyped' /\ Stays(sess, sess')
           /\ UNCHANGED <<session, mode, wss, effects, on, poll, calls, saved, raced>>
           /\ sess' = [sess EXCEPT ![k].received = sess[k].received + 1]
           /\ sess[k].received \in Nat /\ sess[k].up
           /\ \/ on = k /\ applyPush(k, sess[k].received + 1, sess[k].received + 1)
              \/ on # k /\ UNCHANGED <<cursor, page, origin, applied>>
           /\ page'.pushState = IF on = k /\ poll.state # "none" THEN "listening" ELSE page.pushState
           /\ Sources(origin') \subseteq Sources(origin) \cup (IF on = k THEN {k} ELSE {})
  <1> DEFINE n == sess[k].received + 1
  <1>1. sess[k] \in SessionRecord /\ sess[k].received \in Nat /\ n \in Nat \ {0}
    BY DEF WellTyped, BackendTyped, SessTyped, SessionRecord
  <1>2. sess' = [sess EXCEPT ![k].received = n] /\ sess[k].up /\ n \in DOMAIN sess[k].events
    BY DEF receivePush
  <1>3. \A j \in Sessions : /\ sess'[j].user = sess[j].user /\ sess'[j].mode = sess[j].mode
                            /\ sess'[j].up = sess[j].up /\ sess'[j] \in SessionRecord
    BY <1>1, <1>2 DEF WellTyped, BackendTyped, SessTyped, SessionRecord
  <1>4. Stays(sess, sess') /\ SessTyped'
    <2>1. sess' \in [Sessions -> SessionRecord]
      BY <1>2, <1>3 DEF WellTyped, BackendTyped, SessTyped
    <2> QED BY <1>3, <2>1 DEF Stays, WellTyped, BackendTyped, SessTyped
  <1>5. UNCHANGED <<session, mode, wss, effects, on, poll, calls, saved, member, stored, raced, lost>>
    BY DEF receivePush
  <1>6. CallsTyped'
    BY <1>4, <1>5, CallStays DEF WellTyped, CallsTyped
  <1>7. BackendTyped'
    BY <1>4, <1>5 DEF WellTyped, BackendTyped
  <1>8. CASE on = k /\ applyPush(k, n, n)
    <2>1. n .. n \subseteq DOMAIN sess[k].events /\ n >= n - 1
      BY <1>1, <1>2
    <2>2. /\ page' \in Page /\ origin' \in Origin /\ typingTimers' \in Nat
          /\ page'.pushState = IF poll.state = "none" THEN page.pushState ELSE "listening"
          /\ Sources(origin') \subseteq Sources(origin) \cup {k}
          /\ cursor' \in Nat /\ applied' \in Seq(Nat)
      <3> HIDE DEF n
      <3>1. Applies(k, n, n)
        BY <1>1, <1>8, <2>1, applyPushTyped
      <3> QED BY <3>1 DEF Applies
    <2>3. PageTyped'
      BY <1>5, <2>2 DEF WellTyped, PageTyped, TypeOK, Page, Origin
    <2> QED BY <1>1, <1>2, <1>4, <1>5, <1>6, <1>7, <1>8, <2>2, <2>3 DEF WellTyped
  <1>9. CASE on # k /\ UNCHANGED <<cursor, page, typingTimers, origin, applied>>
    <2>1. PageTyped'
      BY <1>5, <1>9 DEF WellTyped, PageTyped, TypeOK
    <2> QED BY <1>1, <1>2, <1>4, <1>5, <1>6, <1>7, <1>9, <2>1 DEF WellTyped
  <1> QED BY <1>8, <1>9 DEF receivePush


(* what a poll brings: the events after its cursor, or none *)
LEMMA pollAnsweredStep ==
    ASSUME WellTyped, SessionsKnown, OneSubscription, pollAnswered
    PROVE  /\ WellTyped' /\ sess' = sess
           /\ UNCHANGED <<session, mode, wss, effects, on, calls, saved, raced>>
           /\ poll.id \in Sessions /\ sess[poll.id].mode = "raw-quic" /\ poll.state = "sent"
           /\ poll' = [poll EXCEPT !.after = cursor']
           /\ Sources(origin') \subseteq Sources(origin) \cup {poll.id}
           /\ \E to \in Nat : /\ to >= poll.after
                              /\ cursor' = IF cursor <= to THEN to ELSE cursor
                              /\ applied' = applied \o
                                   [n \in 1 .. to - (poll.after + 1) + 1 |-> poll.after + 1 + n - 1]
  <1> DEFINE k == poll.id
             from == poll.after + 1
  <1>1. poll.after \in Nat /\ from \in Nat \ {0} /\ poll.id \in 0 .. MaxSessions
    BY DEF WellTyped, PageTyped
  <1>2. k \in Sessions
    BY SessionInUse DEF pollAnswered, OneSubscription
  <1>3. sess[k] \in SessionRecord /\ Len(sess[k].events) \in Nat
        /\ DOMAIN sess[k].events = 1 .. Len(sess[k].events)
    <2>1. sess[k] \in SessionRecord
      BY <1>2 DEF WellTyped, BackendTyped, SessTyped
    <2> QED BY <2>1 DEF SessionRecord
  <1>4. PICK to \in {poll.after} \cup (from .. Len(sess[k].events)) : applyPush(k, from, to)
    BY DEF pollAnswered
  <1>5. to \in Nat /\ to >= from - 1 /\ to >= poll.after /\ from .. to \subseteq DOMAIN sess[k].events
    BY <1>1, <1>3
  <1>6. Applies(k, from, to)
    <2>1. /\ k \in Sessions /\ from \in Nat \ {0} /\ to \in Nat /\ to >= from - 1
          /\ from .. to \subseteq DOMAIN sess[k].events
          /\ applyPush(k, from, to)
      BY <1>1, <1>2, <1>4, <1>5
    <2> HIDE DEF k, from
    <2> QED BY <2>1, applyPushTyped
  <1>7. /\ UNCHANGED <<session, mode, wss, effects, on, calls, saved, raced, lost, sess, member, stored>>
        /\ poll' = [poll EXCEPT !.after = cursor']
        /\ poll.state = "sent" /\ sess[poll.id].mode = "raw-quic"
    BY DEF pollAnswered, backend
  <1>8. poll' \in [state : {"none", "sent", "waiting"}, id : 0 .. MaxSessions, after : Nat]
    BY <1>6, <1>7 DEF WellTyped, PageTyped, Applies
  <1>9. PageTyped'
    BY <1>6, <1>7, <1>8 DEF WellTyped, PageTyped, TypeOK, Page, Origin, Applies
  <1>10. BackendTyped' /\ CallsTyped'
    BY <1>7 DEF WellTyped, BackendTyped, SessTyped, CallsTyped
  <1> QED BY <1>2, <1>5, <1>6, <1>7, <1>9, <1>10 DEF WellTyped, Applies

LEMMA pollFailedStep ==
    ASSUME WellTyped, pollFailed
    PROVE  WellTyped' /\ sess' = sess /\ calls' = calls
  <1>1. poll' \in [state : {"none", "sent", "waiting"}, id : 0 .. MaxSessions, after : Nat]
    BY DEF pollFailed, WellTyped, PageTyped
  <1>2. page' \in Page
    BY DEF pollFailed, WellTyped, PageTyped, TypeOK, Page
  <1>3. PageTyped'
    BY <1>1, <1>2 DEF pollFailed, history, WellTyped, PageTyped, TypeOK, Page
  <1>4. BackendTyped' /\ CallsTyped' /\ sess' = sess /\ calls' = calls
    BY DEF pollFailed, backend, WellTyped, BackendTyped, SessTyped, CallsTyped
  <1> QED BY <1>3, <1>4 DEF WellTyped

LEMMA pollAgainStep ==
    ASSUME WellTyped, pollAgain
    PROVE  WellTyped' /\ sess' = sess /\ calls' = calls
  <1>1. poll' \in [state : {"none", "sent", "waiting"}, id : 0 .. MaxSessions, after : Nat]
    BY DEF pollAgain, WellTyped, PageTyped, TypeOK
  <1>2. PageTyped'
    BY <1>1 DEF pollAgain, history, WellTyped, PageTyped, TypeOK
  <1>3. BackendTyped' /\ CallsTyped' /\ sess' = sess /\ calls' = calls
    BY DEF pollAgain, backend, WellTyped, BackendTyped, SessTyped, CallsTyped
  <1> QED BY <1>2, <1>3 DEF WellTyped

LEMMA typingTimeoutStep ==
    ASSUME WellTyped, typingTimeout
    PROVE  WellTyped' /\ sess' = sess /\ calls' = calls /\ page'.pushState = page.pushState
  <1>1. page' \in Page /\ page'.pushState = page.pushState
    BY DEF typingTimeout, WellTyped, PageTyped, TypeOK, Page
  <1>2. typingTimers' \in Nat
    BY DEF typingTimeout, WellTyped, PageTyped, TypeOK
  <1>3. PageTyped'
    BY <1>1, <1>2 DEF typingTimeout, history, WellTyped, PageTyped, TypeOK, Page
  <1>4. BackendTyped' /\ CallsTyped' /\ sess' = sess /\ calls' = calls
    BY DEF typingTimeout, backend, WellTyped, BackendTyped, SessTyped, CallsTyped
  <1> QED BY <1>1, <1>3, <1>4 DEF WellTyped

(* from s to t, users and transports stay, and a session that is open has  *)
(* received what it had                                                    *)
SameSessions(s, t) == \A k \in Sessions : /\ t[k].user = s[k].user /\ t[k].mode = s[k].mode
                                          /\ t[k].up => t[k].received = s[k].received

LEMMA PushedTyped ==
    ASSUME SessTyped, NEW e \in Event, NEW g, sess' = Pushed(e, g)
    PROVE  SessTyped' /\ SameSessions(sess, sess') /\ \A k \in Sessions : sess'[k].up = sess[k].up
  <1>1. \A k \in Sessions : /\ sess'[k] \in SessionRecord
                            /\ sess'[k].user = sess[k].user /\ sess'[k].mode = sess[k].mode
                            /\ sess'[k].up = sess[k].up /\ sess'[k].received = sess[k].received
    <2> SUFFICES ASSUME NEW k \in Sessions
                 PROVE  /\ sess'[k] \in SessionRecord
                        /\ sess'[k].user = sess[k].user /\ sess'[k].mode = sess[k].mode
                        /\ sess'[k].up = sess[k].up /\ sess'[k].received = sess[k].received
      OBVIOUS
    <2>1. sess[k] \in SessionRecord
      BY DEF SessTyped
    <2>2. Append(sess[k].events, e) \in Seq(Event)
      BY <2>1 DEF SessionRecord
    <2>3. sess'[k] = sess[k] \/ sess'[k] = [sess[k] EXCEPT !.events = Append(@, e)]
      BY DEF Pushed
    <2> QED BY <2>1, <2>2, <2>3 DEF SessionRecord
  <1>2. sess' \in [Sessions -> SessionRecord]
    BY <1>1 DEF Pushed
  <1> QED BY <1>1, <1>2 DEF SessTyped, SameSessions

LEMMA StoreTyped ==
    ASSUME WellTyped, NEW g \in Groups, Store(g)
    PROVE  /\ SessTyped' /\ SameSessions(sess, sess')
           /\ \A k \in Sessions : sess'[k].up = sess[k].up
           /\ stored' \in Seq(Groups) /\ Len(stored') <= MaxEvents
           /\ Len(stored) + 1 \in 1 .. MaxEvents
  <1>1. stored \in Seq(Groups) /\ Len(stored) < MaxEvents /\ stored' = Append(stored, g)
    BY DEF WellTyped, BackendTyped, Store
  <1>2. Len(stored) + 1 \in 1 .. MaxEvents
    BY <1>1, Constants
  <1> DEFINE e == [type |-> "message", group |-> g, id |-> Len(stored) + 1]
  <1>3. e \in Event
    BY <1>2 DEF Event
  <1>4. sess' = Pushed(e, g)
    BY DEF Store
  <1>5. SessTyped' /\ SameSessions(sess, sess') /\ \A k \in Sessions : sess'[k].up = sess[k].up
    <2> HIDE DEF e
    <2> QED BY <1>3, <1>4, PushedTyped DEF WellTyped, BackendTyped
  <1>6. stored' \in Seq(Groups) /\ Len(stored') = Len(stored) + 1
    BY <1>1
  <1> QED BY <1>1, <1>2, <1>5, <1>6, Constants

(* The page sees nothing of a step of the backend but answers. *)
LEMMA BackendKeepsPage ==
    ASSUME WellTyped, UNCHANGED page_
    PROVE  /\ PageTyped'
           /\ UNCHANGED <<session, mode, wss, page, cursor, effects, on, poll, saved, applied, origin, raced>>
  <1>1. UNCHANGED <<session, mode, wss, page, cursor, effects, on, poll, typingTimers, saved,
                    applied, origin, raced, lost>>
    BY DEF page_, history
  <1> QED BY <1>1 DEF WellTyped, PageTyped, TypeOK

LEMMA OtherStep ==
    ASSUME WellTyped, NEW g \in Talking, OtherSends(g) \/ OtherTypes(g)
    PROVE  /\ WellTyped' /\ SameSessions(sess, sess') /\ calls' = calls
           /\ \A k \in Sessions : sess'[k].up = sess[k].up
           /\ UNCHANGED <<session, mode, wss, page, cursor, effects, on, poll, saved, applied, origin, raced>>
  <1>1. g \in Groups
    BY DEF Talking
  <1>2. UNCHANGED page_ /\ calls' = calls /\ member' = member
    BY DEF OtherSends, OtherTypes
  <1>3. /\ SessTyped' /\ SameSessions(sess, sess')
        /\ \A k \in Sessions : sess'[k].up = sess[k].up
        /\ stored' \in Seq(Groups) /\ Len(stored') <= MaxEvents
    <2>1. CASE OtherSends(g)
      BY <1>1, <2>1, StoreTyped DEF OtherSends
    <2>2. CASE OtherTypes(g)
      <3> DEFINE e == [type |-> "typing", group |-> g, id |-> 0]
      <3>1. e \in Event
        BY <1>1 DEF Event
      <3>2. sess' = Pushed(e, g) /\ stored' = stored
        BY <2>2 DEF OtherTypes
      <3> HIDE DEF e
      <3> QED BY <3>1, <3>2, PushedTyped DEF WellTyped, BackendTyped
    <2> QED BY <2>1, <2>2
  <1>4. Stays(sess, sess')
    BY <1>3 DEF Stays, SameSessions
  <1>5. CallsTyped'
    BY <1>2, <1>4, CallsFollow, CallsStay DEF WellTyped
  <1>6. BackendTyped'
    BY <1>2, <1>3 DEF WellTyped, BackendTyped
  <1> QED BY <1>2, <1>3, <1>5, <1>6, BackendKeepsPage DEF WellTyped

(* The backend answers a request; a login opens its session, and only a    *)
(* Raw QUIC session is ended.                                              *)
LEMMA ServeStep ==
    ASSUME WellTyped, SessionsKnown, NEW i \in Slots, Serve(i)
    PROVE  /\ WellTyped' /\ SameSessions(sess, sess')
           /\ UNCHANGED <<session, mode, wss, page, cursor, effects, on, poll, saved, applied, origin, raced>>
           /\ \E got : calls' = [calls EXCEPT ![i].stage = "answered", ![i].got = got]
           /\ calls[i].via \in Sessions
           /\ \A k \in Sessions : /\ sess'[k].up => sess[k].up \/ (calls[i].op = "auth" /\ k = calls[i].via)
                                  /\ sess[k].up => sess'[k].up \/ sess[k].mode = "raw-quic"
  <1> DEFINE c == calls[i]
             user == sess[c.via].user
  <1>1. c.op \in Op /\ CallTyped(c, sess) /\ c.stage = "sent" /\ sess[c.via].mode = c.mode
    BY CallIsRecord DEF Serve, WellTyped, CallsTyped, NoCall
  <1>2. c \in CallRecord /\ c.via \in Sessions /\ user \in Users
    <2>1. c \in CallRecord /\ c.via \in Sessions /\ user # "nobody"
      BY <1>1 DEF CallTyped, CallRecord
    <2> QED BY <2>1 DEF WellTyped, BackendTyped, SessTyped, SessionRecord
  <1>3. UNCHANGED page_
    BY DEF Serve
  <1>4. /\ member \in [Users -> SUBSET Groups] /\ sess \in [Sessions -> SessionRecord]
        /\ stored \in Seq(Groups) /\ Len(stored) <= MaxEvents
    BY DEF WellTyped, BackendTyped, SessTyped
  <1> DEFINE Opens(k) == c.op = "auth" /\ k = c.via
             Good(got) ==
               /\ SessTyped' /\ SameSessions(sess, sess')
               /\ \A k \in Sessions : /\ sess'[k].up => sess[k].up \/ Opens(k)
                                      /\ sess[k].up => sess'[k].up \/ sess[k].mode = "raw-quic"
               /\ member' \in [Users -> SUBSET Groups]
               /\ stored' \in Seq(Groups) /\ Len(stored') <= MaxEvents
               /\ Answered(i, got) /\ got \in SUBSET Nat
               /\ c.op \in {"list", "joinList"} => got \subseteq Groups
               /\ c.op \in {"open", "joinOpen", "send"} => got \subseteq 1 .. MaxEvents
               /\ c.op = "create" => \E g \in Groups : got = {g}
  <1>5. sess' = sess => /\ SessTyped' /\ SameSessions(sess, sess')
                        /\ \A k \in Sessions : /\ sess'[k].up => sess[k].up \/ Opens(k)
                                               /\ sess[k].up => sess'[k].up \/ sess[k].mode = "raw-quic"
    BY DEF WellTyped, BackendTyped, SessTyped, SameSessions
  <1>6. stored' = stored => stored' \in Seq(Groups) /\ Len(stored') <= MaxEvents
    BY <1>4
  <1>7. \A got : got \subseteq Groups \/ got \subseteq 1 .. MaxEvents => got \in SUBSET Nat
    <2>1. Groups \subseteq Nat
      BY Constants
    <2>2. 1 .. MaxEvents \subseteq Nat
      OBVIOUS
    <2> QED BY <2>1, <2>2
  <1>8. \E got : Good(got)
    <2>1. CASE c.op \in {"list", "joinList"} /\ Answered(i, member[user]) /\ UNCHANGED backend
      <3>1. member[user] \subseteq Groups
        BY <1>2, <1>4
      <3>2. UNCHANGED <<sess, member, stored>>
        BY <2>1 DEF backend
      <3>3. Good(member[user])
        BY <1>4, <1>5, <1>6, <1>7, <2>1, <3>1, <3>2
      <3> QED BY <3>3
    <2>2. CASE /\ c.op \in {"open", "joinOpen", "presence"} /\ UNCHANGED backend
               /\ Answered(i, IF c.op = "presence" THEN {} ELSE Stored(c.group))
      <3> DEFINE got == IF c.op = "presence" THEN {} ELSE Stored(c.group)
      <3>1. got \subseteq 1 .. MaxEvents
        BY <1>4, Constants DEF Stored
      <3>2. UNCHANGED <<sess, member, stored>>
        BY <2>2 DEF backend
      <3>3. Answered(i, got)
        BY <2>2
      <3> HIDE DEF got
      <3>4. Good(got)
        BY <1>4, <1>5, <1>6, <1>7, <2>2, <3>1, <3>2, <3>3
      <3> QED BY <3>4
    <2>3. CASE /\ c.op = "create" /\ UNCHANGED <<sess, stored>>
               /\ \E g \in Groups : /\ member' = [member EXCEPT ![user] = @ \cup {g}]
                                    /\ Answered(i, {g})
      <3>1. PICK g \in Groups : /\ member' = [member EXCEPT ![user] = @ \cup {g}]
                                /\ Answered(i, {g})
        BY <2>3
      <3>2. member' \in [Users -> SUBSET Groups]
        BY <1>2, <1>4, <3>1
      <3>3. Good({g})
        BY <1>5, <1>6, <1>7, <2>3, <3>1, <3>2
      <3> QED BY <3>3
    <2>4. CASE /\ c.op = "join" /\ Answered(i, {}) /\ UNCHANGED <<sess, stored>>
               /\ member' = [member EXCEPT ![user] = @ \cup {c.group}]
      <3>1. c.group \in Groups
        BY <1>1, <2>4 DEF CallTyped
      <3>2. member' \in [Users -> SUBSET Groups]
        BY <1>2, <1>4, <2>4, <3>1
      <3>3. Good({})
        BY <1>5, <1>6, <2>4, <3>2
      <3> QED BY <3>3
    <2>5. CASE /\ c.op = "send" /\ Store(c.group) /\ Answered(i, {Len(stored) + 1})
               /\ UNCHANGED member
      <3>1. c.group \in Groups
        BY <1>1, <2>5 DEF CallTyped
      <3>2. /\ SessTyped' /\ SameSessions(sess, sess')
            /\ \A k \in Sessions : sess'[k].up = sess[k].up
            /\ stored' \in Seq(Groups) /\ Len(stored') <= MaxEvents
            /\ {Len(stored) + 1} \subseteq 1 .. MaxEvents
        BY <2>5, <3>1, StoreTyped
      <3>3. Good({Len(stored) + 1})
        BY <1>4, <1>7, <2>5, <3>2
      <3> QED BY <3>3
    <2>6. CASE /\ c.op \in {"auth", "logout"} /\ Answered(i, {}) /\ UNCHANGED <<member, stored>>
               /\ sess' = [sess EXCEPT ![c.via] =
                             IF c.op = "auth" THEN [sess[c.via] EXCEPT !.up = TRUE] ELSE Ended(c.via)]
      <3>1. [sess[c.via] EXCEPT !.up = TRUE] \in SessionRecord
        BY <1>2, <1>4 DEF SessionRecord
      <3>2. /\ Ended(c.via) \in SessionRecord /\ ~Ended(c.via).up
            /\ Ended(c.via).user = user /\ Ended(c.via).mode = sess[c.via].mode
        BY <1>2, EndedTyped DEF WellTyped, BackendTyped
      <3>3. c.op = "logout" => sess[c.via].mode = "raw-quic"
        BY <1>1 DEF CallTyped
      <3>4. user # "nobody" /\ sess[c.via] \in SessionRecord
        BY <1>2, <1>4, Constants
      <3>5. /\ \A k \in Sessions \ {c.via} : sess'[k] = sess[k]
            /\ sess'[c.via] \in SessionRecord
            /\ sess'[c.via].user = user /\ sess'[c.via].mode = sess[c.via].mode
            /\ c.op = "auth" => sess'[c.via].up /\ sess'[c.via].received = sess[c.via].received
            /\ c.op = "logout" => ~sess'[c.via].up
        <4>1. CASE c.op = "auth"
          <5>1. sess' = [sess EXCEPT ![c.via] = [sess[c.via] EXCEPT !.up = TRUE]]
            BY <2>6, <4>1
          <5>2. sess'[c.via] = [sess[c.via] EXCEPT !.up = TRUE]
            BY <1>2, <1>4, <5>1
          <5> QED BY <1>2, <1>4, <3>1, <3>4, <4>1, <5>1, <5>2 DEF SessionRecord
        <4>2. CASE c.op = "logout"
          <5>1. sess' = [sess EXCEPT ![c.via] = Ended(c.via)]
            BY <2>6, <4>2
          <5> QED BY <1>2, <1>4, <3>2, <4>2, <5>1
        <4> QED BY <2>6, <4>1, <4>2
      <3>6. SessTyped'
        <4>1. sess' \in [Sessions -> SessionRecord]
          BY <1>2, <1>4, <2>6, <3>1, <3>2
        <4> QED BY <3>4, <3>5, <4>1 DEF WellTyped, BackendTyped, SessTyped
      <3>7. SameSessions(sess, sess')
        BY <2>6, <3>5 DEF SameSessions
      <3>8. \A k \in Sessions : /\ sess'[k].up => sess[k].up \/ Opens(k)
                                /\ sess[k].up => sess'[k].up \/ sess[k].mode = "raw-quic"
        BY <2>6, <3>3, <3>5
      <3>9. Good({})
        BY <1>4, <1>6, <2>6, <3>6, <3>7, <3>8
      <3> QED BY <3>9
    <2>7. CASE c.op = "restore" /\ Answered(i, {}) /\ UNCHANGED backend
      <3>1. UNCHANGED <<sess, member, stored>>
        BY <2>7 DEF backend
      <3>2. Good({})
        BY <1>4, <1>5, <1>6, <2>7, <3>1
      <3> QED BY <3>2
    <2> HIDE DEF Good, c, user
    <2> QED BY <2>1, <2>2, <2>3, <2>4, <2>5, <2>6, <2>7 DEF Serve, c, user
  <1>9. PICK got : Good(got)
    BY <1>8
  <1> DEFINE r == [c EXCEPT !.stage = "answered", !.got = got]
  <1>10. calls' = [calls EXCEPT ![i] = r]
    <2>1. calls' = [calls EXCEPT ![i].stage = "answered", ![i].got = got]
      BY <1>9 DEF Answered
    <2> QED BY <2>1 DEF WellTyped, CallsTyped
  <1>11. Stays(sess, sess')
    BY <1>9 DEF Stays, SameSessions
  <1>12. CallTyped(r, sess')
    <2>1. r \in CallRecord /\ r.op = c.op /\ r.mode = c.mode /\ r.via = c.via /\ r.group = c.group
          /\ r.got = got
      BY <1>2, <1>9 DEF CallRecord
    <2>2. CallTyped(c, sess')
      BY <1>1, <1>11, CallStays
    <2>3. sess'[r.via].mode = r.mode
      BY <1>1, <1>2, <1>9, <2>1 DEF SameSessions
    <2> HIDE DEF r
    <2> QED BY <1>9, <2>1, <2>2, <2>3 DEF CallTyped
  <1>13. CallsTyped'
    <2>1. Follows(calls', calls, {r})
      BY <1>10, ReplacedFollows DEF WellTyped
    <2> HIDE DEF r
    <2> QED BY <1>11, <1>12, <2>1, CallsStay DEF WellTyped
  <1>14. BackendTyped'
    BY <1>9 DEF BackendTyped
  <1> QED BY <1>2, <1>3, <1>9, <1>13, <1>14, BackendKeepsPage DEF WellTyped, Answered

(***************************************************************************)
(* Steps that keep session, transport, socket and effects.                 *)
(***************************************************************************)
Steady ==
    /\ UNCHANGED <<mode, wss, effects, on, raced>> /\ session'.id = session.id
    /\ saved'.id \in {0, saved.id} /\ poll'.id = poll.id
    /\ poll'.state # "none" => poll.state # "none"
    /\ effects.id = 0 => cursor' = cursor
    /\ Stays(sess, sess')

(* A new request is a command, over the WebSocket of the page if over any, *)
(* or the logout of a Raw QUIC session.                                    *)
Current(c) == (~raced /\ c.mode = "wss") => session.id # 0 /\ mode = "wss" /\ c.via = wss
KeepsCalls ==
    \A i \in Slots :
        \/ calls'[i].op = "none"
        \/ /\ calls'[i].op = calls[i].op /\ calls'[i].mode = calls[i].mode
           /\ calls'[i].via = calls[i].via
        \/ calls'[i].op \notin Arrivals \cup {"logout"} /\ Current(calls'[i])
        \/ /\ calls'[i].op = "logout" /\ calls'[i].mode = "raw-quic"
           /\ session.id # 0 /\ mode = "raw-quic"

KeepsSources ==
    \A k \in Sources(origin') :
        \/ k \in Sources(origin)
        \/ /\ k \in Sessions /\ sess[k].user # "nobody"
           /\ (~raced /\ sess[k].mode = "wss") => k = wss /\ session.id # 0 /\ mode = "wss"

LEMMA SourcesAreSessions ==
    ASSUME WellTyped
    PROVE  Sources(origin) \subseteq Sessions
  BY DEF WellTyped, PageTyped, Sources

LEMMA SteadyKnown ==
    ASSUME WellTyped, SessionsKnown, OneSubscription, Steady, KeepsCalls, KeepsSources
    PROVE  SessionsKnown' /\ OneSubscription'
  <1>1. \A k \in {session.id, wss, on, effects.id, poll.id, saved.id} \ {0} :
            sess'[k].user # "nobody" /\ sess'[k].mode = sess[k].mode
    BY SessionInUse DEF Steady, Stays
  <1>2. \A k \in {session'.id, wss', on', effects'.id, poll'.id, saved'.id} \ {0} : sess'[k].user # "nobody"
    BY <1>1 DEF Steady
  <1>3. \A k \in Sources(origin') : sess'[k].user # "nobody"
    BY SourcesAreSessions DEF KeepsSources, SessionsKnown, Steady, Stays
  <1>4. \A i \in Slots : calls'[i].op \in Arrivals =>
             calls[i].op \in Arrivals /\ calls'[i].via = calls[i].via
    BY DEF KeepsCalls, Arrivals
  <1>5. \A i \in Slots : calls'[i].op \in Arrivals =>
          /\ calls'[i].via \notin {session'.id, effects'.id, wss'}
          /\ \A j \in Slots \ {i} : calls'[j].op \in Arrivals => calls'[j].via # calls'[i].via
    BY <1>4 DEF SessionsKnown, Steady
  <1>6. SessionsKnown'
    BY <1>2, <1>3, <1>5 DEF SessionsKnown
  <1>7. OneSubscription'
    BY <1>1 DEF OneSubscription, Steady
  <1> QED BY <1>6, <1>7

LEMMA SteadyInTurn ==
    ASSUME WellTyped, SessionsKnown, OneSubscription, ~raced, OneSession, WssCallsAreCurrent,
           WssSourcesAreCurrent, Steady, KeepsCalls, KeepsSources,
           (on # 0 /\ sess'[on].up) => sess[on].up
    PROVE  OneSession' /\ WssCallsAreCurrent' /\ WssSourcesAreCurrent'
  <1>1. \A i \in Slots : calls'[i].op \in Arrivals =>
             calls[i].op = calls'[i].op
    BY DEF KeepsCalls, Arrivals
  <1>2. \A i \in Slots : calls'[i].op = "logout" =>
             calls[i].op = "logout" \/ (session.id # 0 /\ mode = "raw-quic")
    BY DEF KeepsCalls
  <1>3. \A i \in Slots : calls'[i].op \in Arrivals =>
         /\ session.id = 0 /\ effects.id = 0
         /\ \A j \in Slots \ {i} : calls'[j].op \notin Arrivals \cup {"logout"}
         /\ calls'[i].op = "restore" => cursor = 0
    BY <1>1, <1>2 DEF OneSession
  <1>4. OneSession'
    <2>1. (effects'.id # 0 /\ session'.id # 0) => session'.id = effects'.id
      BY DEF OneSession, Steady
    <2>2. \A i \in Slots : calls'[i].op \in Arrivals =>
             /\ session'.id = 0 /\ effects'.id = 0
             /\ \A j \in Slots \ {i} : calls'[j].op \notin Arrivals \cup {"logout"}
             /\ calls'[i].op = "restore" => cursor' = 0
      BY <1>3 DEF Steady
    <2>3. \A i \in Slots : calls'[i].op = "logout" => session'.id = 0 \/ mode' = "raw-quic"
      BY <1>2 DEF OneSession, Steady
    <2>4. (effects'.id # 0 /\ effects'.mode = "wss" /\ session'.id = 0) =>
             wss' = 0 /\ (on' # 0 => ~sess'[on'].up)
      BY DEF OneSession, Steady
    <2> QED BY <2>1, <2>2, <2>3, <2>4 DEF OneSession
  <1>5. WssCallsAreCurrent'
    BY DEF WssCallsAreCurrent, KeepsCalls, Current, Steady, Arrivals
  <1>6. WssSourcesAreCurrent'
    <2>1. \A k \in Sources(origin') : k \in Sessions /\ sess[k].user # "nobody"
      BY SourcesAreSessions DEF KeepsSources, SessionsKnown
    <2>2. \A k \in Sources(origin') : sess'[k].mode = sess[k].mode
      BY <2>1 DEF Steady, Stays
    <2> QED BY <2>2 DEF WssSourcesAreCurrent, KeepsSources, Steady
  <1> QED BY <1>4, <1>5, <1>6

LEMMA SteadyKeeps ==
    ASSUME PageInv, WellTyped', Steady, KeepsCalls, KeepsSources, Subscription',
           (~raced /\ on # 0 /\ sess'[on].up) => sess[on].up,
           (~raced /\ InTurn) => CursorIsLast'
    PROVE  PageInv'
  <1>1. SessionsKnown' /\ OneSubscription'
    BY SteadyKnown DEF PageInv
  <1>2. ~raced => OneSession' /\ WssCallsAreCurrent' /\ WssSourcesAreCurrent'
    BY SteadyInTurn DEF PageInv, InTurn
  <1>3. raced' = raced
    BY DEF Steady
  <1> QED BY <1>1, <1>2, <1>3 DEF PageInv, InTurn

LEMMA SubscriptionStays ==
    ASSUME OneSubscription, Subscription, Steady, session' = session,
           poll.state = "none" => page'.pushState \in {page.pushState, "retrying"},
           (wss # 0 /\ ~sess'[wss].up) => ~sess[wss].up
    PROVE  Subscription'
  <1>1. /\ effects.mode = "wss" => poll.state = "none"
        /\ effects.up => effects.once
    BY DEF OneSubscription
  <1> QED BY <1>1 DEF Subscription, Steady

LEMMA CursorStays ==
    ASSUME CursorIsLast, Steady, UNCHANGED <<cursor, applied, poll>>,
           (on # 0 /\ sess'[on].up) => sess[on].up /\ sess'[on].received = sess[on].received
    PROVE  CursorIsLast'
  <1>1. UNCHANGED <<mode, on>> /\ session'.id = session.id /\ effects' = effects
    BY DEF Steady
  <1> QED BY <1>1 DEF CursorIsLast

LEMMA FollowsKeeps ==
    ASSUME NEW R, Follows(calls', calls, R),
           \A r \in R : \/ r.op \notin Arrivals \cup {"logout"} /\ Current(r)
                        \/ /\ r.op = "logout" /\ r.mode = "raw-quic"
                           /\ session.id # 0 /\ mode = "raw-quic"
    PROVE  KeepsCalls
  <1> SUFFICES ASSUME NEW i \in Slots
               PROVE  \/ calls'[i].op = "none"
                      \/ /\ calls'[i].op = calls[i].op /\ calls'[i].mode = calls[i].mode
                         /\ calls'[i].via = calls[i].via
                      \/ calls'[i].op \notin Arrivals \cup {"logout"} /\ Current(calls'[i])
                      \/ /\ calls'[i].op = "logout" /\ calls'[i].mode = "raw-quic"
                         /\ session.id # 0 /\ mode = "raw-quic"
    BY DEF KeepsCalls
  <1>1. NoCall.op = "none"
    BY DEF NoCall
  <1> QED BY <1>1 DEF Follows

(* A command of the signed-in page is current. *)
LEMMA CommandIsCurrent ==
    ASSUME NEW r, IsCommand(r, mode), session.id # 0
    PROVE  r.op \notin Arrivals \cup {"logout"} /\ Current(r)
  BY DEF IsCommand, Current, Arrivals, Op

(***************************************************************************)
(* The invariant, action by action: first the steady steps.                *)
(***************************************************************************)
LEMMA AskInv ==
    ASSUME PageInv, NEW op \in Op \ {"auth", "restore", "logout"}, NEW busy \in Busy,
           NEW g \in Groups \cup {0},
           op \in {"open", "join", "joinList", "joinOpen", "presence", "send"} => g \in Groups,
           Ask(op, g, busy)
    PROVE  PageInv'
  <1> DEFINE r == Command(op, mode, session.id, g)
  <1>1. WellTyped' /\ Follows(calls', calls, {r})
    BY AskStep DEF PageInv
  <1>2. /\ UNCHANGED <<session, mode, wss, cursor, effects, on, poll, saved, sess, applied, origin, raced>>
        /\ session.id # 0
    BY DEF Ask, backend, history, SignedIn
  <1>3. page'.pushState = page.pushState
    BY DEF Ask, PageInv, WellTyped, PageTyped, TypeOK
  <1>4. Steady /\ KeepsSources
    BY <1>2 DEF Steady, Stays, KeepsSources
  <1>5. KeepsCalls
    <2>1. r.op \notin Arrivals \cup {"logout"} /\ Current(r)
      BY <1>2, CommandIsCommand, CommandIsCurrent
    <2> HIDE DEF r
    <2> QED BY <1>1, <2>1, FollowsKeeps
  <1>6. Subscription'
    BY <1>2, <1>3, <1>4, SubscriptionStays DEF PageInv
  <1>7. (~raced /\ InTurn) => CursorIsLast'
    BY <1>2, <1>4, CursorStays DEF InTurn
  <1> QED BY <1>1, <1>2, <1>4, <1>5, <1>6, <1>7, SteadyKeeps

LEMMA refreshPresenceInv ==
    ASSUME PageInv, refreshPresence
    PROVE  PageInv'
  <1> DEFINE r == Command("presence", effects.mode, effects.id, effects.active)
  <1>1. WellTyped' /\ Follows(calls', calls, {r})
    BY refreshPresenceStep DEF PageInv
  <1>2. UNCHANGED <<session, mode, wss, page, cursor, effects, on, poll, saved, sess, applied, origin, raced>>
    BY DEF refreshPresence, backend, history
  <1>3. Steady /\ KeepsSources
    BY <1>2 DEF Steady, Stays, KeepsSources
  <1>4. KeepsCalls
    <2>1. IsCommand(r, effects.mode) /\ effects.id # 0 /\ mode = effects.mode
      BY CommandIsCommand DEF refreshPresence, Reaches, PageInv, OneSubscription, Op
    <2>2. (~raced /\ effects.mode = "wss") => session.id # 0
      BY DEF refreshPresence, Reaches, PageInv, InTurn, OneSession
    <2>3. r.op \notin Arrivals \cup {"logout"} /\ Current(r)
      BY <2>1, <2>2 DEF IsCommand, Current, Arrivals
    <2> HIDE DEF r
    <2> QED BY <1>1, <2>3, FollowsKeeps
  <1>5. Subscription'
    BY <1>2, <1>3, SubscriptionStays DEF PageInv
  <1>6. (~raced /\ InTurn) => CursorIsLast'
    BY <1>2, <1>3, CursorStays DEF InTurn
  <1> QED BY <1>1, <1>2, <1>3, <1>4, <1>5, <1>6, SteadyKeeps

LEMMA logoutQuicInv ==
    ASSUME PageInv, WellTyped', Click, SignedIn, mode = "raw-quic",
           Follows(calls', calls, {Request("logout", mode, session.id, 0)}),
           UNCHANGED <<session, mode, wss, page, cursor, effects, on, poll, saved, sess, applied, origin, raced>>
    PROVE  PageInv'
  <1>1. Steady /\ KeepsSources
    BY DEF Steady, Stays, KeepsSources
  <1>2. KeepsCalls
    BY FollowsKeeps DEF Request, SignedIn
  <1>3. Subscription'
    BY <1>1, SubscriptionStays DEF PageInv
  <1>4. (~raced /\ InTurn) => CursorIsLast'
    BY <1>1, CursorStays DEF InTurn
  <1> QED BY <1>1, <1>2, <1>3, <1>4, SteadyKeeps

(* A continuation of the page: over WSS it is one of the session the page  *)
(* has, over Raw QUIC of the session that was asked.                       *)
LEMMA ArriveShowsInv ==
    ASSUME PageInv, NEW i \in Slots, Arrive(i), calls[i].op \notin {"auth", "restore", "logout"}
    PROVE  PageInv'
  <1> DEFINE c == calls[i]
  <1>1. /\ WellTyped' /\ sess' = sess
        /\ UNCHANGED <<session, mode, wss, cursor, effects, on, poll, saved, applied, raced>>
        /\ page'.pushState = page.pushState
        /\ Sources(origin') \subseteq Sources(origin) \cup {c.via}
        /\ c.op # "none" /\ sess[c.via].mode = c.mode
        /\ \E R : /\ Follows(calls', calls, R)
                  /\ \A r \in R : IsCommand(r, c.mode) /\ Reaches(c.mode, c.via)
    BY ArriveShows DEF PageInv
  <1>2. Steady
    BY <1>1 DEF Steady, Stays
  <1>3. c.via \in Sessions /\ sess[c.via].user # "nobody"
    BY <1>1 DEF PageInv, WellTyped, CallsTyped, CallTyped, CallRecord
  <1>4. (~raced /\ c.mode = "wss") => session.id # 0 /\ mode = "wss" /\ c.via = wss
    BY <1>1 DEF PageInv, InTurn, WssCallsAreCurrent, Arrivals
  <1>5. KeepsSources
    BY <1>1, <1>3, <1>4 DEF KeepsSources
  <1>6. KeepsCalls
    <2>1. PICK R : /\ Follows(calls', calls, R)
                   /\ \A r \in R : IsCommand(r, c.mode) /\ Reaches(c.mode, c.via)
      BY <1>1
    <2>2. \A r \in R : r.op \notin Arrivals \cup {"logout"} /\ Current(r)
      BY <1>4, <2>1 DEF IsCommand, Current, Arrivals
    <2> QED BY <2>1, <2>2, FollowsKeeps
  <1>7. Subscription'
    BY <1>1, <1>2, SubscriptionStays DEF PageInv
  <1>8. (~raced /\ InTurn) => CursorIsLast'
    BY <1>1, <1>2, CursorStays DEF InTurn
  <1> QED BY <1>1, <1>2, <1>5, <1>6, <1>7, <1>8, SteadyKeeps

LEMMA RejectInv ==
    ASSUME PageInv, NEW i \in Slots, Reject(i),
           UNCHANGED <<session, applied, origin>>, saved'.id \in {0, saved.id}
    PROVE  PageInv'
  <1> DEFINE c == calls[i]
  <1>1. /\ WellTyped' /\ Stays(sess, sess')
        /\ UNCHANGED <<mode, wss, cursor, effects, on, poll, raced>>
        /\ page'.pushState = page.pushState
        /\ Follows(calls', calls, {}) /\ c.op \in Op
        /\ sess' = IF c.op = "auth" THEN [sess EXCEPT ![c.via] = Ended(c.via)] ELSE sess
    BY RejectStep DEF PageInv
  <1>2. Steady /\ KeepsSources
    BY <1>1 DEF Steady, KeepsSources
  <1>3. KeepsCalls
    BY <1>1, FollowsKeeps
  <1>5. \A k \in Sessions : (c.op # "auth" \/ k # c.via) => sess'[k] = sess[k]
    BY <1>1 DEF PageInv, WellTyped, BackendTyped, SessTyped
  <1>6. wss # 0 => wss \in Sessions /\ sess'[wss] = sess[wss]
    BY <1>1, <1>5, SessionInUse DEF PageInv, SessionsKnown, Arrivals
  <1>7. Subscription'
    BY <1>1, <1>2, <1>6, SubscriptionStays DEF PageInv
  <1>8. (on # 0 /\ sess'[on].up) => sess'[on] = sess[on]
    <2>1. on # 0 => on \in Sessions
      BY SessionInUse DEF PageInv
    <2>2. CASE c.op = "auth" /\ on = c.via /\ on # 0
      <3>1. sess'[on] = Ended(on)
        BY <1>1, <2>1, <2>2 DEF PageInv, WellTyped, BackendTyped, SessTyped
      <3> QED BY <2>1, <2>2, <3>1, EndedTyped DEF PageInv, WellTyped, BackendTyped
    <2> QED BY <1>5, <2>1, <2>2
  <1>9. (~raced /\ InTurn) => CursorIsLast'
    BY <1>1, <1>2, <1>8, CursorStays DEF InTurn
  <1> QED BY <1>1, <1>2, <1>3, <1>7, <1>8, <1>9, SteadyKeeps

LEMMA LoseInv ==
    ASSUME PageInv, NEW i \in Slots, Lose(i)
    PROVE  PageInv'
  <1>1. /\ WellTyped' /\ sess' = sess /\ Follows(calls', calls, {})
        /\ UNCHANGED <<session, mode, wss, page, cursor, effects, on, poll, saved, applied, origin, raced>>
    BY LoseStep DEF PageInv
  <1>2. Steady /\ KeepsSources
    BY <1>1 DEF Steady, Stays, KeepsSources
  <1>3. KeepsCalls
    BY <1>1, FollowsKeeps
  <1>4. Subscription'
    BY <1>1, <1>2, SubscriptionStays DEF PageInv
  <1>5. (~raced /\ InTurn) => CursorIsLast'
    BY <1>1, <1>2, CursorStays DEF InTurn
  <1> QED BY <1>1, <1>2, <1>3, <1>4, <1>5, SteadyKeeps

LEMMA PeerCloseInv ==
    ASSUME PageInv, NEW k \in Sessions, PeerClose(k)
    PROVE  PageInv'
  <1>1. /\ WellTyped' /\ Stays(sess, sess')
        /\ UNCHANGED <<mode, wss, cursor, effects, on, poll, saved, applied, origin, raced>>
        /\ page'.pushState = IF on = k THEN "retrying" ELSE page.pushState
        /\ session' = IF on = k THEN [session EXCEPT !.connected = FALSE] ELSE session
        /\ Follows(calls', calls, {})
        /\ sess' = [sess EXCEPT ![k] = Ended(k)]
    BY PeerCloseStep DEF PageInv
  <1>2. session'.id = session.id /\ (on = k => ~session'.connected)
    BY <1>1 DEF PageInv, WellTyped, PageTyped, TypeOK
  <1>3. Steady /\ KeepsSources
    BY <1>1, <1>2 DEF Steady, KeepsSources
  <1>4. KeepsCalls
    BY <1>1, FollowsKeeps
  <1>5. \A j \in Sessions : sess'[j] = sess[j] \/ (j = k /\ ~sess'[j].up)
    BY <1>1, EndedTyped DEF PageInv, WellTyped, BackendTyped, SessTyped
  <1>6. on # 0 => on \in Sessions
    BY SessionInUse DEF PageInv
  <1>7. wss # 0 => wss \in Sessions
    BY SessionInUse DEF PageInv
  <1>8. Subscription'
    <2>1. CASE on = k
      BY <1>1, <1>2, <2>1 DEF PageInv, Subscription
    <2>2. CASE on # k
      BY <1>1, <1>5, <1>7, <2>2 DEF PageInv, Subscription
    <2> QED BY <2>1, <2>2
  <1>9. (~raced /\ InTurn) => CursorIsLast'
    BY <1>1, <1>3, <1>5, <1>6, CursorStays DEF InTurn
  <1> QED BY <1>1, <1>3, <1>4, <1>5, <1>6, <1>8, <1>9, SteadyKeeps

LEMMA pollFailedInv ==
    ASSUME PageInv, pollFailed
    PROVE  PageInv'
  <1>1. WellTyped' /\ sess' = sess /\ calls' = calls
    BY pollFailedStep DEF PageInv
  <1>2. /\ UNCHANGED <<session, mode, wss, cursor, effects, on, saved, applied, origin, raced>>
        /\ poll.state = "sent"
    BY DEF pollFailed, history
  <1>3. poll'.id = poll.id /\ poll'.state = "waiting" /\ page'.pushState = "retrying"
    BY DEF pollFailed, PageInv, WellTyped, PageTyped, TypeOK
  <1>4. Steady /\ KeepsSources
    BY <1>1, <1>2, <1>3 DEF Steady, Stays, KeepsSources
  <1>5. KeepsCalls
    BY <1>1 DEF KeepsCalls
  <1>6. Subscription'
    BY <1>1, <1>2, <1>3, <1>4, SubscriptionStays DEF PageInv
  <1>7. (~raced /\ InTurn) => CursorIsLast'
    BY <1>1, <1>2, <1>3 DEF InTurn, CursorIsLast
  <1> QED BY <1>1, <1>2, <1>4, <1>5, <1>6, <1>7, SteadyKeeps

LEMMA pollAgainInv ==
    ASSUME PageInv, pollAgain
    PROVE  PageInv'
  <1>1. WellTyped' /\ sess' = sess /\ calls' = calls
    BY pollAgainStep DEF PageInv
  <1>2. /\ UNCHANGED <<session, mode, wss, page, cursor, effects, on, saved, applied, origin, raced>>
        /\ poll.state = "waiting"
    BY DEF pollAgain, history
  <1>3. poll'.id = poll.id /\ poll'.after = cursor
    BY DEF pollAgain, PageInv, WellTyped, PageTyped, TypeOK
  <1>4. Steady /\ KeepsSources
    BY <1>1, <1>2, <1>3 DEF Steady, Stays, KeepsSources
  <1>5. KeepsCalls
    BY <1>1 DEF KeepsCalls
  <1>6. Subscription'
    BY <1>1, <1>2, <1>3, <1>4, SubscriptionStays DEF PageInv
  <1>7. (~raced /\ InTurn) => CursorIsLast'
    BY <1>1, <1>2, <1>3 DEF InTurn, CursorIsLast
  <1> QED BY <1>1, <1>2, <1>4, <1>5, <1>6, <1>7, SteadyKeeps

LEMMA typingTimeoutInv ==
    ASSUME PageInv, typingTimeout
    PROVE  PageInv'
  <1>1. WellTyped' /\ sess' = sess /\ calls' = calls /\ page'.pushState = page.pushState
    BY typingTimeoutStep DEF PageInv
  <1>2. UNCHANGED <<session, mode, wss, cursor, effects, on, poll, saved, applied, origin, raced>>
    BY DEF typingTimeout, history
  <1>3. Steady /\ KeepsSources
    BY <1>1, <1>2 DEF Steady, Stays, KeepsSources
  <1>4. KeepsCalls
    BY <1>1 DEF KeepsCalls
  <1>5. Subscription'
    BY <1>1, <1>2, <1>3, SubscriptionStays DEF PageInv
  <1>6. (~raced /\ InTurn) => CursorIsLast'
    BY <1>1, <1>2, <1>3, CursorStays DEF InTurn
  <1> QED BY <1>1, <1>2, <1>3, <1>4, <1>5, <1>6, SteadyKeeps

(* what is appended to a run of numbers *)
Consecutive(s) == \A n \in DOMAIN s : s[n] = s[1] + n - 1

(* t is s with d more numbers after c, and they go on with those of s *)
GoesOnTo(s, c, d, t) ==
    /\ t = << >> <=> s = << >> /\ d = 0
    /\ t # << >> => /\ Consecutive(t)
                    /\ t[Len(t)] = c + d
                    /\ t[1] = IF s = << >> THEN c + 1 ELSE s[1]

LEMMA Appended ==
    ASSUME NEW s \in Seq(Nat), NEW u \in Seq(Nat)
    PROVE  /\ s \o u \in Seq(Nat) /\ Len(s \o u) = Len(s) + Len(u)
           /\ \A n \in 1 .. Len(s) : (s \o u)[n] = s[n]
           /\ \A n \in Len(s) + 1 .. Len(s) + Len(u) : (s \o u)[n] = u[n - Len(s)]
  BY ConcatProperties

LEMMA NotEmpty ==
    ASSUME NEW s \in Seq(Nat)
    PROVE  DOMAIN s = 1 .. Len(s) /\ Len(s) \in Nat /\ (s = << >> <=> Len(s) = 0)
  BY EmptySeq

LEMMA RunGoesOn ==
    ASSUME NEW s \in Seq(Nat), NEW c \in Nat, NEW d \in Nat,
           s # << >> => Consecutive(s) /\ c = s[Len(s)],
           NEW t, t = s \o [n \in 1 .. d |-> c + n]
    PROVE  GoesOnTo(s, c, d, t)
  <1> DEFINE more == [n \in 1 .. d |-> c + n]
             m == Len(s)
  <1>1. more \in Seq(Nat) /\ Len(more) = d
    OBVIOUS
  <1>2. \A n \in 1 .. d : more[n] = c + n
    OBVIOUS
  <1>3. m \in Nat /\ DOMAIN s = 1 .. m /\ (s = << >> <=> m = 0)
    BY NotEmpty
  <1>4. t = s \o more
    OBVIOUS
  <1> HIDE DEF more
  <1>5. /\ t \in Seq(Nat) /\ Len(t) = m + d
        /\ \A n \in 1 .. m : t[n] = s[n]
        /\ \A n \in m + 1 .. m + d : t[n] = more[n - m]
    <2>1. /\ s \o more \in Seq(Nat) /\ Len(s \o more) = m + d
          /\ \A n \in 1 .. m : (s \o more)[n] = s[n]
      BY <1>1, Appended
    <2>2. \A n \in m + 1 .. m + d : (s \o more)[n] = more[n - m]
      BY <1>1, Appended
    <2> QED BY <1>4, <2>1, <2>2
  <1>6. DOMAIN t = 1 .. m + d /\ (t = << >> <=> m + d = 0)
    BY <1>5, NotEmpty
  <1>16. m = Len(s)
    OBVIOUS
  <1> HIDE DEF m
  <1>7. \A n \in m + 1 .. m + d : t[n] = c + (n - m)
    <2> SUFFICES ASSUME NEW n \in m + 1 .. m + d PROVE t[n] = c + (n - m)
      OBVIOUS
    <2>1. n - m \in 1 .. d
      BY <1>3
    <2> QED BY <1>2, <1>5, <2>1
  <1>8. t = << >> <=> s = << >> /\ d = 0
    <2>1. m + d = 0 <=> m = 0 /\ d = 0
      BY <1>3
    <2> QED BY <1>3, <1>6, <2>1
  <1>9. CASE s = << >>
    <2>1. m = 0
      BY <1>3, <1>9
    <2>2. \A n \in 1 .. d : t[n] = c + n
      <3> SUFFICES ASSUME NEW n \in 1 .. d PROVE t[n] = c + n
        OBVIOUS
      <3>1. n \in m + 1 .. m + d /\ n - m = n
        BY <2>1
      <3> QED BY <1>7, <3>1
    <2>3. DOMAIN t = 1 .. d /\ Len(t) = d
      BY <1>5, <1>6, <2>1
    <2>4. t # << >> => d >= 1 /\ t[1] = c + 1 /\ t[Len(t)] = c + d
      BY <1>8, <1>9, <2>2, <2>3
    <2>5. t # << >> => Consecutive(t)
      BY <2>2, <2>3, <2>4 DEF Consecutive
    <2> QED BY <1>8, <1>9, <2>4, <2>5 DEF GoesOnTo
  <1>10. CASE s # << >>
    <2>1. m >= 1
      BY <1>3, <1>10
    <2>2. \A n \in 1 .. m : s[n] = s[1] + n - 1
      BY <1>3, <1>10 DEF Consecutive
    <2>3. 1 \in DOMAIN s /\ m \in 1 .. m
      BY <1>3, <2>1
    <2>4. s[1] \in Nat
      BY <2>3
    <2>5. c = s[m]
      BY <1>10, <1>16
    <2>6. s[m] = s[1] + m - 1
      BY <2>2, <2>3
    <2>7. t[1] = s[1] /\ \A n \in 1 .. m : t[n] = s[1] + n - 1
      BY <1>3, <1>5, <2>1, <2>2
    <2> DEFINE f == s[1]
    <2>8. f \in Nat /\ c = f + m - 1
      BY <2>4, <2>5, <2>6
    <2> HIDE DEF f
    <2>9. \A n \in m + 1 .. m + d : t[n] = f + n - 1
      <3> SUFFICES ASSUME NEW n \in m + 1 .. m + d PROVE t[n] = f + n - 1
        OBVIOUS
      <3>1. t[n] = c + (n - m)
        BY <1>7
      <3> QED BY <1>3, <2>8, <3>1
    <2>10. \A n \in 1 .. m : t[n] = f + n - 1
      BY <2>7 DEF f
    <2>11. \A n \in 1 .. m + d : t[n] = f + n - 1
      <3> SUFFICES ASSUME NEW n \in 1 .. m + d PROVE t[n] = f + n - 1
        OBVIOUS
      <3>1. n \in 1 .. m \/ n \in m + 1 .. m + d
        BY <1>3
      <3> QED BY <2>9, <2>10, <3>1
    <2>12. t[1] = f
      BY <2>7 DEF f
    <2>13. Consecutive(t)
      BY <1>6, <2>11, <2>12 DEF Consecutive
    <2>14. t[m + d] = c + d
      <3>1. m + d \in 1 .. m + d
        BY <1>3, <2>1
      <3>2. t[m + d] = f + (m + d) - 1
        BY <2>11, <3>1
      <3>3. m \in Nat
        BY <1>3
      <3>4. f + (m + d) - 1 = c + d
        BY <2>8, <3>3
      <3> QED BY <3>2, <3>4
    <2> QED BY <1>5, <1>8, <1>10, <2>7, <2>13, <2>14 DEF GoesOnTo
  <1> QED BY <1>9, <1>10

(* from the numbers of applyPush to those of the lemma *)
LEMMA SameRun ==
    ASSUME NEW c \in Nat, NEW d \in Nat
    PROVE  [n \in 1 .. (c + d) - (c + 1) + 1 |-> c + 1 + n - 1] = [n \in 1 .. d |-> c + n]
  <1>1. (c + d) - (c + 1) + 1 = d
    OBVIOUS
  <1>2. \A n \in 1 .. d : c + 1 + n - 1 = c + n
    OBVIOUS
  <1> QED BY <1>1, <1>2

LEMMA CursorIsLastConsecutive ==
    ASSUME WellTyped, CursorIsLast
    PROVE  applied # << >> => Consecutive(applied) /\ cursor = applied[Len(applied)]
  BY DEF CursorIsLast, Consecutive

LEMMA receivePushInv ==
    ASSUME PageInv, NEW k \in Sessions, receivePush(k)
    PROVE  PageInv'
  <1> DEFINE c == sess[k].received
  <1>1. /\ WellTyped' /\ Stays(sess, sess')
        /\ UNCHANGED <<session, mode, wss, effects, on, poll, calls, saved, raced>>
        /\ sess' = [sess EXCEPT ![k].received = c + 1]
        /\ c \in Nat /\ sess[k].up
        /\ \/ on = k /\ applyPush(k, c + 1, c + 1)
           \/ on # k /\ UNCHANGED <<cursor, page, origin, applied>>
        /\ page'.pushState = IF on = k /\ poll.state # "none" THEN "listening" ELSE page.pushState
        /\ Sources(origin') \subseteq Sources(origin) \cup (IF on = k THEN {k} ELSE {})
    BY receivePushStep DEF PageInv
  <1>2. k # 0 /\ on = k => effects.id # 0 /\ effects.mode = "wss" /\ poll.state = "none"
    BY Constants DEF PageInv, OneSubscription
  <1>3. \A j \in Sessions : /\ sess'[j].up = sess[j].up
                            /\ j # k => sess'[j] = sess[j]
                            /\ j = k => sess'[j].received = c + 1
    BY <1>1 DEF PageInv, WellTyped, BackendTyped, SessTyped, SessionRecord
  <1>4. k # 0
    BY Constants
  <1>5. on = k => effects.id # 0
    BY <1>2, <1>4
  <1>6. effects.id = 0 => cursor' = cursor
    BY <1>1, <1>5
  <1>7. Steady
    BY <1>1, <1>6 DEF Steady
  <1>8. (~raced /\ on = k) => k = wss /\ session.id = effects.id /\ session.id # 0 /\ mode = "wss"
    BY <1>1, <1>2, <1>4 DEF PageInv, InTurn, OneSession, OneSubscription, Subscription
  <1>9. sess[k].user # "nobody"
    BY <1>1 DEF PageInv, WellTyped, BackendTyped, SessTyped
  <1>10. KeepsSources
    BY <1>1, <1>8, <1>9 DEF KeepsSources
  <1>11. KeepsCalls
    BY <1>1 DEF KeepsCalls
  <1>12. wss # 0 => wss \in Sessions
    BY SessionInUse DEF PageInv
  <1>13. on # 0 => on \in Sessions
    BY SessionInUse DEF PageInv
  <1>14. Subscription'
    <2>1. poll.state = "none" => page'.pushState = page.pushState
      BY <1>1
    <2>2. (wss # 0 /\ ~sess'[wss].up) => ~sess[wss].up
      BY <1>3, <1>12
    <2> QED BY <1>1, <1>7, <2>1, <2>2, SubscriptionStays DEF PageInv
  <1>15. ASSUME ~raced, InTurn PROVE CursorIsLast'
    <2>1. CASE on # k /\ UNCHANGED <<cursor, page, origin, applied>>
      <3>1. (on # 0 /\ sess'[on].up) => sess[on].up /\ sess'[on].received = sess[on].received
        BY <1>3, <1>13, <2>1
      <3> QED BY <1>1, <1>7, <1>15, <2>1, <3>1, CursorStays DEF InTurn
    <2>2. CASE on = k /\ applyPush(k, c + 1, c + 1)
      <3>1. cursor \in Nat /\ cursor <= c /\ (applied # << >> => cursor = c)
        BY <1>1, <1>4, <1>15, <2>2 DEF InTurn, CursorIsLast, PageInv, WellTyped, PageTyped, TypeOK
      <3>2. /\ cursor' = Max({cursor, c + 1})
            /\ applied' = applied \o [n \in 1 .. (c + 1) - (c + 1) + 1 |-> c + 1 + n - 1]
        BY <2>2 DEF applyPush, NextCursor
      <3>3. cursor' = c + 1
        <4>1. c + 1 \in Nat /\ cursor <= c + 1
          BY <1>1, <3>1
        <4>2. Max({cursor, c + 1}) = c + 1
          BY <3>1, <4>1, GreatestOfTwo
        <4> QED BY <3>2, <4>2
      <3>4. applied \in Seq(Nat)
        BY DEF PageInv, WellTyped, PageTyped
      <3>5. applied' = applied \o [n \in 1 .. 1 |-> c + n]
        BY <1>1, <3>2, SameRun
      <3>6. applied # << >> => Consecutive(applied) /\ c = applied[Len(applied)]
        BY <1>15, <3>1, CursorIsLastConsecutive DEF InTurn, PageInv
      <3>7. applied' # << >> /\ Consecutive(applied') /\ applied'[Len(applied')] = c + 1
        <4>1. c \in Nat /\ 1 \in Nat
          BY <1>1
        <4> HIDE DEF c
        <4>2. GoesOnTo(applied, c, 1, applied')
          BY <3>4, <3>5, <3>6, <4>1, RunGoesOn
        <4> QED BY <4>2 DEF GoesOnTo
      <3>8. /\ on' # 0 /\ sess'[on'].up => cursor' = sess'[on'].received
            /\ poll'.state # "sent" /\ mode' # "raw-quic" /\ session'.id = effects'.id
        BY <1>1, <1>2, <1>3, <1>4, <1>8, <1>15, <2>2, <3>3
      <3>9. cursor' <= cursor'
        BY <1>1, <3>3
      <3> QED BY <3>3, <3>7, <3>8, <3>9 DEF CursorIsLast, Consecutive
    <2> QED BY <1>1, <2>1, <2>2
  <1>16. (~raced /\ on # 0 /\ sess'[on].up) => sess[on].up
    BY <1>3, <1>13
  <1> QED BY <1>1, <1>7, <1>10, <1>11, <1>14, <1>15, <1>16, SteadyKeeps

LEMMA pollAnsweredInv ==
    ASSUME PageInv, pollAnswered
    PROVE  PageInv'
  <1>1. /\ WellTyped' /\ sess' = sess
        /\ UNCHANGED <<session, mode, wss, effects, on, calls, saved, raced>>
        /\ poll.id \in Sessions /\ sess[poll.id].mode = "raw-quic" /\ poll.state = "sent"
        /\ poll' = [poll EXCEPT !.after = cursor']
        /\ Sources(origin') \subseteq Sources(origin) \cup {poll.id}
        /\ \E to \in Nat : /\ to >= poll.after
                           /\ cursor' = IF cursor <= to THEN to ELSE cursor
                           /\ applied' = applied \o
                                [n \in 1 .. to - (poll.after + 1) + 1 |-> poll.after + 1 + n - 1]
    BY pollAnsweredStep DEF PageInv
  <1>2. /\ effects.id # 0 /\ effects.mode = "raw-quic" /\ poll.id = effects.id
        /\ on = 0 /\ mode = "raw-quic"
    BY <1>1 DEF PageInv, OneSubscription
  <1>3. poll'.id = poll.id /\ poll'.state = "sent" /\ poll'.after = cursor'
    BY <1>1 DEF PageInv, WellTyped, PageTyped
  <1>4. Steady
    BY <1>1, <1>2, <1>3 DEF Steady, Stays
  <1>5. sess[poll.id].user # "nobody"
    BY <1>1, <1>2, SessionInUse DEF PageInv
  <1>6. KeepsSources
    BY <1>1, <1>5 DEF KeepsSources
  <1>7. KeepsCalls
    BY <1>1 DEF KeepsCalls
  <1>8. Subscription'
    BY <1>1, <1>2 DEF Subscription
  <1>9. ASSUME ~raced, InTurn PROVE CursorIsLast'
    <2>1. poll.after = cursor /\ cursor \in Nat /\ applied \in Seq(Nat)
      BY <1>1, <1>9 DEF InTurn, CursorIsLast, PageInv, WellTyped, PageTyped, TypeOK
    <2>2. PICK to \in Nat : /\ to >= cursor
                            /\ cursor' = IF cursor <= to THEN to ELSE cursor
                            /\ applied' = applied \o
                                 [n \in 1 .. to - (cursor + 1) + 1 |-> cursor + 1 + n - 1]
      BY <1>1, <2>1
    <2> DEFINE d == to - cursor
    <2>3. d \in Nat /\ to = cursor + d
      BY <2>1, <2>2
    <2>4. cursor' = cursor + d
      BY <2>1, <2>2, <2>3
    <2> HIDE DEF d
    <2>5. applied' = applied \o [n \in 1 .. d |-> cursor + n]
      BY <2>1, <2>2, <2>3, SameRun
    <2>6. applied # << >> => Consecutive(applied) /\ cursor = applied[Len(applied)]
      BY <1>9, CursorIsLastConsecutive DEF InTurn, PageInv
    <2>7. GoesOnTo(applied, cursor, d, applied')
      BY <2>1, <2>3, <2>5, <2>6, RunGoesOn
    <2>8. /\ session.id # 0 /\ applied = << >> => cursor = 0
          /\ session.id # 0 /\ applied # << >> => applied[1] = 1
          /\ session.id # 0 => session.id = effects.id
      BY <1>2, <1>9 DEF InTurn, CursorIsLast, OneSession
    <2> HIDE DEF Consecutive
    <2>9. (session'.id # 0 /\ applied' = << >>) => cursor' = 0
      BY <1>1, <2>1, <2>4, <2>7, <2>8 DEF GoesOnTo
    <2>10. (session'.id # 0 /\ applied' # << >>) => applied'[1] = 1
      <3>1. applied' # << >> => applied'[1] = IF applied = << >> THEN cursor + 1 ELSE applied[1]
        BY <2>7 DEF GoesOnTo
      <3>2. session' = session
        BY <1>1
      <3>3. CASE applied = << >>
        BY <2>8, <3>1, <3>2, <3>3
      <3>4. CASE applied # << >>
        BY <2>8, <3>1, <3>2, <3>4
      <3> QED BY <3>3, <3>4
    <2>11. applied' # << >> => cursor' = applied'[Len(applied')] /\ Consecutive(applied')
      BY <2>4, <2>7 DEF GoesOnTo
    <2>12. (session'.id # 0 => session'.id = effects'.id) /\ on' = 0
      BY <1>1, <1>2, <2>8
    <2> QED BY <1>3, <2>9, <2>10, <2>11, <2>12 DEF CursorIsLast, Consecutive
  <1> QED BY <1>1, <1>2, <1>4, <1>6, <1>7, <1>8, <1>9, SteadyKeeps

LEMMA ServeInv ==
    ASSUME PageInv, NEW i \in Slots, Serve(i)
    PROVE  PageInv'
  <1>1. /\ WellTyped' /\ SameSessions(sess, sess')
        /\ UNCHANGED <<session, mode, wss, page, cursor, effects, on, poll, saved, applied, origin, raced>>
        /\ \E got : calls' = [calls EXCEPT ![i].stage = "answered", ![i].got = got]
        /\ calls[i].via \in Sessions
        /\ \A k \in Sessions : /\ sess'[k].up => sess[k].up \/ (calls[i].op = "auth" /\ k = calls[i].via)
                               /\ sess[k].up => sess'[k].up \/ sess[k].mode = "raw-quic"
    BY ServeStep DEF PageInv
  <1>2. Steady /\ KeepsSources
    BY <1>1 DEF Steady, Stays, SameSessions, KeepsSources
  <1>3. KeepsCalls
    <2>1. PICK got : calls' = [calls EXCEPT ![i].stage = "answered", ![i].got = got]
      BY <1>1
    <2>2. \A j \in Slots : /\ calls'[j].op = calls[j].op /\ calls'[j].mode = calls[j].mode
                           /\ calls'[j].via = calls[j].via
      <3>1. calls[i] \in {NoCall} \cup CallRecord /\ calls \in [Slots -> {NoCall} \cup CallRecord]
        BY DEF PageInv, WellTyped, CallsTyped
      <3>2. calls' = [calls EXCEPT ![i] = [calls[i] EXCEPT !.stage = "answered", !.got = got]]
        BY <2>1, <3>1
      <3>3. LET r == [calls[i] EXCEPT !.stage = "answered", !.got = got]
            IN  r.op = calls[i].op /\ r.mode = calls[i].mode /\ r.via = calls[i].via
        BY <3>1 DEF NoCall, CallRecord
      <3> QED BY <3>1, <3>2, <3>3
    <2> QED BY <2>2 DEF KeepsCalls
  <1>4. wss # 0 => wss \in Sessions /\ sess[wss].mode = "wss"
    BY SessionInUse DEF PageInv, OneSubscription
  <1>5. (wss # 0 /\ ~sess'[wss].up) => ~sess[wss].up
    BY <1>1, <1>4
  <1>6. Subscription'
    BY <1>1, <1>2, <1>5, SubscriptionStays DEF PageInv
  <1>7. (~raced /\ on # 0 /\ sess'[on].up) => sess[on].up
    <2>1. on # 0 => on \in Sessions /\ effects.id # 0
      BY SessionInUse DEF PageInv, OneSubscription
    <2>2. (~raced /\ calls[i].op = "auth") => effects.id = 0
      BY DEF PageInv, InTurn, OneSession, Arrivals
    <2> QED BY <1>1, <2>1, <2>2
  <1>8. (~raced /\ InTurn) => CursorIsLast'
    <2>1. (on # 0 /\ sess'[on].up) => sess'[on].received = sess[on].received
      BY <1>1, SessionInUse DEF PageInv, SameSessions
    <2> QED BY <1>1, <1>2, <1>7, <2>1, CursorStays DEF InTurn
  <1> QED BY <1>1, <1>2, <1>3, <1>6, <1>7, <1>8, SteadyKeeps

LEMMA OtherInv ==
    ASSUME PageInv, NEW g \in Talking, OtherSends(g) \/ OtherTypes(g)
    PROVE  PageInv'
  <1>1. /\ WellTyped' /\ SameSessions(sess, sess') /\ calls' = calls
        /\ \A k \in Sessions : sess'[k].up = sess[k].up
        /\ UNCHANGED <<session, mode, wss, page, cursor, effects, on, poll, saved, applied, origin, raced>>
    BY OtherStep DEF PageInv
  <1>2. Steady /\ KeepsSources
    BY <1>1 DEF Steady, Stays, SameSessions, KeepsSources
  <1>3. KeepsCalls
    BY <1>1 DEF KeepsCalls
  <1>4. /\ wss # 0 => wss \in Sessions
        /\ on # 0 => on \in Sessions
    BY SessionInUse DEF PageInv
  <1>5. Subscription'
    BY <1>1, <1>2, <1>4, SubscriptionStays DEF PageInv
  <1>6. (on # 0 /\ sess'[on].up) => sess[on].up /\ sess'[on].received = sess[on].received
    BY <1>1, <1>4 DEF SameSessions
  <1>7. (~raced /\ InTurn) => CursorIsLast'
    BY <1>1, <1>2, <1>6, CursorStays DEF InTurn
  <1> QED BY <1>1, <1>2, <1>3, <1>5, <1>6, <1>7, SteadyKeeps

(***************************************************************************)
(* The steps that change the session, the transport or the effects.        *)
(***************************************************************************)
LEMMA SettledMeans ==
    ASSUME Settled
    PROVE  effects.id = session.id /\ effects.mode = mode /\ effects.active = page.active
  BY DEF Settled, Deps

LEMMA NoneIsNoCall ==
    NoCall.op = "none" /\ "none" \notin Op /\ "none" \notin Arrivals
  BY DEF NoCall, Op, Arrivals

LEMMA CallInUse ==
    ASSUME WellTyped, NEW i \in Slots, calls[i].op # "none"
    PROVE  calls[i].via \in Sessions /\ sess[calls[i].via].user # "nobody" /\ calls[i].via # 0
  BY Constants DEF WellTyped, CallsTyped, CallTyped, CallRecord

(* without a session, nothing over WSS is due or shown *)
LEMMA NothingOverWss ==
    ASSUME InTurn, session.id = 0 \/ mode # "wss"
    PROVE  /\ \A i \in Slots : calls[i].op \notin Arrivals \cup {"none"} => calls[i].mode # "wss"
           /\ \A k \in Sources(origin) : sess[k].mode # "wss"
  BY DEF InTurn, WssCallsAreCurrent, WssSourcesAreCurrent

LEMMA setTransportModeInv ==
    ASSUME PageInv, NEW m \in Modes, setTransportMode(m)
    PROVE  PageInv'
  <1>1. WellTyped' /\ calls' = calls /\ sess' = sess
    BY setTransportModeStep DEF PageInv
  <1>2. /\ UNCHANGED <<session, wss, page, cursor, effects, on, poll, saved, applied, origin, raced>>
        /\ session.id = 0
    BY DEF setTransportMode, backend, history, SignedIn
  <1>3. effects.id = 0
    BY <1>2, SettledMeans DEF setTransportMode
  <1>4. ~effects.once /\ ~effects.up /\ on = 0 /\ poll.state = "none"
    BY <1>3 DEF PageInv, OneSubscription
  <1>5. SessionsKnown'
    BY <1>1, <1>2 DEF PageInv, SessionsKnown
  <1>6. OneSubscription'
    BY <1>1, <1>2, <1>3, <1>4 DEF PageInv, OneSubscription
  <1>7. Subscription'
    BY <1>2, <1>3 DEF Subscription
  <1>8. ASSUME ~raced' PROVE InTurn'
    <2>1. InTurn
      BY <1>2, <1>8 DEF PageInv
    <2>2. OneSession'
      BY <1>1, <1>2, <1>3, <2>1 DEF InTurn, OneSession
    <2>3. WssCallsAreCurrent' /\ WssSourcesAreCurrent'
      BY <1>1, <1>2, <2>1, NothingOverWss DEF WssCallsAreCurrent, WssSourcesAreCurrent
    <2>4. CursorIsLast'
      BY <1>1, <1>2, <1>4, <2>1 DEF InTurn, CursorIsLast
    <2> QED BY <2>2, <2>3, <2>4 DEF InTurn
  <1> QED BY <1>1, <1>5, <1>6, <1>7, <1>8 DEF PageInv

(* A login begins: the page is signed out, and if no other is in flight    *)
(* this one is alone.                                                      *)
LEMMA authenticateInv ==
    ASSUME PageInv, NEW u \in Users, authenticate(u)
    PROVE  PageInv'
  <1> DEFINE k == NextSession
             r == Request("auth", mode, k, 0)
             failing == IF mode = "wss" THEN PendingOn(wss) ELSE {}
             kept == Without(failing)
  <1>1. /\ WellTyped' /\ Stays(sess, sess')
        /\ k \in Sessions /\ sess[k].user = "nobody"
        /\ sess'[k].user # "nobody"
    <2>1. /\ WellTyped' /\ Stays(sess, sess')
          /\ k \in Sessions /\ sess[k].user = "nobody" /\ sess'[k] = NewSession(u, mode)
      BY authenticateStep DEF PageInv
    <2>2. NewSession(u, mode).user = u /\ u # "nobody"
      BY Constants DEF NewSession
    <2> QED BY <2>1, <2>2
  <1>2. /\ UNCHANGED <<session, mode, wss, cursor, effects, on, poll, saved, applied, origin>>
        /\ session.id = 0
        /\ raced' = (raced \/ \E i \in Slots : calls[i].op \in {"auth", "restore", "logout"})
    BY DEF authenticate, SignedIn
  <1>3. effects.id = 0
    BY <1>2, SettledMeans DEF authenticate, Click
  <1>4. ~effects.once /\ ~effects.up /\ on = 0 /\ poll.state = "none"
    BY <1>3 DEF PageInv, OneSubscription
  <1>5. PICK j \in Slots : calls' = [kept EXCEPT ![j] = r]
    <2>1. calls' = Placed(kept, r)
      BY DEF authenticate, NextSession
    <2>2. \E i \in Slots : kept[i].op = "none"
      BY DEF authenticate, Free, Without, NoCall
    <2> HIDE DEF kept, r
    <2> QED BY <2>1, <2>2, PlacedInFreeSlot
  <1>6. r.op = "auth" /\ r.via = k
    BY DEF Request
  <1>7. /\ calls'[j].op = "auth" /\ calls'[j].via = k
        /\ \A i \in Slots \ {j} : calls'[i] \in {calls[i], NoCall}
    <2>1. \A i \in Slots : kept[i] \in {calls[i], NoCall} /\ DOMAIN kept = Slots
      BY DEF Without
    <2> HIDE DEF kept, r
    <2> QED BY <1>5, <1>6, <2>1
  <1> HIDE DEF k
  <1>8. SessionsKnown'
    <2>1. \A n \in {session.id, wss, on, effects.id, poll.id, saved.id} \ {0} :
             n \in Sessions /\ sess[n].user # "nobody" /\ sess'[n].user # "nobody"
      BY <1>1, SessionInUse DEF PageInv, Stays
    <2>2. \A n \in Sources(origin) : sess'[n].user # "nobody"
      BY <1>1, SourcesAreSessions DEF PageInv, SessionsKnown, Stays
    <2>3. k \notin {session.id, effects.id, wss}
      <3>1. k # 0
        BY <1>1, Constants
      <3> QED BY <1>1, <2>1, <3>1
    <2>4. \A i \in Slots \ {j} : calls'[i].op \in Arrivals =>
             /\ calls'[i] = calls[i]
             /\ calls[i].via # k
      BY <1>1, <1>7, CallInUse, NoneIsNoCall DEF PageInv
    <2>5. \A i \in Slots : calls'[i].op \in Arrivals =>
             /\ calls'[i].via \notin {session.id, effects.id, wss}
             /\ \A n \in Slots \ {i} : calls'[n].op \in Arrivals => calls'[n].via # calls'[i].via
      BY <1>7, <2>3, <2>4 DEF PageInv, SessionsKnown
    <2> QED BY <1>2, <2>1, <2>2, <2>5 DEF SessionsKnown
  <1>9. OneSubscription'
    BY <1>1, <1>2, <1>3, <1>4, SessionInUse DEF PageInv, OneSubscription, Stays
  <1>10. Subscription'
    BY <1>2, <1>3 DEF Subscription
  <1>11. ASSUME ~raced' PROVE InTurn'
    <2>1. /\ ~raced
          /\ \A i \in Slots : calls[i].op \notin {"auth", "restore", "logout"}
      BY <1>2, <1>11
    <2>2. InTurn
      BY <2>1 DEF PageInv
    <2>3. \A i \in Slots \ {j} : calls'[i].op \notin Arrivals \cup {"logout"}
      BY <1>7, <2>1, NoneIsNoCall DEF Arrivals
    <2>4. OneSession'
      BY <1>2, <1>3, <1>7, <2>3 DEF OneSession, Arrivals
    <2>5. WssCallsAreCurrent'
      BY <1>2, <1>7, <2>2, NothingOverWss, NoneIsNoCall DEF WssCallsAreCurrent, Arrivals
    <2>6. WssSourcesAreCurrent'
      <3>1. \A n \in Sources(origin) : sess'[n].mode = sess[n].mode
        BY <1>1, SourcesAreSessions DEF PageInv, SessionsKnown, Stays
      <3> QED BY <1>2, <2>2, <3>1, NothingOverWss DEF WssSourcesAreCurrent
    <2>7. CursorIsLast'
      BY <1>2, <1>4, <2>2 DEF InTurn, CursorIsLast
    <2> QED BY <2>4, <2>5, <2>6, <2>7 DEF InTurn
  <1> QED BY <1>1, <1>8, <1>9, <1>10, <1>11 DEF PageInv

(* Logout over WSS ends the subscription with the session: what waits on   *)
(* it is rejected and what it brought is cleared.                          *)
LEMMA logoutWssInv ==
    ASSUME PageInv, WellTyped', Stays(sess, sess'), Click, SignedIn, mode = "wss",
           closeWss, SignedOut,
           \A k \in Sessions : sess'[k] = IF k = wss THEN Ended(k) ELSE sess[k],
           UNCHANGED <<mode, cursor, effects, on, poll, raced>>
    PROVE  PageInv'
  <1>1. effects.id = session.id /\ effects.mode = "wss" /\ session.id # 0
    BY SettledMeans DEF Click, SignedIn
  <1>2. on = wss /\ poll.state = "none"
    BY <1>1 DEF PageInv, Subscription, OneSubscription
  <1>3. /\ wss' = 0 /\ session'.id = 0 /\ saved'.id = 0 /\ applied' = << >>
        /\ Sources(origin') = {}
    BY NoDataTyped DEF closeWss, SignedOut
  <1>4. \A i \in Slots : /\ calls'[i] \in {calls[i], NoCall}
                         /\ i \in PendingOn(wss) => calls'[i] = NoCall
    BY DEF closeWss, Without
  <1>5. \A n \in {wss, on, effects.id, poll.id} \ {0} : n \in Sessions /\ sess'[n].user # "nobody"
    BY SessionInUse DEF PageInv, Stays
  <1>6. SessionsKnown'
    <2>1. \A i \in Slots : calls'[i].op \in Arrivals =>
             /\ calls'[i].via \notin {session'.id, effects'.id, wss'}
             /\ \A j \in Slots \ {i} : calls'[j].op \in Arrivals => calls'[j].via # calls'[i].via
      <3>1. \A i \in Slots : calls'[i].op \in Arrivals => calls'[i] = calls[i] /\ calls[i].via # 0
        BY <1>4, CallInUse, NoneIsNoCall DEF PageInv
      <3> QED BY <1>3, <3>1 DEF PageInv, SessionsKnown
    <2> QED BY <1>3, <1>5, <2>1 DEF SessionsKnown
  <1>7. OneSubscription'
    BY <1>3 DEF PageInv, OneSubscription
  <1>8. Subscription'
    BY <1>1, <1>3 DEF Subscription
  <1>9. on # 0 => ~sess'[on].up
    BY <1>2, <1>5, EndedTyped DEF PageInv, WellTyped, BackendTyped
  <1>10. ASSUME ~raced' PROVE InTurn'
    <2>1. InTurn
      BY <1>10 DEF PageInv
    <2>2. \A i \in Slots : calls'[i].op \notin Arrivals
      BY <1>1, <1>4, <2>1, NoneIsNoCall DEF InTurn, OneSession
    <2>3. OneSession'
      BY <1>3, <1>9, <2>2 DEF OneSession
    <2>4. WssCallsAreCurrent'
      BY <1>4, <2>1, NoneIsNoCall DEF InTurn, WssCallsAreCurrent, PendingOn
    <2>5. WssSourcesAreCurrent'
      BY <1>3 DEF WssSourcesAreCurrent
    <2>6. CursorIsLast'
      BY <1>2, <1>3, <1>9 DEF CursorIsLast
    <2> QED BY <2>3, <2>4, <2>5, <2>6 DEF InTurn
  <1> QED BY <1>6, <1>7, <1>8, <1>10 DEF PageInv

LEMMA logoutInv ==
    ASSUME PageInv, logout
    PROVE  PageInv'
  <1>1. /\ WellTyped' /\ Stays(sess, sess')
        /\ \/ /\ mode = "wss" /\ closeWss /\ SignedOut
              /\ \A k \in Sessions : sess'[k] = IF k = wss THEN Ended(k) ELSE sess[k]
           \/ /\ mode = "raw-quic"
              /\ Follows(calls', calls, {Request("logout", mode, session.id, 0)})
              /\ UNCHANGED <<session, wss, page, saved, sess, origin, applied>>
    BY logoutStep DEF PageInv
  <1>2. Click /\ SignedIn /\ UNCHANGED <<mode, cursor, effects, on, poll, raced>>
    BY DEF logout
  <1> QED BY <1>1, <1>2, logoutWssInv, logoutQuicInv

(* A reload leaves nothing but the request for the saved session. *)
LEMMA reloadInv ==
    ASSUME PageInv, reload
    PROVE  PageInv'
  <1>1. /\ WellTyped' /\ Stays(sess, sess')
        /\ \A i \in Slots : calls'[i] # NoCall =>
             /\ saved.id # 0 /\ calls'[i] = Request("restore", "raw-quic", saved.id, 0)
             /\ \A j \in Slots \ {i} : calls'[j] = NoCall
    BY reloadStep DEF PageInv
  <1>2. /\ session'.id = 0 /\ wss' = 0 /\ cursor' = 0 /\ on' = 0
        /\ poll'.id = 0 /\ poll'.state = "none" /\ saved' = saved
        /\ applied' = << >> /\ Sources(origin') = {}
    BY NoDataTyped DEF reload
  <1>3. effects'.id = 0 /\ ~effects'.up /\ ~effects'.once
    BY DEF reload, NoDeps
  <1>4. \A i \in Slots : calls'[i].op # "none" =>
             /\ calls'[i].op = "restore" /\ calls'[i].via # 0
             /\ \A j \in Slots \ {i} : calls'[j].op = "none"
    BY <1>1, NoneIsNoCall DEF Request
  <1>5. SessionsKnown'
    <2>1. saved.id # 0 => sess'[saved.id].user # "nobody"
      BY <1>1, SessionInUse DEF PageInv, Stays
    <2> QED BY <1>2, <1>3, <1>4, <2>1, NoneIsNoCall DEF SessionsKnown
  <1>6. OneSubscription' /\ Subscription'
    BY <1>2, <1>3 DEF OneSubscription, Subscription
  <1>7. OneSession'
    BY <1>2, <1>3, <1>4, NoneIsNoCall DEF OneSession
  <1>8. WssCallsAreCurrent' /\ WssSourcesAreCurrent'
    BY <1>2, <1>4 DEF WssCallsAreCurrent, WssSourcesAreCurrent, Arrivals
  <1>9. CursorIsLast'
    BY <1>2 DEF CursorIsLast
  <1> QED BY <1>1, <1>5, <1>6, <1>7, <1>8, <1>9 DEF PageInv, InTurn

(* The effects move the subscription, and the cursor stays the last event  *)
(* of it: either the session is the one they had, or nothing was applied.  *)
LEMMA FlushEffectsInv ==
    ASSUME PageInv, FlushEffects
    PROVE  PageInv'
  <1>1. /\ WellTyped' /\ sess' = sess
        /\ \E R : /\ Follows(calls', calls, R)
                  /\ \A r \in R : IsCommand(r, mode) /\ Reaches(mode, session.id)
    BY FlushEffectsStep DEF PageInv
  <1>2. UNCHANGED <<session, mode, wss, cursor, saved, applied, origin, raced>>
    BY DEF FlushEffects, history
  <1>3. /\ effects'.id = session.id /\ effects'.mode = mode
        /\ effects'.up = (session.id # 0 /\ mode = "wss" /\ wss # 0 /\ sess[wss].up)
        /\ effects'.once = (effects'.up \/ (effects.once /\ effects.id = session.id))
    BY DEF FlushEffects, Deps
  <1>4. on' = IF session.id # 0 /\ mode = "wss" THEN wss ELSE 0
    BY DEF FlushEffects, Subscribed, Deps
  <1>5. poll' = IF session.id # 0 /\ mode = "raw-quic"
                THEN [state |-> "sent", id |-> session.id, after |-> cursor] ELSE NoPoll
    BY DEF FlushEffects, Deps
  <1>6. /\ poll'.state # "none" => session.id # 0 /\ mode = "raw-quic" /\ poll'.id = session.id
        /\ poll'.state = "sent" => poll'.after = cursor
        /\ poll'.id \in {0, session.id}
    BY <1>5, NoDataTyped
  <1>7. \A i \in Slots : \/ calls'[i] = calls[i]
                         \/ calls'[i].op = "none"
                         \/ IsCommand(calls'[i], mode) /\ session.id # 0
    BY <1>1, NoneIsNoCall DEF Follows, Reaches
  <1>8. \A i \in Slots : calls'[i].op \in Arrivals \cup {"logout"} => calls'[i] = calls[i]
    BY <1>7, NoneIsNoCall DEF IsCommand, Arrivals
  <1>9. SessionsKnown'
    <2>1. \A n \in {session'.id, wss', on', effects'.id, poll'.id, saved'.id} \ {0} :
             sess'[n].user # "nobody"
      BY <1>1, <1>2, <1>3, <1>4, <1>6 DEF PageInv, SessionsKnown
    <2>2. \A i \in Slots : calls'[i].op \in Arrivals =>
             /\ calls'[i].via \notin {session'.id, effects'.id, wss'}
             /\ \A j \in Slots \ {i} : calls'[j].op \in Arrivals => calls'[j].via # calls'[i].via
      BY <1>2, <1>3, <1>8 DEF PageInv, SessionsKnown
    <2>3. \A n \in Sources(origin') : sess'[n].user # "nobody"
      BY <1>1, <1>2 DEF PageInv, SessionsKnown
    <2> QED BY <2>1, <2>2, <2>3 DEF SessionsKnown
  <1>13. effects.once => effects.id # 0 /\ effects.mode = "wss" /\ mode = "wss"
    BY DEF PageInv, OneSubscription
  <1>14. (effects.once /\ effects.id = session.id) =>
            wss # 0 /\ (~sess[wss].up => ~session.connected)
    BY <1>13 DEF PageInv, Subscription
  <1>10. OneSubscription'
    BY <1>1, <1>2, <1>3, <1>4, <1>6, <1>13 DEF PageInv, OneSubscription
  <1>11. Subscription'
    BY <1>1, <1>2, <1>3, <1>4, <1>14 DEF Subscription
  <1>12. ASSUME ~raced' PROVE InTurn'
    <2>1. InTurn
      BY <1>2, <1>12 DEF PageInv
    <2>2. OneSession'
      <3>1. \A i \in Slots : calls'[i].op \in Arrivals =>
               /\ session.id = 0
               /\ \A j \in Slots \ {i} : calls'[j].op \notin Arrivals \cup {"logout"}
               /\ calls'[i].op = "restore" => cursor = 0
        BY <1>8, <2>1 DEF InTurn, OneSession
      <3>2. \A i \in Slots : calls'[i].op = "logout" => session.id = 0 \/ mode = "raw-quic"
        BY <1>8, <2>1 DEF InTurn, OneSession
      <3> QED BY <1>2, <1>3, <3>1, <3>2 DEF OneSession
    <2>3. WssCallsAreCurrent'
      BY <1>2, <1>7, <2>1 DEF InTurn, WssCallsAreCurrent, IsCommand
    <2>4. WssSourcesAreCurrent'
      BY <1>1, <1>2, <2>1 DEF InTurn, WssSourcesAreCurrent
    <2>5. (on' # 0 /\ sess'[on'].up) =>
             /\ cursor <= sess[on'].received
             /\ applied # << >> => cursor = sess[on'].received
      <3>1. SUFFICES ASSUME on' # 0, sess[on'].up
                     PROVE  /\ cursor <= sess[on'].received
                            /\ applied # << >> => cursor = sess[on'].received
        BY <1>1
      <3>2. on' = wss /\ session.id # 0 /\ mode = "wss" /\ wss \in Sessions
        BY <1>4, <3>1, SessionInUse DEF PageInv
      <3>3. CASE effects.id = session.id
        <4>1. on = wss
          BY <3>2, <3>3 DEF PageInv, OneSubscription, Subscription
        <4> QED BY <2>1, <3>1, <3>2, <4>1 DEF InTurn, CursorIsLast
      <3>4. CASE effects.id # session.id
        <4>1. applied = << >> /\ cursor = 0
          BY <2>1, <3>2, <3>4 DEF InTurn, CursorIsLast
        <4>2. sess[on'].received \in Nat
          BY <3>2 DEF PageInv, WellTyped, BackendTyped, SessTyped, SessionRecord
        <4> QED BY <4>1, <4>2
      <3> QED BY <3>3, <3>4
    <2>6. CursorIsLast'
      BY <1>1, <1>2, <1>3, <1>6, <2>1, <2>5 DEF InTurn, CursorIsLast
    <2> QED BY <2>2, <2>3, <2>4, <2>6 DEF InTurn
  <1> QED BY <1>1, <1>9, <1>10, <1>11, <1>12 DEF PageInv

(* A login or a restore is answered: its session is new to the page. *)
LEMMA SessionBegins ==
    ASSUME PageInv, WellTyped', NEW i \in Slots, calls[i].op \in Arrivals, Done(i), sess' = sess,
           UNCHANGED <<mode, effects, on, poll, raced, origin>>,
           session'.id = calls[i].via, applied' = << >>,
           saved'.id \in {saved.id, calls[i].via},
           wss' = wss \/ (wss' = calls[i].via /\ sess[calls[i].via].mode = "wss"),
           cursor' = 0 \/ (calls[i].op = "restore" /\ cursor' = cursor)
    PROVE  PageInv'
  <1> DEFINE k == calls[i].via
  <1>1. k \in Sessions /\ sess[k].user # "nobody" /\ k # 0
    BY CallInUse, NoneIsNoCall DEF PageInv
  <1>2. k \notin {session.id, effects.id, wss}
    BY DEF PageInv, SessionsKnown
  <1>3. calls'[i] = NoCall /\ \A j \in Slots \ {i} : calls'[j] = calls[j]
    BY DEF Done, Without
  <1>4. calls'[i].op \notin Arrivals \cup {"logout"}
    BY <1>3, NoneIsNoCall DEF NoCall
  <1>5. SessionsKnown'
    <2>1. \A j \in Slots : calls'[j].op \in Arrivals =>
             /\ j # i /\ calls[j].op \in Arrivals /\ calls'[j].via = calls[j].via
             /\ calls[j].via # k
      BY <1>3, <1>4 DEF PageInv, SessionsKnown
    <2>2. \A j \in Slots : calls'[j].op \in Arrivals =>
             /\ calls'[j].via \notin {session'.id, effects'.id, wss'}
             /\ \A n \in Slots \ {j} : calls'[n].op \in Arrivals => calls'[n].via # calls'[j].via
      BY <2>1 DEF PageInv, SessionsKnown
    <2>3. \A n \in {session'.id, wss', on', effects'.id, poll'.id, saved'.id} \ {0} :
             sess'[n].user # "nobody"
      BY <1>1 DEF PageInv, SessionsKnown
    <2>4. \A n \in Sources(origin') : sess'[n].user # "nobody"
      BY DEF PageInv, SessionsKnown
    <2> QED BY <2>2, <2>3, <2>4 DEF SessionsKnown
  <1>6. OneSubscription'
    BY DEF PageInv, OneSubscription
  <1>7. Subscription'
    BY <1>2 DEF Subscription
  <1>8. ASSUME ~raced' PROVE InTurn'
    <2>1. InTurn
      BY <1>8 DEF PageInv
    <2>2. /\ session.id = 0 /\ effects.id = 0 /\ cursor' = 0
          /\ \A j \in Slots \ {i} : calls[j].op \notin Arrivals \cup {"logout"}
      BY <2>1 DEF InTurn, OneSession
    <2>3. on = 0 /\ poll.state = "none"
      BY <2>2 DEF PageInv, OneSubscription
    <2>4. \A j \in Slots : calls'[j].op \notin Arrivals \cup {"logout"}
      BY <1>3, <1>4, <2>2
    <2>5. OneSession'
      BY <2>2, <2>4 DEF OneSession
    <2>6. WssCallsAreCurrent'
      BY <1>3, <2>1, <2>2, NothingOverWss, NoneIsNoCall DEF WssCallsAreCurrent
    <2>7. WssSourcesAreCurrent'
      BY <2>1, <2>2, NothingOverWss DEF WssSourcesAreCurrent
    <2>8. CursorIsLast'
      BY <2>2, <2>3 DEF CursorIsLast
    <2> QED BY <2>5, <2>6, <2>7, <2>8 DEF InTurn
  <1> QED BY <1>5, <1>6, <1>7, <1>8 DEF PageInv

(* A logout over Raw QUIC is answered or fails: unless it ends a later     *)
(* session, that of a login that raced with it, nothing is left over WSS.  *)
LEMMA SessionEnds ==
    ASSUME PageInv, WellTyped', NEW i \in Slots, calls[i].op = "logout", loggedOut, sess' = sess,
           Follows(calls', calls, {}), UNCHANGED <<effects, on, poll, raced>>
    PROVE  PageInv'
  <1>1. /\ session'.id = 0 /\ saved'.id = 0 /\ applied' = << >> /\ Sources(origin') = {}
        /\ UNCHANGED <<mode, wss, cursor>>
    BY NoDataTyped DEF loggedOut, SignedOut
  <1>2. \A j \in Slots : calls'[j] = calls[j] \/ calls'[j].op = "none"
    BY NoneIsNoCall DEF Follows
  <1>3. SessionsKnown'
    <2>1. \A j \in Slots : calls'[j].op \in Arrivals => calls'[j] = calls[j] /\ calls[j].via # 0
      BY <1>2, CallInUse, NoneIsNoCall DEF PageInv
    <2> QED BY <1>1, <2>1 DEF PageInv, SessionsKnown
  <1>4. OneSubscription'
    BY <1>1 DEF PageInv, OneSubscription
  <1>5. Subscription'
    BY <1>1 DEF Subscription
  <1>6. ASSUME ~raced' PROVE InTurn'
    <2>1. InTurn
      BY <1>6 DEF PageInv
    <2>2. session.id = 0 \/ mode = "raw-quic"
      BY <2>1 DEF InTurn, OneSession
    <2>3. \A j \in Slots : calls'[j].op \notin Arrivals
      BY <1>2, <2>1, NoneIsNoCall DEF InTurn, OneSession, Arrivals
    <2>4. OneSession'
      <3>1. (effects.id # 0 /\ effects.mode = "wss") => wss = 0 /\ (on # 0 => ~sess[on].up)
        BY <2>1, <2>2 DEF PageInv, OneSubscription, InTurn, OneSession
      <3> QED BY <1>1, <2>3, <3>1 DEF OneSession
    <2>5. WssCallsAreCurrent'
      BY <1>2, <2>1, <2>2, NothingOverWss DEF WssCallsAreCurrent
    <2>6. WssSourcesAreCurrent'
      BY <1>1 DEF WssSourcesAreCurrent
    <2>7. CursorIsLast'
      BY <1>1, <2>1 DEF InTurn, CursorIsLast
    <2> QED BY <2>4, <2>5, <2>6, <2>7 DEF InTurn
  <1> QED BY <1>3, <1>4, <1>5, <1>6 DEF PageInv

LEMMA ArriveInv ==
    ASSUME PageInv, NEW i \in Slots, Arrive(i)
    PROVE  PageInv'
  <1> DEFINE c == calls[i]
  <1>1. CASE c.op \notin {"auth", "restore", "logout"}
    BY <1>1, ArriveShowsInv
  <1>2. ASSUME c.op \in {"auth", "restore", "logout"}
        PROVE  /\ WellTyped' /\ sess' = sess
               /\ UNCHANGED <<mode, effects, on, poll, raced>>
               /\ Done(i) /\ Follows(calls', calls, {})
               /\ sess[c.via].mode = c.mode
               /\ \/ c.op = "auth" /\ authenticated(c)
                  \/ c.op = "restore" /\ restored(c)
                  \/ c.op = "logout" /\ loggedOut
    BY <1>2, ArriveSession DEF PageInv
  <1>3. CASE c.op = "auth" /\ authenticated(c)
    <2>1. /\ session'.id = c.via /\ applied' = << >> /\ saved'.id = c.via /\ cursor' = 0
          /\ wss' = wss \/ (wss' = c.via /\ c.mode = "wss")
          /\ origin' = origin
      BY <1>3 DEF authenticated
    <2> QED BY <1>2, <1>3, <2>1, SessionBegins DEF Arrivals
  <1>4. CASE c.op = "restore" /\ restored(c)
    <2>1. /\ session'.id = c.via /\ applied' = << >>
          /\ UNCHANGED <<wss, cursor, saved, origin>>
      BY <1>4 DEF restored
    <2> QED BY <1>2, <1>4, <2>1, SessionBegins DEF Arrivals
  <1>5. CASE c.op = "logout" /\ loggedOut
    BY <1>2, <1>5, SessionEnds
  <1> QED BY <1>1, <1>2, <1>3, <1>4, <1>5

LEMMA RejectAnyInv ==
    ASSUME PageInv, NEW i \in Slots, Reject(i)
    PROVE  PageInv'
  <1>1. /\ WellTyped' /\ Follows(calls', calls, {}) /\ UNCHANGED <<effects, on, poll, raced>>
        /\ sess' = IF calls[i].op = "auth" THEN [sess EXCEPT ![calls[i].via] = Ended(calls[i].via)]
                   ELSE sess
        /\ \/ calls[i].op = "logout" /\ loggedOut
           \/ UNCHANGED <<session, applied, origin>> /\ saved'.id \in {0, saved.id}
    BY RejectStep DEF PageInv
  <1>2. CASE calls[i].op = "logout" /\ loggedOut
    <2>1. sess' = sess
      BY <1>1, <1>2
    <2> QED BY <1>1, <1>2, <2>1, SessionEnds
  <1> QED BY <1>1, <1>2, RejectInv

(***************************************************************************)
(* The invariant, and what it says of the page.                            *)
(***************************************************************************)
LEMMA PageInvInit == Init => PageInv
  <1> SUFFICES ASSUME Init PROVE PageInv
    OBVIOUS
  <1>1. /\ session = NoSession /\ mode = "wss" /\ wss = 0 /\ page = EmptyPage /\ cursor = 0
        /\ effects = NoDeps /\ on = 0 /\ poll = NoPoll /\ typingTimers = 0
        /\ calls = [i \in Slots |-> NoCall] /\ saved = NotSaved
        /\ sess = [k \in Sessions |-> NewSession("nobody", "wss")]
        /\ member = Joined /\ stored = << >>
        /\ applied = << >> /\ origin = NoOrigin /\ raced = FALSE /\ lost = FALSE
    BY DEF Init
  <1>2. NoDeps \in [id : 0 .. MaxSessions, mode : Modes, active : Groups \cup {0},
                    up : BOOLEAN, once : BOOLEAN]
        /\ NoDeps.id = 0 /\ ~NoDeps.up /\ ~NoDeps.once
    BY Constants DEF NoDeps
  <1>3. PageTyped
    <2>1. << >> \in Seq(Nat) /\ 0 \in Nat /\ 0 \in 0 .. MaxSessions /\ "wss" \in Modes
      BY Constants
    <2> QED BY <1>1, <1>2, <2>1, NoDataTyped DEF PageTyped, TypeOK, Page
  <1>4. BackendTyped
    <2>1. << >> \in Seq(Event) /\ << >> \in Seq(Groups) /\ Len(<< >>) = 0 /\ 0 <= MaxEvents
      BY Constants
    <2>2. NewSession("nobody", "wss") \in SessionRecord /\ ~NewSession("nobody", "wss").up
      BY <2>1, Constants DEF NewSession, SessionRecord
    <2>3. SessTyped
      BY <1>1, <2>2 DEF SessTyped
    <2> QED BY <1>1, <2>1, <2>3, Constants DEF BackendTyped
  <1>5. CallsTyped
    BY <1>1, NoneIsNoCall DEF CallsTyped
  <1>6. \A i \in Slots : calls[i].op = "none"
    BY <1>1, NoneIsNoCall
  <1>7. /\ session.id = 0 /\ poll.id = 0 /\ poll.state = "none" /\ saved.id = 0
        /\ Sources(origin) = {}
    BY <1>1, NoDataTyped
  <1>8. SessionsKnown
    BY <1>1, <1>2, <1>6, <1>7, NoneIsNoCall DEF SessionsKnown
  <1>9. OneSubscription /\ Subscription
    BY <1>1, <1>2, <1>7 DEF OneSubscription, Subscription
  <1>10. OneSession /\ WssCallsAreCurrent /\ WssSourcesAreCurrent
    BY <1>1, <1>2, <1>6, <1>7, NoneIsNoCall DEF OneSession, WssCallsAreCurrent, WssSourcesAreCurrent
  <1>11. CursorIsLast
    BY <1>1, <1>7 DEF CursorIsLast
  <1> QED BY <1>3, <1>4, <1>5, <1>8, <1>9, <1>10, <1>11 DEF PageInv, WellTyped, InTurn

(* what the signed-in user asks for *)
LEMMA AskedInv ==
    ASSUME PageInv,
           \/ refreshGroups \/ createGroup \/ sendMessage
           \/ \E g \in Groups : openGroup(g) \/ joinGroup(g)
    PROVE  PageInv'
  <1>1. page.busy \in Busy /\ page.active \in Groups \cup {0} /\ page.groups \subseteq Groups
    BY DEF PageInv, WellTyped, PageTyped, TypeOK
  <1>2. {"history", "create", "join", "send"} \subseteq Busy
        /\ {"list", "open", "create", "join", "send"} \subseteq Op \ {"auth", "restore", "logout"}
    BY DEF Busy, Op
  <1>3. CASE refreshGroups
    BY <1>1, <1>2, <1>3, AskInv DEF refreshGroups
  <1>4. CASE createGroup
    BY <1>1, <1>2, <1>4, AskInv DEF createGroup
  <1>5. CASE sendMessage
    <2>1. page.active \in Groups /\ Ask("send", page.active, "send")
      BY <1>1, <1>5 DEF sendMessage
    <2> QED BY <1>2, <2>1, AskInv
  <1>6. ASSUME NEW g \in Groups, openGroup(g) PROVE PageInv'
    BY <1>2, <1>6, AskInv DEF openGroup
  <1>7. ASSUME NEW g \in Groups, joinGroup(g) PROVE PageInv'
    BY <1>2, <1>7, AskInv DEF joinGroup
  <1> QED BY <1>3, <1>4, <1>5, <1>6, <1>7

LEMMA PageInvStutters ==
    ASSUME PageInv, UNCHANGED vars
    PROVE  PageInv'
  <1>1. UNCHANGED <<session, mode, wss, page, cursor, effects, on, poll, typingTimers, calls,
                    saved, sess, member, stored, applied, origin, raced, lost>>
    BY DEF vars, backend, history
  <1>2. WellTyped'
    BY <1>1 DEF PageInv, WellTyped, PageTyped, TypeOK, BackendTyped, SessTyped, CallsTyped
  <1>3. SessionsKnown' /\ OneSubscription' /\ Subscription'
    BY <1>1 DEF PageInv, SessionsKnown, OneSubscription, Subscription
  <1>4. InTurn => InTurn'
    BY <1>1 DEF InTurn, OneSession, WssCallsAreCurrent, WssSourcesAreCurrent, CursorIsLast
  <1> QED BY <1>1, <1>2, <1>3, <1>4 DEF PageInv

LEMMA PageInvNext == PageInv /\ [Next]_vars => PageInv'
  <1> SUFFICES ASSUME PageInv, [Next]_vars PROVE PageInv'
    OBVIOUS
  <1>1. ASSUME NEW m \in Modes, setTransportMode(m) PROVE PageInv'
    BY <1>1, setTransportModeInv
  <1>2. ASSUME NEW u \in Users, authenticate(u) PROVE PageInv'
    BY <1>2, authenticateInv
  <1>3. CASE \/ refreshGroups \/ createGroup \/ sendMessage
             \/ \E g \in Groups : openGroup(g) \/ joinGroup(g)
    BY <1>3, AskedInv
  <1>4. CASE logout
    BY <1>4, logoutInv
  <1>5. CASE reload
    BY <1>5, reloadInv
  <1>6. CASE FlushEffects
    BY <1>6, FlushEffectsInv
  <1>7. CASE refreshPresence
    BY <1>7, refreshPresenceInv
  <1>8. ASSUME NEW i \in Slots, Arrive(i) PROVE PageInv'
    BY <1>8, ArriveInv
  <1>9. ASSUME NEW i \in Slots, Reject(i) PROVE PageInv'
    BY <1>9, RejectAnyInv
  <1>10. ASSUME NEW k \in Sessions, PeerClose(k) PROVE PageInv'
    BY <1>10, PeerCloseInv
  <1>11. ASSUME NEW k \in Sessions, receivePush(k) PROVE PageInv'
    BY <1>11, receivePushInv
  <1>12. CASE pollAnswered
    BY <1>12, pollAnsweredInv
  <1>13. CASE pollFailed
    BY <1>13, pollFailedInv
  <1>14. CASE pollAgain
    BY <1>14, pollAgainInv
  <1>15. CASE typingTimeout
    BY <1>15, typingTimeoutInv
  <1>16. ASSUME NEW i \in Slots, Serve(i) PROVE PageInv'
    BY <1>16, ServeInv
  <1>17. ASSUME NEW g \in Talking, OtherSends(g) \/ OtherTypes(g) PROVE PageInv'
    BY <1>17, OtherInv
  <1>19. ASSUME NEW i \in Slots, Lose(i) PROVE PageInv'
    BY <1>19, LoseInv
  <1>18. CASE UNCHANGED vars
    BY <1>18, PageInvStutters
  <1> QED BY <1>1, <1>2, <1>3, <1>4, <1>5, <1>6, <1>7, <1>8, <1>9, <1>10, <1>11, <1>12, <1>13,
             <1>14, <1>15, <1>16, <1>17, <1>18, <1>19 DEF Next

(* The invariant of the page of App.tsx: at most one subscription or long  *)
(* poll, that of the dependencies the effects last ran with; every session *)
(* the page refers to was opened by a login; and, as long as logins do not *)
(* overlap, nothing of a session outlives it and the cursor is the number  *)
(* of the last event applied, received and asked for.                      *)
THEOREM PageInvariant == Spec => []PageInv
  <1> QED BY PageInvInit, PageInvNext, PTL DEF Spec

(* The state of the page, of its requests and of what they bring back has  *)
(* its types.                                                              *)
THEOREM WebClientTyped == Spec => []TypeOK
  <1>1. PageInv => TypeOK
    BY DEF PageInv, WellTyped, PageTyped
  <1> QED BY <1>1, PageInvariant, PTL

(* Nothing fetched or pushed over an earlier WebSocket is on the page, or  *)
(* comes in late: closing it rejects what waits on it, and logout clears   *)
(* what it brought.                                                        *)
THEOREM WssDataCurrent == Spec => []WssDataIsCurrent
  <1>1. PageInv => WssDataIsCurrent
    BY DEF PageInv, InTurn, WssSourcesAreCurrent, Sources, WssDataIsCurrent
  <1> QED BY <1>1, PageInvariant, PTL

(* A WebSocket that ends while the page is subscribed to it is recorded as *)
(* ended for as long as the page has its session, and shown until the      *)
(* effects run again, also when another login, logout or reload raced with *)
(* its end.  What an effect that runs after the end shows is left out: it  *)
(* is "listening".                                                         *)
THEOREM CloseShown == Spec => []CloseIsShown
  <1>1. PageInv => CloseIsShown
    BY DEF PageInv, Subscription, OneSubscription, CloseIsShown
  <1> QED BY <1>1, PageInvariant, PTL

(* The pushes that the page applies are numbered one after the other,      *)
(* whichever way they come, and lastEventSeq is the last of them.          *)
THEOREM EventsOrdered == Spec => []EventsInOrder
  <1>1. PageInv => EventsInOrder
    BY DEF PageInv, InTurn, CursorIsLast, EventsInOrder
  <1> QED BY <1>1, PageInvariant, PTL

==============================================================================
