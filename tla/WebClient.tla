----------------------------- MODULE WebClient -------------------------------
(***************************************************************************)
(* The page of validation/web-client/src/App.tsx: one browser tab, its     *)
(* React state, the requests it has in flight and the effects that follow  *)
(* a change of state.  WssSession models the WebSocket under it.           *)
(*                                                                         *)
(* A handler or the continuation of an await runs to its end, so each is   *)
(* one action; between them anything may happen.  Effects run later than   *)
(* the state change that calls for them (FlushEffects), but before React   *)
(* handles the next click.  Wording, drafts and the text of messages are   *)
(* left out: a message is its id, and a list sorted by id is a set.        *)
(*                                                                         *)
(* External: the backend (users, groups, stored messages, pushes).         *)
(***************************************************************************)
EXTENDS Naturals, Sequences, FiniteSets, FiniteSetsExt

CONSTANTS
    Users,         \* who may log in
    Groups,        \* the group ids, positive numbers
    Joined,        \* the groups each user is a member of at the start
    Modes,         \* the transports the user may choose
    MaxSessions,   \* bound: sessions of this tab
    MaxCalls,      \* bound: requests in flight at a time
    MaxEvents,     \* bound: messages stored, and typing events
    MaxClicks      \* bound: what the user does, and ticks of the presence interval

ASSUME WebClientAssumption ==
    /\ "nobody" \notin Users
    /\ Groups \subseteq Nat \ {0}
    /\ Joined \in [Users -> SUBSET Groups]
    /\ Modes \subseteq {"wss", "raw-quic"} /\ "wss" \in Modes
    /\ {MaxSessions, MaxCalls, MaxEvents, MaxClicks} \subseteq Nat

Sessions == 1 .. MaxSessions
Slots    == 1 .. MaxCalls

VARIABLES
    session,       \* session: id 0 is null; user is sess[id].user
    mode,          \* transportMode
    wss,           \* wssSession.current, 0 is null
    page,          \* the rest of the React state
    cursor,        \* lastEventSeq.current
    effects,       \* the dependencies with which the effects last ran; history: the
                   \* WSS session was open then (up), then or at an earlier run (once)
    on,            \* the WSS session that has onPush and onClose, 0 is none
    poll,          \* the long poll of a Raw QUIC session
    typingTimers,  \* armed timers of typing indicators
    calls,         \* requests in flight
    saved,         \* sessionStorage
    sess,          \* the sessions, with the events pushed to each and, for a
                   \* WSS session, how many of them the browser has received
    member,        \* the groups of each user
    stored,        \* the group of each stored message, in the order of ids
    clicks,        \* what the user has done so far
    applied,       \* history: numbers of the events applied, for this session
    origin,        \* history: sessions that the data on the page came from
    raced,         \* history: a login began while another, a restore or a logout was in flight
    lost           \* history: an answer did not decode, and its caller waits for ever

history == <<applied, origin, raced, lost>>
backend == <<sess, member, stored>>
vars == <<session, mode, wss, page, cursor, effects, on, poll, typingTimers, calls, saved,
          backend, clicks, history>>

NoSession == [id |-> 0, connected |-> FALSE]
NoCall    == [op |-> "none", mode |-> "wss", via |-> 0, group |-> 0, stage |-> "none", got |-> {}]
NoPoll    == [state |-> "none", id |-> 0, after |-> 0]
EmptyPage == [groups |-> {}, active |-> 0, messages |-> {}, presence |-> 0, typing |-> FALSE,
              busy |-> "none", pushState |-> "idle"]
NoOrigin  == [groups |-> {}, messages |-> {}, presence |-> {}]
NewSession(u, m) == [user |-> u, mode |-> m, up |-> FALSE, events |-> <<>>, received |-> 0]
NotSaved  == [id |-> 0, mode |-> "wss"]

(* what the effects depend on *)
Deps == [id |-> session.id, mode |-> mode, active |-> page.active]
NoDeps == [id |-> 0, mode |-> "wss", active |-> 0, up |-> FALSE, once |-> FALSE]
Settled == [id |-> effects.id, mode |-> effects.mode, active |-> effects.active] = Deps

(* session k is over, and what was pushed to it with it *)
Ended(k) == NewSession(sess[k].user, sess[k].mode)

Stored(g) == {i \in DOMAIN stored : stored[i] = g}

Init ==
    /\ session = NoSession /\ mode = "wss" /\ wss = 0 /\ page = EmptyPage /\ cursor = 0
    /\ effects = NoDeps /\ on = 0 /\ poll = NoPoll /\ typingTimers = 0
    /\ calls = [i \in Slots |-> NoCall]
    /\ saved = NotSaved
    /\ sess = [k \in Sessions |-> NewSession("nobody", "wss")]
    /\ member = Joined /\ stored = <<>>
    /\ clicks = 0
    /\ applied = <<>> /\ origin = NoOrigin /\ raced = FALSE /\ lost = FALSE

(* a list sorted by id, without repetition *)
mergeMessages(current, incoming) == current \cup incoming

(***************************************************************************)
(* Requests                                                                *)
(***************************************************************************)
Free == {i \in Slots : calls[i].op = "none"}

(* cs, with one more request in flight *)
Placed(cs, r) == [cs EXCEPT ![Min({i \in Slots : cs[i].op = "none"})] = r]

Request(op, m, via, g) ==
    [op |-> op, mode |-> m, via |-> via, group |-> g, stage |-> "sent", got |-> {}]

(* command, with the transport m and the session id of the caller's        *)
(* closure: over WSS it goes to the current session, if that is open       *)
Reaches(m, id) == id # 0 /\ (m = "wss" => wss # 0 /\ sess[wss].up)
Command(op, m, id, g) == Request(op, m, IF m = "wss" THEN wss ELSE id, g)

(* the requests whose finally clears busy *)
SetsBusy == {"open", "create", "join", "joinList", "joinOpen", "send", "auth"}

(* p, when the requests in failing are rejected *)
Mut_StayBusy(p, failing) == p
AfterRejection(p, failing) ==
    [p EXCEPT !.busy = IF \E i \in failing : calls[i].op \in SetsBusy THEN "none" ELSE @]

Without(failing) == [i \in Slots |-> IF i \in failing THEN NoCall ELSE calls[i]]

(* WssImSession rejects what is pending on it when it is closed *)
PendingOn(k) == {i \in Slots : calls[i].op # "none" /\ calls[i].mode = "wss" /\ calls[i].via = k}

(***************************************************************************)
(* What the user does                                                      *)
(***************************************************************************)
Click == clicks < MaxClicks /\ Settled /\ clicks' = clicks + 1

SignedIn == session.id # 0

setTransportMode(m) ==
    /\ Settled /\ ~SignedIn /\ mode # m
    /\ mode' = m
    /\ UNCHANGED <<session, wss, page, cursor, effects, on, poll, typingTimers, calls, saved,
                   backend, clicks, history>>

(* authenticate, up to its await: a WSS session left over is closed, which *)
(* rejects what waits on it.  The new session is the next unused one       *)
authenticate(u) ==
    LET k == Min({n \in Sessions : sess[n].user = "nobody"})
        failing == IF mode = "wss" THEN PendingOn(wss) ELSE {}
    IN  /\ Click /\ ~SignedIn /\ page.busy # "auth"
        /\ \E n \in Sessions : sess[n].user = "nobody"
        /\ Free # {}
        /\ page' = AfterRejection([page EXCEPT !.busy = "auth"], failing)
        /\ sess' = [n \in Sessions |->
                      IF n = k THEN NewSession(u, mode)
                      ELSE IF mode = "wss" /\ n = wss THEN Ended(n) ELSE sess[n]]
        /\ calls' = Placed(Without(failing), Request("auth", mode, k, 0))
        /\ raced' = (raced \/ \E i \in Slots : calls[i].op \in {"auth", "restore", "logout"})
        /\ UNCHANGED <<session, mode, wss, cursor, effects, on, poll, typingTimers, saved,
                       member, stored, applied, origin, lost>>

(* a request of the signed-in page; one that command refuses at once       *)
(* leaves the page as it was                                               *)
Ask(op, g, busy) ==
    /\ Click /\ SignedIn /\ Reaches(mode, session.id) /\ Free # {}
    /\ calls' = Placed(calls, Command(op, mode, session.id, g))
    /\ page' = [page EXCEPT !.busy = busy]
    /\ UNCHANGED <<session, mode, wss, cursor, effects, on, poll, typingTimers, saved,
                   backend, history>>

refreshGroups == Ask("list", 0, page.busy)
openGroup(g) == g \in page.groups /\ Ask("open", g, "history")
createGroup == page.busy = "none" /\ Ask("create", 0, "create")
joinGroup(g) == page.busy = "none" /\ Ask("join", g, "join")
sendMessage ==
    /\ page.active \in page.groups
    /\ Ask("send", page.active, "send")

(* the page once logout is through: pushState and busy stay as they are *)
Cleared(p) == [EmptyPage EXCEPT !.busy = p.busy, !.pushState = p.pushState]

SignedOut ==
    /\ saved' = NotSaved
    /\ session' = NoSession
    /\ origin' = NoOrigin
    /\ applied' = <<>>

(* logout over WSS: the session is closed, which rejects what waits on it  *)
(* and tells onClose                                                       *)
Mut_ForgetOnly ==
    /\ wss' = 0
    /\ page' = Cleared(page)
    /\ UNCHANGED <<calls, sess>>
closeWss ==
    LET failing == PendingOn(wss)
        told    == on # 0 /\ on = wss /\ sess[wss].up
    IN  /\ wss' = 0
        /\ calls' = Without(failing)
        /\ page' = Cleared([AfterRejection(page, failing) EXCEPT
                              !.pushState = IF told THEN "retrying" ELSE @])
        /\ sess' = [k \in Sessions |-> IF k = wss THEN Ended(k) ELSE sess[k]]

logout ==
    /\ Click /\ SignedIn
    /\ \/ /\ mode = "wss"
          /\ closeWss
          /\ SignedOut
       \/ /\ mode = "raw-quic" /\ Free # {}
          /\ calls' = Placed(calls, Request("logout", mode, session.id, 0))
          /\ UNCHANGED <<session, wss, page, saved, sess, origin, applied>>
    /\ UNCHANGED <<mode, cursor, effects, on, poll, typingTimers, member, stored, raced, lost>>

(* the tab is reloaded: the page is new, its WebSocket is gone, and the    *)
(* restore effect asks for the status of a saved Raw QUIC session          *)
reload ==
    LET restore == saved.id # 0 /\ saved.mode = "raw-quic"
        empty   == [i \in Slots |-> NoCall]
    IN  /\ Click
        /\ session' = NoSession /\ wss' = 0 /\ page' = EmptyPage /\ cursor' = 0
        /\ effects' = [NoDeps EXCEPT !.mode = IF restore THEN "raw-quic" ELSE "wss"]
        /\ on' = 0 /\ poll' = NoPoll /\ typingTimers' = 0
        /\ mode' = IF restore THEN "raw-quic" ELSE "wss"
        /\ calls' = IF restore THEN Placed(empty, Request("restore", "raw-quic", saved.id, 0)) ELSE empty
        /\ sess' = [k \in Sessions |-> IF sess[k].mode = "wss" THEN Ended(k) ELSE sess[k]]
        /\ origin' = NoOrigin /\ applied' = <<>> /\ raced' = FALSE /\ lost' = FALSE
        /\ UNCHANGED <<saved, member, stored>>

(***************************************************************************)
(* Effects                                                                 *)
(***************************************************************************)
(* The cleanups of the old effects, then the new ones: the list of groups  *)
(* is read again for another session or transport; the subscription moves  *)
(* to the current session, with the active group in its closure; presence  *)
(* is read for the active group, and answers still due are ignored.        *)
Mut_CleanupLast(next) == 0
Subscribed(next) ==
    IF next.id # 0 /\ next.mode = "wss" THEN wss ELSE 0

FlushEffects ==
    LET next   == Deps
        asks   == Reaches(next.mode, next.id)
        kept   == Without({i \in Slots : calls[i].op = "presence"})
        list   == asks /\ <<next.id, next.mode>> # <<effects.id, effects.mode>>
        watch  == asks /\ next.active # 0
        listed == IF list THEN Placed(kept, Command("list", next.mode, next.id, 0)) ELSE kept
        open   == next.id # 0 /\ next.mode = "wss" /\ wss # 0 /\ sess[wss].up
    IN  /\ ~Settled
        /\ Cardinality({i \in Slots : kept[i].op = "none"}) >= IF list /\ watch THEN 2 ELSE 1
        /\ calls' = IF watch
                    THEN Placed(listed, Command("presence", next.mode, next.id, next.active))
                    ELSE listed
        /\ effects' = [id |-> next.id, mode |-> next.mode, active |-> next.active, up |-> open,
                       once |-> open \/ (effects.once /\ effects.id = next.id)]
        /\ on' = Subscribed(next)
        /\ poll' = IF next.id # 0 /\ next.mode = "raw-quic"
                   THEN [state |-> "sent", id |-> next.id, after |-> cursor] ELSE NoPoll
        /\ page' = IF next.id # 0 /\ (next.mode = "wss" => wss # 0)
                   THEN [page EXCEPT !.pushState = "listening"] ELSE page
        /\ UNCHANGED <<session, mode, wss, cursor, typingTimers, saved, backend,
                       clicks, history>>

(* the interval of the presence effect, which counts as a click *)
refreshPresence ==
    /\ clicks < MaxClicks /\ clicks' = clicks + 1
    /\ effects.active # 0 /\ Reaches(effects.mode, effects.id) /\ Free # {}
    /\ calls' = Placed(calls, Command("presence", effects.mode, effects.id, effects.active))
    /\ UNCHANGED <<session, mode, wss, page, cursor, effects, on, poll, typingTimers, saved,
                   backend, history>>

(***************************************************************************)
(* Answers                                                                 *)
(***************************************************************************)
(* the continuation of a request leaves the page as p, with data from o *)
Shows(p, o) ==
    /\ page' = p
    /\ origin' = o
    /\ UNCHANGED <<session, mode, wss, cursor, saved, applied>>

Done(i) == calls' = Without({i})

(* joinGroup goes on to its next request, unless command refuses it *)
GoesOn(i, op, busy, p, o) ==
    LET c  == calls[i]
        ok == Reaches(c.mode, c.via)
    IN  /\ calls' = [calls EXCEPT ![i] = IF ok THEN Command(op, c.mode, c.via, c.group) ELSE NoCall]
        /\ Shows([p EXCEPT !.busy = IF ok THEN busy ELSE "none"], o)

opened(c) ==
    Shows([page EXCEPT !.active = c.group, !.messages = c.got, !.presence = c.group,
                       !.typing = FALSE, !.busy = "none"],
          [origin EXCEPT !.messages = {c.via}, !.presence = {c.via}])

authenticated(c) ==
    /\ wss' = IF c.mode = "wss" THEN c.via ELSE wss
    /\ saved' = [id |-> c.via, mode |-> c.mode]
    /\ cursor' = 0
    /\ session' = [id |-> c.via, connected |-> TRUE]
    /\ page' = [page EXCEPT !.busy = "none"]
    /\ applied' = <<>>
    /\ UNCHANGED <<mode, origin>>

restored(c) ==
    /\ session' = [id |-> c.via, connected |-> TRUE]
    /\ applied' = <<>>
    /\ UNCHANGED <<mode, wss, page, cursor, saved, origin>>

loggedOut ==
    /\ page' = Cleared(page)
    /\ SignedOut
    /\ UNCHANGED <<mode, wss, cursor>>

(* the answer of request i is in, and what waits for it goes on *)
Arrive(i) ==
    LET c == calls[i]
    IN  /\ c.stage = "answered"
        /\ \/ /\ c.op = "list" /\ Done(i)
              /\ Shows([page EXCEPT !.groups = c.got], [origin EXCEPT !.groups = {c.via}])
           \/ /\ c.op = "presence" /\ Done(i)
              /\ Shows([page EXCEPT !.presence = c.group], [origin EXCEPT !.presence = {c.via}])
           \/ /\ c.op \in {"open", "joinOpen"} /\ Done(i) /\ opened(c)
           \/ /\ c.op = "create" /\ Done(i)
              /\ Shows([page EXCEPT !.groups = @ \cup c.got, !.active = Max(c.got),
                                    !.messages = {}, !.busy = "none"],
                       [origin EXCEPT !.groups = @ \cup {c.via}, !.messages = {}])
           \/ /\ c.op = "send" /\ Done(i)
              /\ Shows([page EXCEPT !.messages = mergeMessages(@, c.got), !.busy = "none"],
                       [origin EXCEPT !.messages = @ \cup {c.via}])
           \/ /\ c.op = "join" /\ GoesOn(i, "joinList", page.busy, page, origin)
           \/ /\ c.op = "joinList"
              /\ GoesOn(i, "joinOpen", "history", [page EXCEPT !.groups = c.got],
                        [origin EXCEPT !.groups = {c.via}])
           \/ /\ c.op = "auth" /\ Done(i) /\ authenticated(c)
           \/ /\ c.op = "restore" /\ Done(i) /\ restored(c)
           \/ /\ c.op = "logout" /\ Done(i) /\ loggedOut
        /\ UNCHANGED <<effects, on, poll, typingTimers, backend, clicks, raced, lost>>

(* Request i fails: refused by the backend, reset, or timed out.  A login  *)
(* closes its session, a restore forgets what was saved, a logout clears   *)
(* the page all the same; the others only clear busy.                      *)
Reject(i) ==
    LET c == calls[i]
    IN  /\ c.op # "none" /\ Done(i)
        /\ \/ /\ c.op = "logout" /\ loggedOut
           \/ /\ c.op # "logout"
              /\ page' = AfterRejection(page, {i})
              /\ saved' = IF c.op = "restore" THEN NotSaved ELSE saved
              /\ UNCHANGED <<session, mode, wss, cursor, applied, origin>>
        /\ sess' = IF c.op = "auth" THEN [sess EXCEPT ![c.via] = Ended(c.via)] ELSE sess
        /\ UNCHANGED <<effects, on, poll, typingTimers, member, stored, clicks,
                       raced, lost>>

(* The answer of request i over WSS does not decode.  Its timer is cleared *)
(* and it is no longer pending, but nothing settles it: close(1002) throws *)
(* in protocolError of WssSession, so the session stays as it is and the   *)
(* caller, with the busy it has set, waits for ever.                       *)
Lose(i) ==
    /\ calls[i].stage = "answered" /\ calls[i].mode = "wss"
    /\ Done(i)
    /\ lost' = TRUE
    /\ UNCHANGED <<session, mode, wss, page, cursor, effects, on, poll, typingTimers, saved,
                   backend, clicks, applied, origin, raced>>

(* WSS session k ends from outside *)
onClose(k) ==
    LET told == on = k
    IN  /\ page' = [AfterRejection(page, PendingOn(k)) EXCEPT
                      !.pushState = IF told THEN "retrying" ELSE @]
        /\ session' = IF told THEN [session EXCEPT !.connected = FALSE] ELSE session

PeerClose(k) ==
    /\ sess[k].mode = "wss" /\ sess[k].up
    /\ calls' = Without(PendingOn(k))
    /\ onClose(k)
    /\ sess' = [sess EXCEPT ![k] = Ended(k)]
    /\ UNCHANGED <<mode, wss, cursor, effects, on, poll, typingTimers, saved, member, stored, clicks, applied, origin, raced, lost>>

(***************************************************************************)
(* Pushes                                                                  *)
(***************************************************************************)
(* applyPush for the events of session k numbered from .. to, with the     *)
(* active group of the closure                                             *)
Mut_CursorStays(k, from, to) == cursor
NextCursor(k, from, to) == Max({cursor, to})

applyPush(k, from, to) ==
    LET heard  == {sess[k].events[n] : n \in from .. to}
        mine   == {e \in heard : e.group = effects.active}
        ids    == {e.id : e \in {x \in mine : x.type = "message"}}
        typers == {n \in from .. to : sess[k].events[n].type = "typing" /\ sess[k].events[n].group = effects.active}
    IN  /\ cursor' = NextCursor(k, from, to)
        /\ page' = [page EXCEPT !.messages = mergeMessages(@, ids), !.typing = @ \/ typers # {},
                                !.pushState = IF poll.state = "none" THEN @ ELSE "listening"]
        /\ typingTimers' = typingTimers + Cardinality(typers)
        /\ origin' = IF ids = {} THEN origin ELSE [origin EXCEPT !.messages = @ \cup {k}]
        /\ applied' = applied \o [n \in 1 .. to - from + 1 |-> from + n - 1]

(* A push comes in over WSS; it is numbered even if nobody listens.  One   *)
(* that does not decode is neither numbered nor heard, and changes nothing *)
receivePush(k) ==
    LET n == sess[k].received + 1
    IN  /\ sess[k].mode = "wss" /\ sess[k].up
        /\ n \in DOMAIN sess[k].events
        /\ sess' = [sess EXCEPT ![k].received = n]
        /\ \/ on = k /\ applyPush(k, n, n)
           \/ on # k /\ UNCHANGED <<cursor, page, typingTimers, origin, applied>>
        /\ UNCHANGED <<session, mode, wss, effects, on, poll, calls, saved, member, stored, clicks, raced, lost>>

(* the long poll is answered with the events after its cursor, up to the   *)
(* moment the agent looked, or with none, and the next poll begins         *)
pollAnswered ==
    /\ poll.state = "sent" /\ sess[poll.id].mode = "raw-quic" /\ sess[poll.id].up
    /\ \E to \in {poll.after} \cup (poll.after + 1 .. Len(sess[poll.id].events)) :
           applyPush(poll.id, poll.after + 1, to)
    /\ poll' = [poll EXCEPT !.after = cursor']
    /\ UNCHANGED <<session, mode, wss, effects, on, calls, saved, backend, clicks,
                   raced, lost>>

pollFailed ==
    /\ poll.state = "sent"
    /\ poll' = [poll EXCEPT !.state = "waiting"]
    /\ page' = [page EXCEPT !.pushState = "retrying"]
    /\ UNCHANGED <<session, mode, wss, cursor, effects, on, typingTimers, calls, saved, backend, clicks, history>>

pollAgain ==
    /\ poll.state = "waiting"
    /\ poll' = [poll EXCEPT !.state = "sent", !.after = cursor]
    /\ UNCHANGED <<session, mode, wss, page, cursor, effects, on, typingTimers, calls, saved,
                   backend, clicks, history>>

typingTimeout ==
    /\ typingTimers > 0
    /\ typingTimers' = typingTimers - 1
    /\ page' = [page EXCEPT !.typing = FALSE]
    /\ UNCHANGED <<session, mode, wss, cursor, effects, on, poll, calls, saved, backend, clicks, history>>

(***************************************************************************)
(* The backend (external)                                                  *)
(***************************************************************************)
(* event e of group g goes to every session of a member *)
Pushed(e, g) ==
    [k \in Sessions |-> IF sess[k].up /\ g \in member[sess[k].user]
                        THEN [sess[k] EXCEPT !.events = Append(@, e)] ELSE sess[k]]

Store(g) ==
    /\ Len(stored) < MaxEvents
    /\ stored' = Append(stored, g)
    /\ sess' = Pushed([type |-> "message", group |-> g, id |-> Len(stored) + 1], g)

page_ == <<session, mode, wss, page, cursor, effects, on, poll, typingTimers, saved,
           clicks, history>>

Answered(i, got) == calls' = [calls EXCEPT ![i].stage = "answered", ![i].got = got]

(* the backend carries out request i; one it refuses is rejected *)
Serve(i) ==
    LET c    == calls[i]
        user == sess[c.via].user
    IN  /\ c.stage = "sent" /\ sess[c.via].mode = c.mode
        /\ c.op # "auth" => sess[c.via].up
        /\ \/ /\ c.op \in {"list", "joinList"} /\ Answered(i, member[user])
              /\ UNCHANGED backend
           \/ /\ c.op \in {"open", "joinOpen", "presence"} /\ c.group \in member[user]
              /\ Answered(i, IF c.op = "presence" THEN {} ELSE Stored(c.group))
              /\ UNCHANGED backend
           \/ /\ c.op = "create"
              /\ \E g \in Groups :
                     /\ \A u \in Users : g \notin member[u]
                     /\ member' = [member EXCEPT ![user] = @ \cup {g}]
                     /\ Answered(i, {g})
              /\ UNCHANGED <<sess, stored>>
           \/ /\ c.op = "join" /\ Answered(i, {})
              /\ member' = [member EXCEPT ![user] = @ \cup {c.group}]
              /\ UNCHANGED <<sess, stored>>
           \/ /\ c.op = "send" /\ c.group \in member[user]
              /\ Store(c.group) /\ Answered(i, {Len(stored) + 1})
              /\ UNCHANGED member
           \/ /\ c.op \in {"auth", "logout"} /\ Answered(i, {})
              /\ sess' = [sess EXCEPT ![c.via] =
                            IF c.op = "auth" THEN [sess[c.via] EXCEPT !.up = TRUE] ELSE Ended(c.via)]
              /\ UNCHANGED <<member, stored>>
           \/ /\ c.op = "restore" /\ Answered(i, {})
              /\ UNCHANGED backend
        /\ UNCHANGED page_

(* somebody else sends a message or types, in one of the first groups *)
Talking == {g \in Groups : \E u \in Users : g \in Joined[u]}
Typed(k) == Cardinality({n \in DOMAIN sess[k].events : sess[k].events[n].type = "typing"})
MoreEvents == \A k \in Sessions : Len(stored) + Typed(k) < MaxEvents

OtherSends(g) ==
    /\ MoreEvents
    /\ Store(g)
    /\ UNCHANGED <<member, calls, page_>>

OtherTypes(g) ==
    /\ MoreEvents
    /\ g = page.active  \* bound: elsewhere it only moves the cursor, as a message does
    /\ sess' = Pushed([type |-> "typing", group |-> g, id |-> 0], g)
    /\ sess' # sess
    /\ UNCHANGED <<member, stored, calls, page_>>

Next ==
    \/ \E m \in Modes : setTransportMode(m)
    \/ \E u \in Users : authenticate(u)
    \/ refreshGroups
    \/ \E g \in Groups : openGroup(g)
    \/ createGroup
    \/ \E g \in Groups : joinGroup(g)
    \/ sendMessage
    \/ logout
    \/ reload
    \/ FlushEffects
    \/ refreshPresence
    \/ \E i \in Slots : Arrive(i)
    \/ \E i \in Slots : Reject(i)
    \/ \E i \in Slots : Lose(i)
    \/ \E k \in Sessions : PeerClose(k)
    \/ \E k \in Sessions : receivePush(k)
    \/ pollAnswered
    \/ pollFailed
    \/ pollAgain
    \/ typingTimeout
    \/ \E i \in Slots : Serve(i)
    \/ \E g \in Talking : OtherSends(g)
    \/ \E g \in Talking : OtherTypes(g)

(* timers fire, and every request ends, over WSS by its own timer *)
Fairness ==
    /\ WF_vars(typingTimeout)
    /\ \A i \in Slots : WF_vars(Arrive(i) \/ Reject(i))

Spec == Init /\ [][Next]_vars /\ Fairness

(***************************************************************************)
(* Properties                                                              *)
(***************************************************************************)
Busy == {"none", "auth", "history", "create", "join", "send"}

TypeOK ==
    /\ session \in [id : 0 .. MaxSessions, connected : BOOLEAN]
    /\ mode \in Modes /\ wss \in 0 .. MaxSessions /\ on \in 0 .. MaxSessions
    /\ page \in [groups : SUBSET Groups, active : Groups \cup {0}, messages : SUBSET (1 .. MaxEvents),
                  presence : Groups \cup {0}, typing : BOOLEAN, busy : Busy,
                  pushState : {"idle", "listening", "retrying"}]
    /\ cursor \in Nat /\ typingTimers \in Nat

(* What is on the page and was fetched or pushed over WSS came over the    *)
(* session the page now has: nothing of an earlier user stays, or comes in *)
(* late.  A login that begins while another, a restore or a logout is in   *)
(* flight is left out: the answer of a second logout ends the next session *)
(* but does not close its WebSocket.                                       *)
WssDataIsCurrent ==
    ~raced => \A k \in origin.groups \cup origin.messages \cup origin.presence :
                  sess[k].mode = "wss" => k = wss

(* A WSS session that ends while the page is subscribed to it ends on the  *)
(* page as well: for as long as the page has the session, its record says  *)
(* connected: false (which nothing renders), and the indicator of pushes   *)
(* says so until the effects run again.  They do when the active group     *)
(* changes, and say "listening" whether or not the session is over         *)
(* (App.tsx:186): the indicator is then wrong for good, and left out here, *)
(* as is a session that ended before the effects first ran for it.         *)
CloseIsShown ==
    (session.id # 0 /\ session.id = effects.id /\ mode = "wss" /\ effects.once /\ ~sess[wss].up) =>
        /\ ~session.connected
        /\ effects.up => page.pushState = "retrying"

(* The events a page applies are numbered without gap or repetition, from  *)
(* the first one for a Raw QUIC session, through group changes, failed     *)
(* polls and reloads; and the cursor is the last of them.                  *)
EventsInOrder ==
    (~raced /\ applied # <<>>) =>
        /\ \A n \in DOMAIN applied : applied[n] = applied[1] + n - 1
        /\ (session.id # 0 /\ mode = "raw-quic") => applied[1] = 1
        /\ cursor = applied[Len(applied)]

(* The page does not stay busy, unless an answer did not decode since it   *)
(* was loaded (see Lose), and no typing indicator stays.                   *)
SettlesIdle ==
    /\ page.busy # "none" ~> page.busy = "none" \/ lost
    /\ page.typing ~> ~page.typing

===============================================================================
