# A TLA+ model of lyune-gateway

lyune-gateway is a multi-tenant access gateway written in Zig. Clients keep a
long-lived connection (raw QUIC or WebSocket over TLS) to one of its workers and
open streams on it; the gateway authenticates the client with a backend service,
routes each request to a backend over QUIC, carries the response back, and
delivers what backends push to identities and groups of clients. This directory
holds TLA+ modules that model the gateway and the clients of `validation/` (the
browser page and the scripts that exercise the gateway over WSS), TLC
configurations that check them on small instances, and TLAPS proofs of what holds
for every instance.

Source paths below are relative to the repository; the Zig code is under `src/`,
the TypeScript and JavaScript under `validation/` (`PROJECT.json` names every file
with its prefix). "Tenant" and "realm" are the
same thing.

## 1. The system

```
 client --raw QUIC / WSS--> worker ---------------> backend service
                            |  connection manager      (DirectTransport:
                            |  ingress, auth            N replicas x QUIC)
                            |  in-flight tables
                            |  egress <--- pushes, kicks, group commands ---
                            |
      other workers  <-- hand-off rings
      other nodes    <-- peer links (QUIC, mTLS), forward tunnel (UDP)
      membership     <-- SWIM gossip (UDP), read by every worker
```

A node runs one thread per worker, plus the membership thread and the
coordinator. A worker owns its connections, its tables and its backend
connections; inside a worker nothing is shared and callbacks run one at a time.
Concurrency is therefore of three kinds: callbacks of one worker in any order,
with state that lives from one to the next; threads that meet in a ring, a
snapshot table or an atomic flag; and nodes that see each other through
unreliable messages.

The clients are JavaScript: one thread, and a callback runs to its end, with the
continuations of the promises it settles, before the next. What is hard in them
is what happens between two callbacks: state kept in the closure of an earlier
render, a request in flight across a logout, a timer that races an answer, a
close that comes while nobody listens.

```
 App.tsx (page) --- WssImSession --- browser WebSocket --- gateway (WSS)
      \------------ fetch ---------- client agent (Go) --- gateway (raw QUIC)
 wss-*.mjs -------- WssValidationClient --- TLS socket --- gateway (WSS)
      wss-fault-recovery.mjs also starts, stops and kills gateway and reactor
```

### Inventory

| Component | State | Operations | Talks to | What is hard, and what must hold |
|---|---|---|---|---|
| connection manager (`worker/connection.zig`) | slot pool with free list and generations, callback index, (realm, dest_id) chains, group edges on two chains, quotas | add, remove, bindDest, joinGroup, leaveGroup, iterators, byToken | everything in a worker | tokens and handles used after the session is gone; three kinds of chains threaded through the same slots. Stale tokens miss, fan-outs are exact, nothing leaks |
| realm quota (`foundation/quota.zig`) | counts per realm, total, active realms | allows, acquire, release | all pools | one missing release erodes the quota for good. Counts are exact; a tenant over its share is the only one refused |
| in-flight tables (`worker/inflight.zig`) | routes, pending authentications, two quotas, `next_expiry_at` | open, touch, close, suppress, track, take, purge, expire | ingress, worker loop, auth | lazily kept deadline, keys overwritten. The scan is never late, the quotas exact |
| ingress (`worker/ingress.zig`) | inbound exchanges of a session | OPEN, DATA, FIN, RESET, STOP | in-flight tables, backend transport | a request half sent while its answer, its expiry or its connection's loss arrives. One responder, one end of the request, one end of the response |
| worker loop (`worker/worker.zig`) | timers, the poll | accept, close, drain, fail, expire | all of the above | order of the steps of a close; two reports about one request. No entry outlives its session; nobody who waits is forgotten |
| authentication (`worker/auth.zig`) | pending verdicts | delegateAuth, collect, completeAuth, redirect | backend, placement | a verdict that arrives after a kick, a stop or a second attempt. Only a live session is admitted |
| lifecycle events (`worker/lifecycle.zig`) | - | online, offline, refresh, revoke | backend | order of announcement and revocation, events that cannot be sent. What went out equals admission, until an event is dropped |
| egress (`worker/egress.zig`) | - | push to connection, identity or group, kick, group change, hand-off to workers and nodes | manager, rings, peer links | fan-out over three levels; each target once, no other tenant |
| push sessions (`worker/push_session.zig`) | streaming pushes by id, attached targets | open, attach, expire | egress | ids seen again after expiry |
| peer link (`worker/peer_link.zig`) | links to nodes, backoff | ensure, send, expire | egress, membership | drop while connecting; a link always comes back |
| session contract (`session/*`, `quic/session.zig`) | - | write, reset, close, claim | workers | the same promises of two transports |
| WSS listener (`wss/*`) | handshake and close state, output queue | accept, parse, write, close | worker | slow readers, close after flush |
| backend transport (`backend/direct.zig`, `transport.zig`) | replicas, connection state, generations, receive queue, pending failures | connect, sendStream, receive, invalidate | worker | callbacks of a connection that has been replaced; every lost request is reported once |
| backend pool (`backend/pool.zig`) | arena of events, limits per realm | acquire, release | backend transport | a full arena aborts a connection |
| backend routes (`backend/registry.zig`, `factory.zig`, `catalog.zig`) | service -> transport | register, resolve | ingress, reload | replaced while in use |
| hand-off rings (`io/handoff.zig`) | ring, wake-up flag | push, drain | workers | a lost wake-up; overload is counted |
| membership (`control/membership/*`) | SWIM states and incarnations, multi-buffer snapshot | ping, suspect, refute, publish, lookup | nodes, workers | lost and reordered gossip; readers without locks |
| membership wire format (`codec`, `crypto`, `transport`) | - | encode, seal | nodes | pure functions on bytes |
| coordinator (`control/coordinator.zig`) | worker states | drain, stop | workers | waits for all workers |
| placement (`foundation/placement.zig`) | - | home of an identity | auth, worker loop | two nodes with different views; a client is not redirected for ever |
| forwarding and return path (`io/forward.zig`, `reactor/return_path.zig`, `io/cid.zig`) | tunnel peers, way back of a packet | forward, remember, expire | nodes | a path that has changed |
| reactor and event loop (`reactor/*`, `io/loop.zig`) | sockets, timers | poll | libxev, picoquic | external; its effect is "one callback at a time" |
| QUIC wrapper (`quic/*`) | - | wraps picoquic | | thin |
| protocol (`protocol/*`) | reassembly buffer | encode, decode, split into frames | ingress | frames cut anywhere |
| configuration and reload (`app/*`) | tables that are replaced | reload | registry, realms | several commits that are not one |
| resolvers (`foundation/resolver/*`) | - | resolve | backend transport | external |
| browser session (`validation/web-client/src/wss_session.ts`) | pending exchanges with timers, partial pushes, first close reason | connect, authenticate, command, close, message and close events | page, gateway | interleaved and broken records, errors that throw again in the handler. Every caller is told whose answer decodes, answers are whole, pushes are in order, the end is told once |
| web client page (`validation/web-client/src/App.tsx`) | React state, the session in use, event cursor, closures of the last effects | login, logout, reload, commands, effects, long poll, pushes | browser session, client agent | stale closures, answers after a logout, effects later than the state. No data of another session, a close marks the session, no event lost or repeated |
| validation client (`validation/wss-smoke.mjs`) | input bytes, pending exchanges, events and who waits for one | connect, exchange, waitForPush, waitForClose, close | scripts, TLS socket | chunks that end anywhere, calls on a dead socket. Frames are reassembled, every wait ends |
| fault-recovery script (`validation/wss-fault-recovery.mjs`) | two child processes, tokens seen in a log | start, stop, kill, retry, verdict | validation client, processes | any step fails. ok only for distinct tokens, no child left behind |
| other validation scripts (`validation/wss-*.mjs`) | - | scenarios | validation client | straight-line assertions |
| client agent (`validation/client-agent/`) | sessions over raw QUIC, events by number | command, events, status | page, gateway | Go; external to the page |

`PROJECT.json` lists the hazards of each at the line where they bite and the
properties that cover them.

## 2. The modules

| Module | Models |
|---|---|
| `Quota` | `foundation/quota.zig`: the fair-share quota as a record and three operators, and what it means that it counts the cells of a pool (`CountsEntries`) |
| `SessionSlots` | the session half of `ConnectionManager`: slots, generations, tokens, free list, callback index, identity chains |
| `GroupIndex` | its group half: the edge pool and the two chains of each edge |
| `ConnectionManager` | the two together, as `egress.applyGroupChange` and the worker use them |
| `SessionDirectory` | abstract: what the manager promises its callers |
| `Inflight` | `worker/inflight.zig` |
| `Exchanges` | `worker/ingress.zig`, `worker.zig`, `auth.zig`, `lifecycle.zig` and `egress.kickOne` on top of `Inflight`, with clients and backends as environment |
| `ConnectionManagerProofs` (with those of `SessionSlots` and `GroupIndex`), `ExchangesProofs` (with those of `Inflight`), `HandoffProofs`, `MembershipTableProofs`, and `ModularArithmetic` which they share | the proofs of the gateway's modules |
| `LyuneFrames` | frames and their bytes, as `decodeFrames` of both clients reads them |
| `WssSession` | `validation/web-client/src/wss_session.ts`: one browser WebSocket session |
| `WssSessionProofs` | its proofs |
| `WebClient` | `validation/web-client/src/App.tsx`: one browser tab |
| `WebClientProofs` | its proofs |
| `ValidationClient` | `WssValidationClient` of `validation/wss-smoke.mjs` |
| `Handoff` | `io/handoff.zig` and the part of `worker/worker.zig` that pushes, wakes and drains: threads around one ring each |
| `MembershipTable` | the table of `control/membership/mod.zig`: one writing thread, readers without a lock |
| `FaultRecovery` | `validation/wss-fault-recovery.mjs` on top of `ValidationClient`; also the other scripts, as arbitrary callers of it |
| `FaultRecoveryProofs` | the proofs of `ValidationClient` and `FaultRecovery` |
| `MCConnectionManager`, `MCExchanges`, `MCWssSession`, `MCWebClient`, `MCFaultRecovery`, `MCHandoff`, `MCMembershipTable` | the instances TLC runs |

```
 Quota <- SessionSlots <- GroupIndex <- ConnectionManager --implements--> SessionDirectory
 Quota <- Inflight <- Exchanges
 Quota <- Handoff
 MembershipTable
 LyuneFrames <- WssSession
 LyuneFrames <- ValidationClient <- FaultRecovery
```

### Connection manager

`slots`, `free_head`, `live`, `callback_index`, `dest_index`, `conn_quota` are
the fields of `ConnectionManager`; a slot is a record of the fields of `Slot` and
of its `ConnectionContext`. `groups` is the `GroupIndex` with the `group_head` of
each slot. The hash tables are functions here: a key that is not there is `Nil`.
`incarnation` is the process identity a token carries; `Crash` starts a new
process, which forgets every session while its tokens live on in backends.
`occupancy` is a history variable that counts how often a slot was taken, so that
"the session this token was issued for" can be said although generations wrap
(`GenMod` is 2^16 in the code and 2 in the runs, so wrap-around happens).

One public method is one action, because a manager is private to its thread:
`Accept` (`addSession`), `CloseSession` (`removeSession`), `CloseRawQuic`
(`remove`), `Authenticate` (`bindDest`), `JoinGroup`, `LeaveGroup`. A close
includes `unbindDest` and `leaveAllGroups`. A chain walk that looks for the
predecessor of an element is the set of slots that point to it; that this
predecessor is unique and reachable is part of what is proved. What an iterator
visits is `Walk`, the least set that holds the head and is closed under the
`next` field; the group index uses it for the edges of a group, of a session and
of the free list. `LeaveAll` is the loop of `leaveAllGroups`, a recursive function
over rounds: while the session has a head edge, it is released, and the size of
the pool bounds the rounds. `Leave` releases the first matching edge of the
session's chain.

### Request path

`Exchanges` follows one request from its OPEN to its last event.

| Variable | In the code |
|---|---|
| `session` | `ConnectionContext`: transport, realm, admission, dest_id, highest claimed stream |
| `exchanges` | `inbound_exchanges` of each context |
| `routes`, `auths`, `route_quota`, `auth_quota`, `next_expiry` | `inflight.Tables` |
| `input`, `output` | the two directions of a client stream, as its two ends have driven it |
| `request`, `response` | the two directions of a backend stream |
| `recv`, `up`, `failures` | receive queue, readiness and `pending_failures` of each backend connection |
| `phase`, `outbox` | the callback being carried out, and the lifecycle events it still has to publish |
| `announced` | history: the last lifecycle event of a session that went out, and whether a later one was dropped |

A callback that treats several entries (drain, failure of a connection, expiry,
close of a session) is a sequence of steps; `phase` and `outbox` keep everything
else out until it is done, as the single thread does. A kick is the exception: it
comes as a backend push in the middle of a drain as well. A poll is started only
when it would do something (an event queued, a failure pending, a scan due). It
takes the queues in the order of the connections, then at most one pending
failure, then the expired entries, as `drainBackendResponses` and `receiveImpl`
do.

Time is relative: entries have an age in ticks, `next_expiry` counts down. An
age stops at `Timeout`, since only `age >= timeout` is ever asked.

`asked` (what the client first wanted of a stream), `kicked` and `announced` are
history, which no guard reads. An event in `outbox` carries the session and identity it
was made for, as the code encodes it before it sends. `PublishEvent` opens a backend
stream for it, or drops it: without a route, with a full table, over the share of
the realm, or without a stream. Nothing sends a dropped event again.

What stands for what:

- A session name is a slot with its generation and is reused once the session has
  been removed. A backend stream handle is reused once nothing in the gateway
  mentions it (`Fresh`), which stands for the endless supply of stream ids.
- The two client transports differ where the worker can see it: picoquic refuses a
  write after FIN or RESET, the WSS listener keeps no state per stream and puts
  the record on the wire, but accepts only growing stream ids. `output` says how a
  client stream has been ended: by FIN or RESET, and over WSS also by records after
  the RESET (`late`, `late fin` with a FIN) or by a write after a FIN (`twice`).
- `TransportFails` covers every close the worker did not ask for: a failed or
  overflowing WSS write, a framing violation, a `rehomeDrifted` close.
- A verdict of an authentication is success with any identity, failure, or a
  redirect to the session's home node; which one is nondeterministic.
- Payloads have no content. A frame is the first of its stream or a later one,
  and may be the last.

### Hand-off rings

Workers are threads, so here the unit is not a callback but what a thread does
between two points where another may come in: a critical section of the ring's
mutex (`Register`, `Deliver`, one `Drain`, `Unhook`) or a call on the `Async`
(`Arm`, `Notify`). `pc` says what a thread is about to do; `target` is the notifier
that `push` copied under the lock and calls after it. `ring` holds the fields of
`RingQueue` but its `notifier`, which is a variable. A refused item changes
nothing. A worker that is in its loop may run other callbacks at any time, also
those that push.

The `Async` of libxev is external: it is signalled once however often it is
notified, the signal waits until the loop listens, and either end may report an
error, which the code logs. `missed` remembers the workers that lost a wake-up
that way. A notification after `deinit` has no effect in the model. `accepted` and
`taken` are history.

### Membership table

`writer` is the SWIM thread in `upsert`, `reader` the lookup of each other
thread. A `Data` is written and copied in `Pieces`, since the copies are not
atomic; the numbers are loaded and stored atomically. The
order between a copy and the loads around it is that of the program, as x86
keeps it; an acquire load does not by itself hold back the plain loads before
it, so weaker hardware allows more. Content is the number of the upsert. The
counters `used_count` and `active_count`, which only the writing thread uses, are
left out, and a slot once published stays `used`. `result` is what the last lookup of
a thread gave it; history: `seen`, the newest upsert each piece of a node has come from in
any lookup of that thread, and `sure`, the same without the copies at the largest
distance the code accepts (`Lapped`).

### Browser session

One callback is one action. `pending` is the key set of the map of that name,
`chunks` and `timers` are the fields of its entries, `call` is the promise the
caller of `authenticate` or `command` holds. They are separate variables because the
code can take them apart: a caller may wait although its entry is gone. A frame is two pieces, header
and body, so that a record can carry part of one and a stream can end in the
middle of one; a body parses and is accepted, is refused, or does not parse.
`sent`, `ended`, `done` and `seen` are history: what the gateway put on each stream,
which streams it ended, in which order it ended the pushes, and what `onPush` was
given. `close` (a logout) and the close event go through `handleClose`. An error of the
protocol does not: `WebSocket.close` takes the codes 1000 and 3000 to 4999 only and
throws on 1002 before it does anything, so the `catch` block (`wss_session.ts:317`) ends
there. `protocolError` leaves the socket open and the session as it is; what was done
before the error stays done. In the same way `onOpen` without the subprotocol
leaves the promise of `connect` waiting, its timer cleared (`opening` is then
`unconfirmed`), unless an error event follows. The browser delivers no message once
`readyState` has left OPEN.

### Web client page

`page` is the React state, `session`, `mode`, `wss` and `cursor` are the state
and the references of the same names. An effect runs later than the state change
that calls for it: `effects` holds the dependencies with which the effects ran
last, so it is also what their closures see, and `FlushEffects` carries out the
cleanups and then the effects. React flushes them before it handles another
click, hence `Settled` in the guard of `Click`, but not before another message or answer.
A request carries the transport and session of the closure that made it; each
`await` ends an action, and `Arrive` and `Reject` are what follows. `openGroup`
waits for a history and a presence answer at once, which is one request here.
`PeerClose` takes from `WssSession` that the end of a session rejects everybody it still
knows, `Lose` that an answer which does not decode leaves its caller waiting and the
session as it is. The two React state updates after one answer
are one action, since they are batched. History variables: `applied` (numbers of the events given to
`applyPush`), `origin` (which session the shown data came from), `raced` (a
login begun while another login, a restore or a logout was in flight), `lost` (an
answer that did not decode), and in `effects` whether the WebSocket was open when
the effects last ran (`up`), or at any run for this session (`once`).

### Validation client and scripts

The TLS byte stream is a sequence of cells, two for each WebSocket frame, and a
data event takes any number of them. `drainWebSocket` handles one frame a step;
while `draining` holds nothing else runs, because the code is one loop. An error
thrown there is not caught and ends the process: `crashed`. `at` is where the
fault-recovery script stands; a deadline may pass at any wait, a child process may exit
at any time, SIGINT may be ignored, and the token of a new gateway may be an old
one. With `script = "any"` the client is called in any order against a gateway
that may send any frame.

## 3. What the runs check

| Run | Instance | States | Shows |
|---|---|---|---|
| `Directory` | 2 slots, 2 realms with the same identity and group numbers, 2 groups, 2 incarnations | 13.8 thousand | the manager implements `SessionDirectory`; stale tokens miss; the edge pool is exact |
| `Chains` | 3 slots sharing an identity and a group per realm | 256 thousand | head, middle and tail of every chain can go in any order: free list, fan-out, callback index, quota, group chains |
| `Requests` | 1 stream over QUIC or WSS, 2 backend streams on one connection | 626 thousand | one responder, requests end once, no data and no FIN after the FIN of a response, nobody is forgotten, quota and deadline of the tables |
| `Admission` | 1 session, 2 identities, authentication on one backend connection and lifecycle events on another | 1.82 million | entries name live sessions, the events that went out match admission unless the last was dropped, offline names who was online |
| `Deadlines` | 1 stream, 1 backend stream, fairness | 44.8 thousand | every request that wants a response gets its end; every entry leaves |
| `WebSession` | 2 exchanges, 2 pushes, 3 records, whole, split or broken | 404 thousand | callers accounted for over errors that do not end the session, answers intact, pushes in order, one reason for the end, every call ends |
| `WebPage` | 1 user, 2 groups, both transports, 2 sessions, 2 requests in flight, 2 events, 3 clicks | 335 thousand | WSS data is of the present session, a close marks the session and is shown until the effects run again, events in order, the page becomes idle |
| `Scripts` | fault script: 1 reactor cycle, 1 gateway cycle, 2 tokens; others: 1 exchange, 1 push, 1 waiter, 3 frames | 690 thousand | frames reassembled, no push missed, honest verdict, every wait ends |
| `Rings` | 1 consumer, 2 producers, ring of 3, 4 messages of 2 realms, fairness | 131 thousand | order and backlog exact, no lost wake-up, what is accepted is taken |
| `Snapshots` | 1 node, 1 reader, 2 pieces, 20 upserts, a number modulo 8 | 1.02 million | a copy accepted below the largest distance is the upsert current when the lookup began; never more than one upsert older than before, and only after a copy at the largest distance |
| `KickRace`, `EarlyResponse` | | | the first two disagreements of section 5, as counterexamples |

### Bounds, and why they are enough

- `MaxConnections` 2 and 3: three slots are the first pool in which a chain has a
  middle. The proofs cover all sizes.
- `MaxReuse`, `MaxIncarnation`: how often a slot is taken and the process started.
  With `GenMod = 2` two occupations reach the wrap. When the bound is used up an
  empty pool can make no step, so these runs do not ask about deadlock; the
  request-path runs do.
- `MaxTrackedRealms = 1` with two realms makes one of them untracked, the branch
  `allows` takes for a realm outside its table.
- `Sessions`, `Streams`: one each in `Requests` and `Admission`. Two client
  streams interact only through the capacity of the tables and the handles, and a
  session that is gone and accepted again is already a second session. Two
  backend streams are needed to see two behind one client stream.
- `Timeout = 1`: an entry is young or due. A tick between any two events still
  gives every order of event and expiry.
- `MaxFrames = 1`: frames after the first one, so a stream has OPEN, DATA, and
  FIN. For the response it bounds data events before the FIN.
- `MaxQueue = 1` waiting event per connection. With two connections
  (`Admission`) the order across connections varies. One failure of a connection
  is pending at a time, because its reconnect backoff outlasts a poll.

- `WebSession`: two streams of each direction are what interleaving needs. Three
  records give a push split in two around another record, and an answer that is
  complete after an abort of its sibling. `MaxInbox = 1`: the gateway's choice of the next record
  does not depend on what the browser has read, so a longer queue only delays it.
- `WebPage`: two sessions give a login after a logout, with answers and pushes
  of the first still under way; two requests race each other; two events are
  needed for an order, and for a cursor that is behind. Three clicks are a login
  and two more. The client agent numbers events from 1 for each
  session.
- `Scripts`: the code runs three reactor cycles and two gateway cycles; one of
  each, which makes two incarnations, is the least in which a token can collide.
  `MaxExchanges = 5` bounds the retries of the recovery loop.
- `Rings`: two producers race each other and the consumer; a third adds no new
  pair. Four messages go once round three slots, and with a watermark of 50% a
  realm can meet its share. A node's rings share nothing, so one is enough.
- `Snapshots`: with a number modulo 8 twenty upserts pass the wrap twice, with a
  reader at any distance. `WithinPeriod` keeps the reader from falling a whole period behind, 2^32
  upserts in the code. A slot does not depend on another slot, nor a reader on
  another reader.
- These runs end when their bounds are used up, so they do not ask about deadlock.

### Fairness

`FairSpec` assumes weak fairness of `CallbackNext` (a callback that has begun runs
to its end: it is straight-line code on one thread), and strong fairness of
`StartPoll` and `Tick` (the poll timer re-arms itself in `backendPollCallback`
and the clock advances, however busy the loop is with other callbacks in between:
each is disabled while another callback runs, hence strong). Nothing is assumed of
clients or of backends: they may stay silent for ever. A backend that streams a
response for ever keeps its route alive by `touchRoute`; `EntriesLeave` is about
responses of bounded length.

In `Handoff` a thread goes on with what it has begun (`Arm`, `Notify`, `Drain`, weak
fairness: they are straight-line code, and no lock is held for ever), and the
loop comes round to an `Async` that was notified, whatever other callbacks come
between (`MessageCallback`, strong). Nobody has to send or to stop.

For the clients, timers fire: `connectTimeout`, `exchangeTimeout`, `typingTimeout`,
`pushTimeout`, `closeTimeout` are armed by `setTimeout` and nothing blocks the
event loop. A `connect` that is left unconfirmed and a caller whose answer did not decode
have no timer any more: `EveryCallEnds` names them. In `WebClient` every other request
ends, over WSS by the timer of `WssSession` (`lost` records the exception), through the agent by its deadlines of 4 to 12 seconds. In `FaultRecovery` the
script goes on when what it waits for has come or its deadline has passed, a data
event that has begun runs to its end, and SIGKILL ends a process. Nothing is
assumed of the gateway or of the reactor.

## 4. What is proved

All proofs are for every value of the constants that satisfies the named
assumptions (`QuotaAssumption`, `SlotsAssumption`, `InflightAssumption`,
`ExchangesAssumption`, and those named below with their modules: finiteness of the pools, non-zero sizes, identities that
are not 0).

**Session slots.** The walks in `FreeListExact` and `FanOutExact` are not
inductive: to show that a release keeps a list exact one must know which slot
points to which. `SlotsInv` describes chains by their links (every head is used,
bound to its key and pointed to by nobody; successors share the key; two slots
never share a successor) together with a rank that grows along the chain, which
excludes cycles no head reaches. With the contexts of free and used slots, the
callback index and the cardinalities behind the quota it is inductive
(`SlotsInvariant`). The walks follow from it by well-founded descent on the rank
(`FreeListCorrect`, `FanOutCorrect`), the rest directly
(`CallbackIndexCorrect`, `QuotaCorrect`). `StaleTokensMiss` needs that the
generation is the occupancy modulo `GenMod`, and that two occupations less than
`GenMod` apart have different generations; `ModularArithmetic` proves that from
the definition of `%`.

**Connection manager** (also `GroupsAssumption`: an edge per slot at least, groups
that are not 0). Every step of the composed manager is a step of the slots
or leaves them alone (`ManagerImplementsSlots`), so these results hold with
groups, crashes and token checks in place (`ManagerChainsCorrect`,
`ManagerTokensMiss`). `ManagerInv` adds the group index. Its three lists, the free
edges, the edges of each group and those of each session, are instances of one
predicate, `Threaded`: cells on one chain per key, described like the slots' chains
by links and a rank. A join pops the free list and pushes on the other two, a
release does the reverse, so two lemmas (`Pushed`, `Unlinked`) serve all six cases
and `ThreadedWalk` says what an iterator meets. A release stops its walks at an edge
that is in use, of the group or the session at hand, and points to the edge; the
invariant shows that such an edge is the only one that points there. `ManagerInv` further needs that a
session has at most one edge per group (a leave removes one edge and must remove the
membership) and that an edge in use names an open session of its realm (so the reset
of `group_head` in `addSession` cuts nobody off).

`leaveAllGroups` is a loop. `RoundsExist` gives the sequence of its rounds, as the
least round that could be missing does not exist; `OneRound` is the loop invariant:
what is left satisfies `GroupsInv`, only edges of the session are gone, and the
session owns at most as many edges as there are rounds left. `LeaveAllGood`
concludes that exactly the session's edges were given back.

From `ManagerInvariant` follow `ManagerTyped`, `GroupChainsCorrect` and
`EdgePoolCorrect`, and with them the refinement: under the invariant what the
iterators return are the sets of bound and of joined sessions, each action of the
manager changes them as one operation of `SessionDirectory` does, and an accept
finds room because a slot is free (`ManagerImplementsDirectory`).

**In-flight tables.** `InflightInv` is typing, `InflightQuotaExact` and
`ExpiryNeverLate` together. Each needs the others: releasing a cell keeps the
type only because the count is exact, and the earliest deadline is computed over a
finite set of ages. `InflightInvariant` covers any order of calls that respects
the reservations, overwritten keys included.

**Request path.** `ExchangesInv` adds that a client entry names a stream of a
session that is there and has the entry's realm, that `phase.who` is set exactly
during a close, and how presence is kept (`PresenceOK`). An event is published after
the admission has changed, so between the two what went out and what holds differ:
`OutboxOK` says of a waiting event that it will set this right (the last one
describes the admission as it is, an offline event takes back the identity that is
online), `AnnouncedOK` that for the sessions without one they agree, unless
the last event was dropped. Typing is not inductive
alone: a verdict is applied to the session its entry names, so the entry must name
one. From it follow `ExchangesTyped`, `EntriesAlive`, `PresenceCorrect` and, as an
action property, `OfflineCorrect`. `ExchangesImplementInflight` shows that every
handler uses the tables only through their operations and their reservations, which
carries the tables' theorems over to the worker (`TablesCorrect`).

`OneResponder`, `RequestsEndOnce`, `AnsweredOnce` and `NoForgottenRequest` are
invariants of single streams that lean on each other. `AnsweredOnce` is about data,
replies and FINs after a FIN; records after a RESET are in the model and not excluded
(section 5). `StreamsInv` states for each
client stream what may still answer it (routes, authentications, a backend stream it
holds, an id that may be claimed again) against its input and its output. That a
response ends once over WSS needs to know that whatever may still answer finds no
end on the wire (`WssAnswers`), which needs that a claimable id has nothing behind
it and that a backend stream an exchange holds is the only thing that answers it
(`BackendHeld`, `WaitsPlaced`); that nobody is forgotten needs that a verdict is
suppressed only after a reset (`SuppressedIsReset`). A lemma for each kind of step shows which
streams it touches, and the rest of the streams are carried over as they are.
`StreamsInvariant` is the result; `OneResponderOnly`, `RequestsEnded`,
`AnsweredAtMostOnce` and `RequestsRemembered` follow.

**Browser session** (`WssSessionAssumption`: natural bounds and sequences of
pieces). `CallsAccounted` and `AnswersIntact` are not inductive. That an answer is
all of what was sent needs to know, while the answer is still on its way, that what
an exchange has received and what the records in `inbox` carry of its stream add
up to what the gateway sent. `Flow` says so without recursion: there is a table
`got` of what each stream has delivered before the i-th record, which starts at
`chunks`, grows record by record, and ends at `sent`; a FIN is the last record of its stream.
One lemma for each kind of step gives the next table (`FlowTaken` shifts it,
`FlowSent` lengthens it). `Life` relates socket, promise and status, `Calls` the
entries, the timers and the callers, the streams not begun yet included; callers
without an entry are those whose answer does not decode. `Closing` covers the ways into
`handleClose`, `Leaving` the ways out of `pending`. An error of the protocol keeps
everything but the entry or the push it is about.
`SessionInvariant` is the result; `CallsAccountedAlways`, `AnswersCorrect` and the
action property `ReasonStays` follow.
`PushesInOrder` needs the same of the pushes, and their numbers besides: `PushFlow`
adds to the table a second one, `count`, of how many pushes the records before the
i-th one end that are valid, and which ones have ended (`over`). It starts at
`pushSequence` and ends at `Len(done)`, and no record of a push comes after its end; so
a valid push that `handlePush` completes is the next one of `done` (`PushEnds`), whatever
invalid ones came before. `PushFlow` holds as long as records may still be handled,
that is until the socket is closing; `Heard`, of the events already given, holds
always. `PushesCorrect` is the result.

**Hand-off rings** (`HandoffAssumption`: a ring has a slot, those sent to are workers;
and `QuotaAssumption`). `RingsInv` places messages by absolute position: the k-th
accepted one is in slot `(k - 1) % Capacity` until it is taken, `head` is the number
taken modulo `Capacity`, `len` the difference of the two counts. `PushRing` needs that
positions less than a turn apart have different slots (`SlotsApart`), `PopRing` that
the first that waits is at `head`. The type of a ring is not inductive without the
exact counts of its quota: `release` takes one off a counter that must not be zero
(`CountedAcquire`, `CountedRelease`). `NoLostWakeup` needs `ThreadsInv`, who is registered
and whom a thread notifies: a notification that finds its target gone loses nothing,
because that target had taken its notifier back. From `HandoffInvariant` follow
`RingsTyped`, `FifoCorrect`, `BacklogCorrect` and `WakeupsKept`.

**Membership table** (`TableAssumption`: the width of the number is a multiple of
`buffer_count` and larger). `WholeSnapshot` speaks of what a reader was given, so
the invariant `TableInv` says why the pieces still in a buffer are right: the last
three publications of a node are whole whatever the writer is doing, since it
fills the buffer of the fourth; and a reader whose node went on by at most two has
so far copied pieces of the publication it began with. The number is the count of
upserts modulo its width, and the lemmas `BufferOfSequence`, `NextSequence` and
`DistanceOfCounts` carry buffers and distances over the wrap; they rest on
`ModularArithmetic`. `LookupsWhole` follows. `NeverBack` (`NeverBackwards`) is about the
copies at distance 3 as well. `LastFour` bounds what any buffer holds: a piece of one of the last
four publications or of the upsert being written. `OrderInv` adds what
each thread was given of each node (`seen` at most one upsert ahead of the table,
`sure` not ahead), that it was not newer than the copy now being made may turn out, and
how old the pieces of that copy can be. `WithinPeriod` is in the model: nobody
sleeps through 2^32 upserts between two loads.

**Validation client** (`ValidationClientAssumption`, `FaultRecoveryAssumption`: natural
bounds, answers and events that are sequences of pieces). The proofs are about the
client alone, under any calls (`ClientNext`); `ScriptsUseClient` shows that every step
of `FaultRecovery`, of the script or of any other, is one of these or leaves the
client as it is. `Reassembled` is about sequences that are cut and joined, so
`BytesInv` says it by places: `input` is what follows the handled frames in the
cells of the frames sent, and while the socket lives `wire` is the rest. A data
event moves cells from one to the other, `drainWebSocket` takes two of them and
finds the next frame sent, a closed socket loses the wire. `NoPushMissed` is
inductive once typing is known: a wait that finds its event among those there is
not entered, and an event that comes settles the waits that it matches.
`FramesReassembled` and `PushesFound` are the results.

**Fault-recovery script.** `ScriptInv` counts. By the place where the script stands
(`FirstStart`, `FirstUp`, `InReactorCycle`, `InGatewayCycle`, `AllCyclesDone`) it says how
many incarnations of the gateway there were and how many cycles of each kind are
done; the log holds tokens of incarnations only. The script compares the size of
the log with the number of cycles plus one, and `ManyTokens` is the pigeonhole that makes
distinct tokens of it. `Stopped` says that the `finally` block leaves no child.
`VerdictHonest` holds for any numbers of cycles, none included. An error in the
client that nobody catches ends the script before it is `over`, and then nothing
is said of its children. Proving it for every number
of cycles showed that the model went into a gateway cycle when there were to be
none, which no run with one cycle meets; `NextReactorCycle` is corrected.

**Page** (`WebClientAssumption`: groups are positive numbers, WSS is one of the
transports, no user has the name of nobody). `PageInv` has five parts. `WellTyped`
includes what answers bring. `SessionsKnown`: whatever the page, its references, a
request or the shown data name was opened by a login, and a login or restore in flight brings
a session that is new to the page. `OneSubscription` ties the subscription and the
long poll to the dependencies the effects last ran with: there is at most one of
the two, and it is theirs. `Subscription`: while these dependencies are still those of the
session, the subscription is to the socket in `wssSession.current`; if that was open
at a run of the effects and has ended, the session of the page says so, and if it was open
at the last run, the indicator too. `CloseShown` follows from these, for logins that race as well.

The fifth, `InTurn`, holds as long as no login overlaps another, a restore or a logout.
`WssDataIsCurrent` is not inductive: data comes with an answer, so the requests in flight
must be current too (`WssCallsAreCurrent`), and they are because a logout rejects what waits on the
socket, and because nothing of a session outlives it (`OneSession`: a login in flight
is alone and the page is signed out; a Raw QUIC logout in flight finds no WSS session when
it ends). For `EventsInOrder`, `CursorIsLast` relates the cursor to what has been
received on the subscribed socket or is asked for in the poll, and says that a session the
effects have not seen has applied nothing. `RunGoesOn` is the lemma that a run of numbers
goes on with what `applyPush` appends. Most actions leave session, transport, socket and
effects alone (`Steady`); for them one lemma (`SteadyKeeps`) asks only which requests
and which data are new. `PageInvariant` is the result; `WebClientTyped`,
`WssDataCurrent`, `CloseShown` and `EventsOrdered` follow.

**Only model-checked:** liveness (`RequiredAnswered`, `EntriesLeave`, `EveryCallEnds`,
`SettlesIdle`, `EveryWaitEnds`, `Delivered`): the prover does not handle fairness. Every
other property that a passing run checks is a theorem.

## 5. Where code and comments disagree

- **A kick can be undone** (`KickRace`). `egress.zig:830` says a kicked connection
  can do nothing any more even while its close is under way. If an authentication
  of it is in flight, `completeAuth` admits it again (`auth.zig:171`), with an
  online event, until the close arrives.
- **An early answer leaves the request open** (`EarlyResponse`). When the route of
  an exchange is gone, `appendToExchange` (`ingress.zig:574`) drops the exchange
  and takes it that expiry has reset the backend stream. A backend that sent its
  FIN before it read the whole request removes the route as well, and then the
  request stream is neither finished nor reset.

Seen on the way and modelled as they are, without a run of their own:

- A lone realm can fill the pool. `worker/connection.zig:602` and
  `foundation/quota.zig:18` say that the quota keeps a noisy tenant from eating
  `max_connections`. The fair share divides by the realms that already hold a
  connection, so a realm that comes first is alone and takes everything; a
  newcomer finds no free slot.
- A worker can be woken after its end. `worker.zig:401` takes the notifier back
  first, so that nobody touches the worker's `Async` any more, but `push` copies the
  notifier under the lock and calls it afterwards (`handoff.zig:184`); between the two the
  target may run `setNotifier(null)` and `deinit`.
- A lookup may accept a torn copy. `membership/mod.zig:183` says a copy is complete as
  long as the number went on by less than `buffer_count`. The writer fills its
  buffer before it stores the number, so at a distance of 3 it may be filling the
  one being copied. `WholeSnapshot` leaves that distance out (`lapped`); a bound of
  `buffer_count - 1` is what it shows to be safe. Such a copy may even hold the
  upsert that is not published yet, and the next lookup of the thread then gives it the
  one before: a step back by one upsert, which `NeverBackwards` shows to be the worst.
- A stream that a WSS client refused is written to all the same. The comment at
  `ingress.zig:200` wants no more records on a stream after STOP. The STOP
  branch resets the stream (`ingress.zig:230`) and suppresses what waits in the tables, but the
  empty response of a mode-`none` request (`ingress.zig:600`), an error on a
  failing append (`590`) and the answer to an OPEN that comes after the STOP are still
  written, and the WSS listener (`wss/listener.zig:660-680`) puts them on the wire
  behind the RESET. picoquic refuses such a write. `output` is then `late` or `late fin`.
- A lifecycle event may be dropped (`lifecycle.zig:50`, `55`, `60-75`, `105`), and
  nothing but the next event or lease refresh of the session repairs that: a
  dropped offline event leaves the connection online at the backend until its lease
  ends. `PresenceMatchesAdmission` speaks of sessions whose last event went out.
- A browser session does not end on an error of the protocol: `close(1002)` throws
  (`wss_session.ts:317`), so `handleClose` in the next line is not reached, the
  socket stays open, and an invalid push is skipped without a number. At
  `wss_session.ts:216` it throws before the `reject`: a connect to a server that does not
  confirm the subprotocol never settles, its timer being cleared already.
- A live message can be dropped by the page. `applyPush` compares a message with the
  active group of the closure that the last effects put on the session
  (`App.tsx:167`). When a history arrives, `openGroup` changes the group at once; a
  message stored after that history was read and pushed before the effects run again is
  compared with the old group and dropped, although `docs/validation.md:133` asks
  that the history and the live messages agree.
- An answer that does not decode leaves its own caller waiting for ever
  (`wss_session.ts:327`: the entry is taken out and its timer cleared before
  `decodeFrames` may throw). The session goes on, and the page stays busy with whatever
  it had asked for. `CallsAccounted` says that only such callers are lost.
- A session that ends between `authenticate` and the effects that subscribe to it
  is not shown as ended: `handleClose` has no `onClose` to call yet. Hence
  `effects.once` in `CloseIsShown`. The comment at `App.tsx:233` relies on failures
  being visible elsewhere.
- A close that was shown can be covered up. The effects run again when the active group
  changes, as after an answer that came just before the close, and
  set the indicator to `listening` (`App.tsx:186`) on a session that is over; it stays so.
  `session.connected` remains false, but nothing renders it. Hence `effects.up` in
  the part of `CloseIsShown` that is about the indicator.
- An answer through the client agent may arrive after a logout and fill the page
  of the next user. Over WSS the logout rejects it (`WssDataIsCurrent`).
- The transport can be switched while a login is under way (`App.tsx:390`): the
  session is then saved under one transport and used over the other.
- A login while a restore is in flight: whichever is answered last is the session
  (`raced`).
- A second click on logout over Raw QUIC sends a second request, since nothing marks the
  page busy. If the first is answered, the user logs in over WSS and only then the
  second ends, its continuation (`App.tsx:301`) clears the session of the new login
  but not its WebSocket. That goes on and rejects nothing, so a list it still answers fills
  the page of whoever logs in next. This takes five clicks and three sessions; it was
  met when the invariant of the page turned out not to be inductive. Hence the logouts
  in `raced`.
- The state `retrying` is shown for WSS as well, where nothing retries.

- An error of an `Async` loses the wake-up (`worker.zig:1229`, `1244`): what is in the
  ring waits until somebody else empties it, and nobody does. `NoLostWakeup` says that this is the
  only way.
- A message pushed on the ring of a worker that has stopped counts as delivered
  and is never taken.
- After 2^32 upserts of one node its sequence is 0, which `lookup` and `published`
  take for a slot never written: the node is unknown until its next upsert, which
  counts it as new.
- `max_groups_per_connection` sizes the edge pool but `joinGroup` does not enforce
  it per connection, against the comment at `connection.zig:511`.
- After an expiry the client's FIN still tries to finish the discarded stream
  (`ingress.zig:610`); `sendStream` refuses, nothing follows from it.
- A client that wanted no response is not told when its request is dropped
  (`ingress.zig:579`).
- A STOP that overtakes the OPEN of its stream is not remembered
  (`ingress.zig:223`), where the code does consider that order for RESET
  (`ingress.zig:240`).

## 6. What is not modelled

Of the clients: the effect that sends `typing` for a draft, drafts, notices and
layout of the page; files and configuration of the fault-recovery script; the
scenarios of the other scripts, which assert what a gateway answers and keep no
state of their own beyond the validation client's; the client agent, a Go process.
Two tabs do not share state (`sessionStorage` is per tab).

Of the gateway: byte formats, TLS, cryptography, metrics, logs and the C libraries. Out-of-memory
paths. Peer-node sessions, datagrams and datagram channels of the ingress. A reload
(transports are never removed by one). Server-initiated streams. The other
components marked "not_modelled" in `PROJECT.json` are those of the plan below.

## 7. Plan

Done so far: the connection manager, the request path, the WSS clients, the
hand-off rings and the membership table. Next, in
this order, the most important behaviour first:

1. `DirectTransport` (with the pool): resolution, connect, backoff, replica choice,
   generations, `pending_failures`. Refines the connection part of `Exchanges`.
   Properties: every stream of a lost connection is reported once; a close event of
   a replaced connection changes nothing; a transport that can connect eventually
   does; `pending_failures` never overflows.
2. `Swim`: merge rules and timers over a lossy network. Incarnations never go
   back, a live node that is heard is not dead for ever.
3. `Delivery`: fan-out of pushes over workers and nodes, streaming push sessions,
   peer links. Each target once, no other realm, no push session outlives its
   expiry.
4. `WssConnection`, `Shutdown`, `Placement`: smaller state machines, one run each
   or composed with the above.
5. Pure algorithms: the open-addressing tables with back-shift deletion, and the
   reassembly of frames over all splits, each against a reference definition.

Theorems: the safety of `DirectTransport` and of `Swim`, with their modules.

## 8. Running it

```
tlc -config Requests.cfg MCExchanges         # and the other configurations
tlc -config WebPage.cfg MCWebClient
tlapm ExchangesProofs.tla                    # and the other proof modules
```
