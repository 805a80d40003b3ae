------------------------------- MODULE Handoff --------------------------------
(***************************************************************************)
(* The message rings of io/handoff.zig and the worker threads around them. *)
(* A worker hands a message to another worker of the node by pushing it on *)
(* that worker's ring, a bounded queue behind a mutex, and wakes its event *)
(* loop when the ring was empty.  A critical section is one step; what a   *)
(* thread does between two of them is a step of its own, pc says where it  *)
(* stands.  The packet rings are the same, with packets of no realm.       *)
(*                                                                         *)
(* External: the event loop and its Async, which remembers that it was     *)
(* notified until the loop comes to it, and may report an error.           *)
(***************************************************************************)
EXTENDS Quota, Sequences, FiniteSets

CONSTANTS
    Workers,   \* worker threads of the node
    Targets,   \* bound: the workers that are sent to
    Capacity,  \* message_queue_capacity
    MaxSends   \* bound: messages accepted

ASSUME HandoffAssumption ==
    /\ Targets \subseteq Workers
    /\ Capacity \in Nat \ {0}
    /\ MaxSends \in Nat

Message == [realm : Realms, n : Nat]

(* the memory of a slot that was never written *)
NoMessage == [realm |-> -1, n |-> 0]

VARIABLES
    ring,      \* the ring of each worker
    notifier,  \* the ring has the notifier of its worker
    pc,        \* where its thread is
    target,    \* whom it is about to notify; itself when it starts
    running,
    armed,     \* the loop waits for the Async
    signal,    \* the Async has been notified
    shutdown,  \* shutdown_requested
    accepted,  \* history: what was pushed on each ring
    taken,     \* history: what was popped from it
    missed     \* history: workers for whom a wake-up ended in an error

threadVars  == <<running, armed, signal, shutdown>>
historyVars == <<accepted, taken, missed>>
vars == <<ring, notifier, pc, target, threadVars, historyVars>>

Ring == [items : [0 .. Capacity - 1 -> Message \cup {NoMessage}], head : 0 .. Capacity - 1,
         len : 0 .. Capacity, quota : QuotaType]

EmptyRing == [items |-> [i \in 0 .. Capacity - 1 |-> NoMessage], head |-> 0, len |-> 0,
              quota |-> EmptyQuota]

Init ==
    /\ ring = [w \in Workers |-> EmptyRing] /\ notifier = [w \in Workers |-> FALSE]
    /\ pc = [w \in Workers |-> "new"] /\ target = [w \in Workers |-> w]
    /\ running = [w \in Workers |-> FALSE]
    /\ armed = [w \in Workers |-> FALSE] /\ signal = [w \in Workers |-> FALSE]
    /\ shutdown = FALSE
    /\ accepted = [w \in Workers |-> <<>>] /\ taken = [w \in Workers |-> <<>>]
    /\ missed = {}

(***************************************************************************)
(* RingQueue                                                               *)
(***************************************************************************)
Mut_TailUnwrapped(r) == IF r.head + r.len < Capacity THEN r.head + r.len ELSE Capacity - 1
TailOf(r) == (r.head + r.len) % Capacity

(* neither QueueFull nor RealmOverShare *)
Admits(r, realm) == r.len # Capacity /\ Allows(r.quota, Capacity, realm)

Pushed(r, message) ==
    [items |-> [r.items EXCEPT ![TailOf(r)] = message],
     head  |-> r.head,
     len   |-> r.len + 1,
     quota |-> Acquire(r.quota, message.realm)]

Front(r) == r.items[r.head]

Mut_PopKeepsQuota(r) ==
    [items |-> r.items, head |-> (r.head + 1) % Capacity, len |-> r.len - 1, quota |-> r.quota]
Popped(r) ==
    [items |-> r.items,
     head  |-> (r.head + 1) % Capacity,
     len   |-> r.len - 1,
     quota |-> Release(r.quota, Front(r).realm)]

(* a push notifies when the ring was empty, setNotifier when it was not *)
PushNotifies(v) == ring[v].len = 0 /\ notifier[v]
Mut_NoBacklogCheck(w) == FALSE
BacklogNotifies(w) == ring[w].len # 0

(***************************************************************************)
(* A worker starts: setNotifier, the wake-up it owes itself, async.wait    *)
(***************************************************************************)
Register(w) ==
    /\ pc[w] = "new"
    /\ running' = [running EXCEPT ![w] = TRUE]
    /\ notifier' = [notifier EXCEPT ![w] = TRUE]
    /\ pc' = [pc EXCEPT ![w] = IF BacklogNotifies(w) THEN "notifying" ELSE "arming"]
    /\ UNCHANGED <<ring, target, armed, signal, shutdown, historyVars>>

Arm(w) ==
    /\ pc[w] = "arming"
    /\ armed' = [armed EXCEPT ![w] = TRUE]
    /\ pc' = [pc EXCEPT ![w] = "loop"]
    /\ UNCHANGED <<ring, notifier, target, running, signal, shutdown, historyVars>>

(***************************************************************************)
(* Producers                                                               *)
(***************************************************************************)
(* deliver, from a callback of w's own loop; a message that is refused     *)
(* changes nothing                                                         *)
Deliver(w, v, realm) ==
    LET message == [realm |-> realm, n |-> Len(accepted[v]) + 1]
    IN  /\ pc[w] = "loop"
        /\ v # w
        /\ Len(accepted[v]) < MaxSends
        /\ Admits(ring[v], realm)
        /\ ring' = [ring EXCEPT ![v] = Pushed(ring[v], message)]
        /\ accepted' = [accepted EXCEPT ![v] = Append(accepted[v], message)]
        /\ IF PushNotifies(v)
           THEN /\ pc' = [pc EXCEPT ![w] = "notifying"]
                /\ target' = [target EXCEPT ![w] = v]
           ELSE UNCHANGED <<pc, target>>
        /\ UNCHANGED <<notifier, threadVars, taken, missed>>

(* notify, after the mutex has been given back, which the target may not   *)
(* survive: what a call on an Async that was freed does is left out        *)
Notify(w) ==
    LET v == target[w]
    IN  /\ pc[w] = "notifying"
        /\ pc' = [pc EXCEPT ![w] = IF v = w THEN "arming" ELSE "loop"]
        /\ target' = [target EXCEPT ![w] = w]
        /\ \/ /\ pc[v] # "freed"
              /\ signal' = [signal EXCEPT ![v] = TRUE]
              /\ UNCHANGED missed
           \/ /\ pc[v] # "freed"
              /\ missed' = missed \cup {v}
              /\ UNCHANGED signal
           \/ /\ pc[v] = "freed"
              /\ UNCHANGED <<signal, missed>>
        /\ UNCHANGED <<ring, notifier, running, armed, shutdown, accepted, taken>>

(***************************************************************************)
(* The consumer                                                            *)
(***************************************************************************)
Mut_Disarm(w) == FALSE
Rearms(w) == running[w]

(* messageCallback; an error of the Async ends it before the ring is read *)
MessageCallback(w) ==
    /\ pc[w] = "loop" /\ armed[w] /\ signal[w]
    /\ signal' = [signal EXCEPT ![w] = FALSE]
    /\ \/ /\ pc' = [pc EXCEPT ![w] = "draining"]
          /\ armed' = [armed EXCEPT ![w] = FALSE]
          /\ UNCHANGED missed
       \/ /\ missed' = missed \cup {w}
          /\ armed' = [armed EXCEPT ![w] = Rearms(w)]
          /\ UNCHANGED pc
    /\ UNCHANGED <<ring, notifier, target, running, shutdown, accepted, taken>>

(* one pop; the callback ends when there is nothing left *)
Drain(w) ==
    /\ pc[w] = "draining"
    /\ \/ /\ ring[w].len # 0
          /\ ring' = [ring EXCEPT ![w] = Popped(ring[w])]
          /\ taken' = [taken EXCEPT ![w] = Append(taken[w], Front(ring[w]))]
          /\ UNCHANGED <<pc, armed>>
       \/ /\ ring[w].len = 0
          /\ pc' = [pc EXCEPT ![w] = "loop"]
          /\ armed' = [armed EXCEPT ![w] = Rearms(w)]
          /\ UNCHANGED <<ring, taken>>
    /\ UNCHANGED <<notifier, target, running, signal, shutdown, accepted, missed>>

(***************************************************************************)
(* The end of a worker                                                     *)
(***************************************************************************)
RequestShutdown ==
    /\ ~shutdown
    /\ shutdown' = TRUE
    /\ UNCHANGED <<ring, notifier, pc, target, running, armed, signal, historyVars>>

(* pollShutdown, when its connections are gone or its deadline has passed; *)
(* callbacks that are due may still run before the loop returns            *)
Stop(w) ==
    /\ shutdown
    /\ pc[w] = "loop" /\ running[w]
    /\ running' = [running EXCEPT ![w] = FALSE]
    /\ UNCHANGED <<ring, notifier, pc, target, armed, signal, shutdown, historyVars>>

(* the loop has returned: setNotifier(null) *)
Unhook(w) ==
    /\ pc[w] = "loop" /\ ~running[w]
    /\ notifier' = [notifier EXCEPT ![w] = FALSE]
    /\ pc' = [pc EXCEPT ![w] = "unhooked"]
    /\ UNCHANGED <<ring, target, threadVars, historyVars>>

(* deinit of the worker, and of the Async with it *)
Free(w) ==
    /\ pc[w] = "unhooked"
    /\ pc' = [pc EXCEPT ![w] = "freed"]
    /\ armed' = [armed EXCEPT ![w] = FALSE]
    /\ signal' = [signal EXCEPT ![w] = FALSE]
    /\ UNCHANGED <<ring, notifier, target, running, shutdown, historyVars>>

Next ==
    \/ RequestShutdown
    \/ \E w \in Workers :
          \/ Register(w) \/ Arm(w) \/ Notify(w)
          \/ \E v \in Targets, realm \in Realms : Deliver(w, v, realm)
          \/ MessageCallback(w) \/ Drain(w)
          \/ Stop(w) \/ Unhook(w) \/ Free(w)

(* a thread goes on with what it has begun, and the loop comes round to an *)
(* Async that was notified, whatever other callbacks come in between       *)
Fairness ==
    \A w \in Workers :
        /\ WF_vars(Arm(w)) /\ WF_vars(Notify(w)) /\ WF_vars(Drain(w))
        /\ SF_vars(MessageCallback(w))

Spec == Init /\ [][Next]_vars
FairSpec == Spec /\ Fairness

(***************************************************************************)
(* Properties                                                              *)
(***************************************************************************)
(* the messages in a ring, from its front *)
Contents(r) == [i \in 1 .. r.len |-> r.items[(r.head + i - 1) % Capacity]]

TypeOK ==
    /\ ring \in [Workers -> Ring] /\ notifier \in [Workers -> BOOLEAN]
    /\ pc \in [Workers -> {"new", "notifying", "arming", "loop", "draining", "unhooked", "freed"}]
    /\ target \in [Workers -> Workers]
    /\ running \in [Workers -> BOOLEAN] /\ armed \in [Workers -> BOOLEAN]
    /\ signal \in [Workers -> BOOLEAN] /\ shutdown \in BOOLEAN
    /\ accepted \in [Workers -> Seq(Message)] /\ taken \in [Workers -> Seq(Message)]
    /\ missed \subseteq Workers

(* A ring hands out the messages in the order in which the producers got   *)
(* the lock, each once and none that was not pushed, however often its     *)
(* head and tail have gone round.                                          *)
FifoExact == \A w \in Workers : accepted[w] = taken[w] \o Contents(ring[w])

(* The quota of a ring counts the backlog of each realm and nothing else.  *)
BacklogExact ==
    \A w \in Workers :
        LET r == ring[w]
            Of(realm) == {i \in 1 .. r.len : Contents(r)[i].realm = realm}
        IN  /\ \A realm \in Tracked : r.quota.counts[realm] = Cardinality(Of(realm))
            /\ r.quota.total = Cardinality(UNION {Of(realm) : realm \in Tracked})
            /\ r.quota.active_realms = Cardinality({realm \in Tracked : Of(realm) # {}})

(* somebody will see to it that w reads its ring *)
Awake(w) ==
    \/ signal[w]
    \/ pc[w] = "draining"
    \/ \E t \in Workers : pc[t] = "notifying" /\ target[t] = w

(* w is in its loop, in a callback other than messageCallback or between   *)
(* two                                                                     *)
InLoop(w) == pc[w] = "loop" \/ (pc[w] = "notifying" /\ target[w] # w)

(* No wake-up is lost: a message that waits in the ring of a worker that   *)
(* takes messages has a notification on its way, although only the push on *)
(* an empty ring sends one and it is sent after the lock is given back;    *)
(* and a worker in its loop listens.  An error of the Async is the one way *)
(* to lose it: nothing sends it again before the ring has been empty.      *)
NoLostWakeup ==
    \A w \in Workers :
        /\ (notifier[w] /\ ring[w].len # 0 /\ w \notin missed) => Awake(w)
        /\ (InLoop(w) /\ running[w]) => armed[w]

(* A message that was accepted is taken, unless its worker stops or the    *)
(* Async reports an error.                                                 *)
Delivered ==
    \A v \in Targets, n \in 1 .. MaxSends :
        running[v] /\ Len(accepted[v]) >= n
            ~> Len(taken[v]) >= n \/ ~running[v] \/ v \in missed

===============================================================================
