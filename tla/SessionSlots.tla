----------------------------- MODULE SessionSlots -----------------------------
(***************************************************************************)
(* The session half of worker/connection.zig's ConnectionManager: a pool   *)
(* of slots of fixed size with a free list threaded through next_free, a   *)
(* generation per slot, the callback index of the raw QUIC transport, the  *)
(* per-realm quota of the pool, and the (realm, dest_id) index whose       *)
(* chains are threaded through next_by_dest.  The group half is GroupIndex;*)
(* ConnectionManager composes the two.                                     *)
(*                                                                         *)
(* A manager is private to one worker thread, so an operation is one step. *)
(* What interleaves is the callers: accept and close events, the backend's *)
(* answers, kicks and group commands all present handles and tokens that   *)
(* were issued earlier, possibly to a session that is gone.                *)
(***************************************************************************)
EXTENDS Quota

CONSTANTS
    MaxConnections,  \* slots in the pool
    DestIds,         \* the identities an auth service hands out (never 0)
    Cnx,             \* raw QUIC connection objects (callback keys)
    GenMod,          \* the generation counter wraps here (2^16 in the code)
    MaxReuse,        \* bound: how often one slot is occupied in a behaviour
    MaxIncarnation   \* bound: how often the process is started

ASSUME SlotsAssumption ==
    /\ MaxConnections \in Nat \ {0}
    /\ DestIds \subseteq Nat \ {0}
    /\ Cnx \subseteq Nat
    /\ GenMod \in Nat \ {0}
    /\ MaxReuse \in Nat
    /\ MaxIncarnation \in Nat \ {0}

Slots == 0 .. MaxConnections - 1

Nil == -1            \* the null of an optional index or key

SlotOrNil == Slots \cup {Nil}

Keys == Realms \X DestIds

VARIABLES
    slots,           \* the slot array; dest_id 0 means "not addressable"
    free_head,       \* head of the free list
    live,            \* number of slots in use
    callback_index,  \* raw QUIC connection -> slot
    dest_index,      \* (realm, dest_id) -> head of the chain
    conn_quota,      \* per-realm occupancy of the pool
    incarnation,     \* identity of this run of the process
    occupancy        \* history: how often each slot was occupied so far

slotVars ==
    <<slots, free_head, live, callback_index, dest_index, conn_quota,
      incarnation, occupancy>>

Slot == [in_use       : BOOLEAN,
         generation   : 0 .. GenMod - 1,
         realm        : Realms \cup {Nil},
         cnx          : Cnx \cup {Nil},
         dest_id      : DestIds \cup {0},
         next_free    : SlotOrNil,
         next_by_dest : SlotOrNil]

SlotsTypeOK ==
    /\ slots \in [Slots -> Slot]
    /\ free_head \in SlotOrNil
    /\ live \in Int
    /\ callback_index \in [Cnx -> SlotOrNil]
    /\ dest_index \in [Keys -> SlotOrNil]
    /\ conn_quota \in QuotaType
    /\ incarnation \in 1 .. MaxIncarnation
    /\ occupancy \in [Slots -> 0 .. MaxReuse]

-------------------------------------------------------------------------------
(* ConnectionManager.init: the free list runs through the slots in order.  *)

FreshSlots ==
    [s \in Slots |->
        [in_use |-> FALSE, generation |-> 0, realm |-> Nil, cnx |-> Nil,
         dest_id |-> 0,
         next_free |-> IF s + 1 < MaxConnections THEN s + 1 ELSE Nil,
         next_by_dest |-> Nil]]

SlotsInit ==
    /\ slots = FreshSlots
    /\ free_head = 0
    /\ live = 0
    /\ callback_index = [c \in Cnx |-> Nil]
    /\ dest_index = [k \in Keys |-> Nil]
    /\ conn_quota = EmptyQuota
    /\ incarnation = 1
    /\ occupancy = [s \in Slots |-> 0]

(* The process dies with every session and starts again: a new manager     *)
(* with a new random incarnation (taken to be fresh).                      *)
Restart ==
    /\ incarnation < MaxIncarnation
    /\ incarnation' = incarnation + 1
    /\ slots' = FreshSlots
    /\ free_head' = 0
    /\ live' = 0
    /\ callback_index' = [c \in Cnx |-> Nil]
    /\ dest_index' = [k \in Keys |-> Nil]
    /\ conn_quota' = EmptyQuota
    /\ occupancy' = [s \in Slots |-> 0]

-------------------------------------------------------------------------------
(* Handles and tokens.  A handle names a slot and a generation, a token    *)
(* adds the incarnation (node and worker are those of this manager).       *)

Handles == [slot : Slots, generation : 0 .. GenMod - 1]

(* slotFor / getByHandle *)
ValidHandle(h) ==
    /\ slots[h.slot].in_use
    /\ slots[h.slot].generation = h.generation

(* byToken *)
Mut_AnyIncarnation(i, h) ==
    slots[h.slot].in_use /\ slots[h.slot].generation = h.generation

ValidToken(i, h) ==
    /\ i = incarnation
    /\ slots[h.slot].in_use
    /\ slots[h.slot].generation = h.generation

HandleOf(s) == [slot |-> s, generation |-> slots[s].generation]

-------------------------------------------------------------------------------
(* addSession.  cnx is the callback key of a raw QUIC session, Nil for a   *)
(* WSS session.  A connection object is registered once: its ready event   *)
(* comes once, and its memory is reused only after its close event.        *)

(* generation +%= 1 on a u16 *)
Mut_GenerationUnwrapped(g) == g + 1
NextGeneration(g) == (g + 1) % GenMod

CanAdd(realm) ==
    /\ free_head # Nil
    /\ Allows(conn_quota, MaxConnections, realm)

AddSession(realm, cnx) ==
    LET s == free_head IN
    /\ CanAdd(realm)
    /\ cnx # Nil => callback_index[cnx] = Nil
    /\ occupancy[s] < MaxReuse
    /\ free_head' = slots[s].next_free
    /\ slots' = [slots EXCEPT ![s] =
                    [in_use       |-> TRUE,
                     generation   |-> NextGeneration(slots[s].generation),
                     realm        |-> realm,
                     cnx          |-> cnx,
                     dest_id      |-> 0,
                     next_free    |-> Nil,
                     next_by_dest |-> Nil]]
    /\ callback_index' = IF cnx = Nil THEN callback_index
                         ELSE [callback_index EXCEPT ![cnx] = s]
    /\ conn_quota' = Acquire(conn_quota, realm)
    /\ live' = live + 1
    /\ occupancy' = [occupancy EXCEPT ![s] = @ + 1]
    /\ UNCHANGED <<dest_index, incarnation>>

-------------------------------------------------------------------------------
(* unbindDest: takes slot s out of the chain of its (realm, dest_id).  The *)
(* walk from the head stops at the one slot that points to s.              *)

KeyOf(s) == <<slots[s].realm, slots[s].dest_id>>

PointsTo(p, s) ==
    /\ slots[p].in_use
    /\ slots[p].dest_id # 0
    /\ KeyOf(p) = KeyOf(s)
    /\ slots[p].next_by_dest = s

UnlinkedSlots(s) ==
    LET head == dest_index[KeyOf(s)] IN
    IF slots[s].dest_id = 0 THEN slots
    ELSE [t \in Slots |->
            IF t = s
            THEN [slots[t] EXCEPT
                    !.dest_id = 0,
                    !.next_by_dest = IF head = Nil THEN @ ELSE Nil]
            ELSE IF head \notin {Nil, s} /\ PointsTo(t, s)
                 THEN [slots[t] EXCEPT !.next_by_dest = slots[s].next_by_dest]
                 ELSE slots[t]]

Mut_KeepEmptiedHead(s) ==
    IF /\ slots[s].dest_id # 0
       /\ dest_index[KeyOf(s)] = s
       /\ slots[s].next_by_dest # Nil
    THEN [dest_index EXCEPT ![KeyOf(s)] = slots[s].next_by_dest]
    ELSE dest_index

UnlinkedIndex(s) ==
    IF slots[s].dest_id # 0 /\ dest_index[KeyOf(s)] = s
    THEN [dest_index EXCEPT ![KeyOf(s)] = slots[s].next_by_dest]
    ELSE dest_index

Mut_PushWithoutLink(s) ==
    /\ slots' = [UnlinkedSlots(s) EXCEPT ![s].in_use = FALSE,
                                         ![s].realm = Nil,
                                         ![s].cnx = Nil]
    /\ dest_index' = UnlinkedIndex(s)
    /\ conn_quota' = Release(conn_quota, slots[s].realm)
    /\ free_head' = s
    /\ live' = live - 1

(* releaseSlot, without the groups; a free slot has no context, so its     *)
(* realm and transport are gone.                                           *)
ReleaseSlot(s) ==
    /\ slots' = [UnlinkedSlots(s) EXCEPT ![s].in_use = FALSE,
                                         ![s].realm = Nil,
                                         ![s].cnx = Nil,
                                         ![s].next_free = free_head]
    /\ dest_index' = UnlinkedIndex(s)
    /\ conn_quota' = Release(conn_quota, slots[s].realm)
    /\ free_head' = s
    /\ live' = live - 1

(* callback_index.remove of the session's key, if it has one *)
Mut_KeepCallback(s) == callback_index

Unregistered(s) ==
    IF slots[s].cnx = Nil THEN callback_index
    ELSE [callback_index EXCEPT ![slots[s].cnx] = Nil]

(* removeSession: by handle; a stale handle removes nothing *)
RemoveSession(h) ==
    /\ ValidHandle(h)
    /\ callback_index' = Unregistered(h.slot)
    /\ ReleaseSlot(h.slot)
    /\ UNCHANGED <<incarnation, occupancy>>

(* remove: by raw QUIC connection *)
RemoveRawQuic(cnx) ==
    /\ callback_index[cnx] # Nil
    /\ callback_index' = [callback_index EXCEPT ![cnx] = Nil]
    /\ ReleaseSlot(callback_index[cnx])
    /\ UNCHANGED <<incarnation, occupancy>>

-------------------------------------------------------------------------------
(* bindDest: an authentication binds the identity it was given (0: none);  *)
(* the slot goes to the head of the chain of that identity.                *)

Mut_KeyWithoutRealm(s, dest) == <<CHOOSE r \in Realms : TRUE, dest>>

BindKey(s, dest) == <<slots[s].realm, dest>>

BindDest(h, dest) ==
    LET s == h.slot
        key == BindKey(s, dest)
    IN
    /\ ValidHandle(h)
    /\ slots[s].dest_id # dest
    /\ IF dest = 0
       THEN /\ slots' = UnlinkedSlots(s)
            /\ dest_index' = UnlinkedIndex(s)
       ELSE /\ slots' = [UnlinkedSlots(s) EXCEPT
                            ![s].dest_id = dest,
                            ![s].next_by_dest = dest_index[key]]
            /\ dest_index' = [UnlinkedIndex(s) EXCEPT ![key] = s]
    /\ UNCHANGED <<free_head, live, callback_index, conn_quota,
                   incarnation, occupancy>>

-------------------------------------------------------------------------------
(* What an iterator visits that starts at a head and follows one of the    *)
(* next fields until it is null (DestIterator.next, GroupIterator.next, a  *)
(* free list): the least set that holds the head and the successor of each *)
(* of its members.                                                         *)

Follows(next, head, C) ==
    /\ head # Nil => head \in C
    /\ \A s \in C : next[s] # Nil => next[s] \in C

Walk(next, head) ==
    {s \in DOMAIN next :
        \A C \in SUBSET DOMAIN next : Follows(next, head, C) => s \in C}

NextByDest == [s \in Slots |-> slots[s].next_by_dest]

NextFree == [s \in Slots |-> slots[s].next_free]

(* destConnections *)
DestConnections(realm, dest) ==
    IF dest = 0 THEN {} ELSE Walk(NextByDest, dest_index[<<realm, dest>>])

-------------------------------------------------------------------------------
SlotsNext ==
    \/ Restart
    \/ \E realm \in Realms, cnx \in Cnx \cup {Nil} : AddSession(realm, cnx)
    \/ \E h \in Handles : RemoveSession(h)
    \/ \E cnx \in Cnx : RemoveRawQuic(cnx)
    \/ \E h \in Handles, dest \in DestIds \cup {0} : BindDest(h, dest)

SlotsSpec == SlotsInit /\ [][SlotsNext]_slotVars

-------------------------------------------------------------------------------
(* Properties.                                                             *)

InUse == {s \in Slots : slots[s].in_use}

Issued(i, s, n) ==
    \/ i < incarnation
    \/ i = incarnation /\ n <= occupancy[s]

(* The n-th occupation of slot s in incarnation i was given the generation *)
(* n % 2^16.  Whoever still holds that token reaches that very session or  *)
(* nothing, as long as the slot has been reused less than 2^16 times since *)
(* (byToken, and slotFor for handles of the running process).              *)
StaleTokenMisses ==
    \A i \in 1 .. incarnation, s \in Slots, n \in 1 .. MaxReuse :
        LET h == [slot |-> s, generation |-> n % GenMod] IN
        /\ Issued(i, s, n)
        /\ i = incarnation => occupancy[s] - n < GenMod
        /\ ValidToken(i, h) \/ (i = incarnation /\ ValidHandle(h))
        => i = incarnation /\ n = occupancy[s]

(* The free list holds exactly the free slots, each once: a release never  *)
(* loses a slot and an add never hands out one that is in use (addSession, *)
(* releaseSlot).                                                           *)
FreeListExact ==
    /\ Walk(NextFree, free_head) = Slots \ InUse
    /\ \A s \in Slots \ InUse : s \notin Walk(NextFree, slots[s].next_free)

(* A fan-out to (realm, dest_id) visits every session bound to it, none    *)
(* twice, none of another realm and no slot that was given back            *)
(* (destConnections after any order of bindDest and releaseSlot).          *)
FanOutExact ==
    /\ \A k \in Keys :
          DestConnections(k[1], k[2]) = {s \in InUse : KeyOf(s) = k}
    /\ \A s \in InUse : s \notin Walk(NextByDest, slots[s].next_by_dest)

(* The callback index names exactly the raw QUIC sessions in use, so a     *)
(* picoquic callback never reaches a slot that now serves someone else.    *)
CallbackIndexExact ==
    \A c \in Cnx, s \in Slots :
        callback_index[c] = s <=> s \in InUse /\ slots[s].cnx = c

(* The quota's counters are the real occupancy of the pool: no path of     *)
(* release forgets the realm it took from (acquire in addSession, release  *)
(* in releaseSlot), and live is the number of sessions.                    *)
QuotaExact ==
    /\ live = Cardinality(InUse)
    /\ CountsEntries(conn_quota, InUse, slots)

(* The inductive form of the properties above.  A chain is described by    *)
(* its links instead of by a walk, and a rank that grows along every chain *)
(* excludes cycles that no head reaches.                                   *)

SlotContexts ==
    \A s \in Slots :
        /\ slots[s].generation = occupancy[s] % GenMod
        /\ slots[s].in_use => slots[s].realm \in Realms
        /\ ~slots[s].in_use => /\ slots[s].realm = Nil
                               /\ slots[s].cnx = Nil
                               /\ slots[s].dest_id = 0
                               /\ slots[s].next_by_dest = Nil

FreeLinks ==
    /\ free_head # Nil => ~slots[free_head].in_use
    /\ \A s \in Slots :
          ~slots[s].in_use /\ slots[s].next_free # Nil =>
              /\ ~slots[slots[s].next_free].in_use
              /\ slots[s].next_free # free_head
    /\ \A s, t \in Slots :
          /\ ~slots[s].in_use /\ ~slots[t].in_use
          /\ slots[s].next_free = slots[t].next_free
          /\ slots[s].next_free # Nil
          => s = t

FreeRankedBy(rank) ==
    \A s \in Slots :
        ~slots[s].in_use /\ s # free_head =>
            \E p \in Slots : /\ ~slots[p].in_use
                             /\ slots[p].next_free = s
                             /\ rank[p] < rank[s]

DestLinks ==
    /\ \A k \in Keys :
          dest_index[k] # Nil =>
              /\ slots[dest_index[k]].in_use
              /\ KeyOf(dest_index[k]) = k
              /\ \A p \in Slots : slots[p].next_by_dest # dest_index[k]
    /\ \A p \in Slots :
          slots[p].next_by_dest # Nil =>
              /\ slots[p].in_use /\ slots[p].dest_id # 0
              /\ slots[slots[p].next_by_dest].in_use
              /\ KeyOf(slots[p].next_by_dest) = KeyOf(p)
    /\ \A p, q \in Slots :
          /\ slots[p].next_by_dest = slots[q].next_by_dest
          /\ slots[p].next_by_dest # Nil
          => p = q

DestRankedBy(rank) ==
    \A s \in Slots :
        slots[s].dest_id # 0 /\ dest_index[KeyOf(s)] # s =>
            \E p \in Slots : /\ slots[p].next_by_dest = s
                             /\ rank[p] < rank[s]

(* The inductive invariant of the session slots: typing, contexts, the     *)
(* links and ranks of both chains, the callback index and the accounting   *)
(* (every operation of connection.zig on slots).                           *)
SlotsInv ==
    /\ SlotsTypeOK
    /\ SlotContexts
    /\ FreeLinks
    /\ \E rank \in [Slots -> Nat] : FreeRankedBy(rank)
    /\ DestLinks
    /\ \E rank \in [Slots -> Nat] : DestRankedBy(rank)
    /\ CallbackIndexExact
    /\ QuotaExact
===============================================================================
