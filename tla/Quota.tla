-------------------------------- MODULE Quota --------------------------------
(***************************************************************************)
(* foundation/quota.zig: weighted admission of realms to a shared pool of  *)
(* fixed capacity.  The counters live in the pool that uses the quota (the *)
(* session slots, the group edges, the in-flight tables, the receive pool),*)
(* so this module has no state of its own: a quota is a record             *)
(*     counts        : one counter per tracked realm                       *)
(*     total         : the sum of the counters                             *)
(*     active_realms : how many counters are above zero                    *)
(* and the pool calls Allows before it takes a cell, Acquire in the step   *)
(* that takes it and Release in the step that puts it back.                *)
(***************************************************************************)
EXTENDS Integers, FiniteSets

CONSTANTS
    Realms,            \* the realm ids of the configuration (u16)
    MaxTrackedRealms,  \* length of the counter array; larger ids are not tracked
    WatermarkPercent   \* below this fill level nobody is refused

ASSUME QuotaAssumption ==
    /\ Realms \subseteq Nat
    /\ MaxTrackedRealms \in Nat \ {0}
    /\ WatermarkPercent \in 0 .. 100

Tracked == 0 .. MaxTrackedRealms - 1

QuotaType == [counts : [Tracked -> Nat], total : Nat, active_realms : Nat]

EmptyQuota ==
    [counts |-> [r \in Tracked |-> 0], total |-> 0, active_realms |-> 0]

(* @max(active_realms, 1) *)
Claimants(q) == IF q.active_realms > 1 THEN q.active_realms ELSE 1

FairShare(q, capacity) == capacity \div Claimants(q)

Allows(q, capacity, realm) ==
    realm \in Tracked /\ q.total * 100 >= capacity * WatermarkPercent
        => q.counts[realm] < FairShare(q, capacity)

Mut_AcquireNotActive(q, realm) ==
    IF realm \notin Tracked
    THEN q
    ELSE [q EXCEPT !.counts[realm] = @ + 1, !.total = @ + 1]

Acquire(q, realm) ==
    IF realm \notin Tracked
    THEN q
    ELSE [counts        |-> [q.counts EXCEPT ![realm] = @ + 1],
          total         |-> q.total + 1,
          active_realms |-> IF q.counts[realm] = 0 THEN q.active_realms + 1
                                                   ELSE q.active_realms]

(* A release of a realm that holds nothing is a no-op of the release build *)
(* and an assertion failure of the debug build.                            *)
Release(q, realm) ==
    IF realm \notin Tracked \/ q.counts[realm] = 0
    THEN q
    ELSE [counts        |-> [q.counts EXCEPT ![realm] = @ - 1],
          total         |-> q.total - 1,
          active_realms |-> IF q.counts[realm] = 1 THEN q.active_realms - 1
                                                   ELSE q.active_realms]

(* What the pools are held to: the counters are the cells really occupied, *)
(* when the cells of the set present hold the records of entry.            *)
CountsEntries(q, present, entry) ==
    /\ \A r \in Tracked :
          q.counts[r] = Cardinality({h \in present : entry[h].realm = r})
    /\ q.total = Cardinality({h \in present : entry[h].realm \in Tracked})
    /\ q.active_realms = Cardinality({r \in Tracked : q.counts[r] > 0})
===============================================================================
