----------------------- MODULE ConnectionManagerProofs -----------------------
(***************************************************************************)
(* Proofs about the whole connection manager, for pools of every size and  *)
(* every set of realms, identities, groups and connections.  The group     *)
(* index never disturbs the session slots, so what the first part shows of *)
(* the slots holds of the manager.  The group index has an invariant of    *)
(* its own: three lists of edges (free, by group, by session), each        *)
(* described by its links and a rank.  Joining pushes a cell on two lists, *)
(* leaving unlinks it from both, and leaveAllGroups is a loop that ends    *)
(* before the pool is exhausted.  From both invariants follows that the    *)
(* manager implements the directory of SessionDirectory.                   *)
(***************************************************************************)
EXTENDS ConnectionManager, ModularArithmetic, TLAPS, FiniteSetTheorems,
        WellFoundedInduction

(***************************************************************************)
(* The session slots, for pools of every size, every set of realms,        *)
(* identities and connections, and every width of the generation counter.  *)
(* SlotsInv is inductive; the properties of the runs that speak about      *)
(* indexes and counters follow from it.                                    *)
(***************************************************************************)

LEMMA ConstantTypes ==
    /\ Nil \notin Slots /\ Nil \notin Realms /\ Nil \notin Cnx
    /\ 0 \notin DestIds
    /\ IsFiniteSet(Slots) /\ IsFiniteSet(Tracked)
    /\ 0 \in Slots
  <1>1. IsFiniteSet(Slots) /\ IsFiniteSet(Tracked)
    BY FS_Interval, SlotsAssumption, QuotaAssumption DEF Slots, Tracked
  <1> QED
    BY <1>1, SlotsAssumption, QuotaAssumption DEF Slots, Nil

-------------------------------------------------------------------------------
(* The quota keeps its type.                                               *)

LEMMA QuotaTypes ==
    ASSUME NEW q \in QuotaType, NEW r
    PROVE  /\ EmptyQuota \in QuotaType
           /\ Acquire(q, r) \in QuotaType
  <1>1. EmptyQuota \in QuotaType
    BY DEF QuotaType, EmptyQuota
  <1>2. /\ q.counts \in [Tracked -> Nat]
        /\ q.total \in Nat /\ q.active_realms \in Nat
    BY DEF QuotaType
  <1>3. CASE r \notin Tracked
    BY <1>1, <1>3 DEF Acquire
  <1>4. CASE r \in Tracked
    <2>1. [q.counts EXCEPT ![r] = @ + 1] \in [Tracked -> Nat]
      BY <1>2, <1>4
    <2>2. /\ q.total + 1 \in Nat
          /\ (IF q.counts[r] = 0 THEN q.active_realms + 1 ELSE q.active_realms) \in Nat
      BY <1>2
    <2> QED BY <1>1, <1>4, <2>1, <2>2 DEF Acquire, QuotaType
  <1> QED BY <1>3, <1>4

(* A quota that counts a set of cells, when the set gains or loses one.    *)

LEMMA CountsNothing ==
    ASSUME NEW f
    PROVE  CountsEntries(EmptyQuota, {}, f)
  <1>1. /\ \A r \in Tracked : {h \in {} : f[h].realm = r} = {}
        /\ {h \in {} : f[h].realm \in Tracked} = {}
    OBVIOUS
  <1>2. {r \in Tracked : EmptyQuota.counts[r] > 0} = {}
    BY DEF EmptyQuota
  <1> QED BY <1>1, <1>2, FS_EmptySet DEF CountsEntries, EmptyQuota

LEMMA CountsSame ==
    ASSUME NEW q, NEW P, NEW f, NEW g,
           CountsEntries(q, P, f),
           \A h \in P : g[h].realm = f[h].realm
    PROVE  CountsEntries(q, P, g)
  <1>1. \A r \in Tracked : {h \in P : g[h].realm = r} = {h \in P : f[h].realm = r}
    OBVIOUS
  <1>2. {h \in P : g[h].realm \in Tracked} = {h \in P : f[h].realm \in Tracked}
    OBVIOUS
  <1> QED BY <1>1, <1>2 DEF CountsEntries

LEMMA CountsAcquire ==
    ASSUME NEW q \in QuotaType, NEW P, IsFiniteSet(P), NEW x, x \notin P,
           NEW f, NEW g,
           CountsEntries(q, P, f),
           \A h \in P : g[h].realm = f[h].realm
    PROVE  /\ Acquire(q, g[x].realm) \in QuotaType
           /\ CountsEntries(Acquire(q, g[x].realm), P \cup {x}, g)
  <1> DEFINE realm == g[x].realm
             n == Acquire(q, realm)
             Of(r) == {h \in P : f[h].realm = r}
             NewOf(r) == {h \in P \cup {x} : g[h].realm = r}
             All == {h \in P : f[h].realm \in Tracked}
             NewAll == {h \in P \cup {x} : g[h].realm \in Tracked}
             Active == {r \in Tracked : q.counts[r] > 0}
             NewActive == {r \in Tracked : n.counts[r] > 0}
  <1>1. n \in QuotaType
    BY QuotaTypes
  <1>2. /\ \A r \in Tracked : q.counts[r] = Cardinality(Of(r))
        /\ q.total = Cardinality(All)
        /\ q.active_realms = Cardinality(Active)
    BY DEF CountsEntries
  <1>3. \A r : NewOf(r) = IF r = realm THEN Of(r) \cup {x} ELSE Of(r)
    OBVIOUS
  <1>4. /\ \A r : IsFiniteSet(Of(r)) /\ x \notin Of(r)
        /\ IsFiniteSet(All) /\ x \notin All
        /\ IsFiniteSet(Active)
    BY FS_Subset, ConstantTypes
  <1>5. \A r : Cardinality(NewOf(r)) = IF r = realm THEN Cardinality(Of(r)) + 1
                                                    ELSE Cardinality(Of(r))
    <2> HIDE DEF Of, NewOf
    <2> QED BY <1>3, <1>4, FS_AddElement
  <1>6. CASE realm \notin Tracked
    <2>1. n = q
      BY <1>6 DEF Acquire
    <2>2. NewAll = All /\ \A r \in Tracked : NewOf(r) = Of(r)
      BY <1>6
    <2> QED BY <1>1, <1>2, <2>1, <2>2 DEF CountsEntries
  <1>7. CASE realm \in Tracked
    <2>1. /\ n.counts = [q.counts EXCEPT ![realm] = @ + 1]
          /\ n.total = q.total + 1
          /\ n.active_realms = IF q.counts[realm] = 0 THEN q.active_realms + 1
                                                      ELSE q.active_realms
      BY <1>7 DEF Acquire
    <2>2. q.counts \in [Tracked -> Nat]
      BY DEF QuotaType
    <2>3. \A r \in Tracked : n.counts[r] = Cardinality(NewOf(r))
      <3>1. \A r \in Tracked : n.counts[r] =
                IF r = realm THEN q.counts[r] + 1 ELSE q.counts[r]
        BY <1>7, <2>1, <2>2
      <3> HIDE DEF Of, NewOf, n
      <3> QED BY <1>2, <1>5, <3>1
    <2>4. n.total = Cardinality(NewAll)
      <3>1. NewAll = All \cup {x}
        BY <1>7
      <3> HIDE DEF All, NewAll, n
      <3>2. Cardinality(All \cup {x}) = Cardinality(All) + 1
        BY <1>4, FS_AddElement
      <3> QED BY <1>2, <2>1, <3>1, <3>2
    <2>5. n.active_realms = Cardinality(NewActive)
      <3>1. CASE q.counts[realm] = 0
        <4>1. NewActive = Active \cup {realm} /\ realm \notin Active
          BY <3>1, <1>7, <2>1, <2>2
        <4> HIDE DEF Active, NewActive, n
        <4>2. Cardinality(Active \cup {realm}) = Cardinality(Active) + 1
          BY <1>4, <4>1, FS_AddElement
        <4> QED BY <1>2, <2>1, <3>1, <4>1, <4>2
      <3>2. CASE q.counts[realm] # 0
        <4>1. NewActive = Active
          BY <3>2, <1>7, <2>1, <2>2
        <4> HIDE DEF Active, NewActive, n
        <4> QED BY <1>2, <2>1, <3>2, <4>1
      <3> QED BY <3>1, <3>2
    <2> QED BY <1>1, <2>3, <2>4, <2>5 DEF CountsEntries
  <1> QED BY <1>6, <1>7

LEMMA CountsRelease ==
    ASSUME NEW q \in QuotaType, NEW P, IsFiniteSet(P), NEW x \in P, NEW f,
           CountsEntries(q, P, f)
    PROVE  /\ Release(q, f[x].realm) \in QuotaType
           /\ CountsEntries(Release(q, f[x].realm), P \ {x}, f)
  <1> DEFINE realm == f[x].realm
             n == Release(q, realm)
             Of(r) == {h \in P : f[h].realm = r}
             NewOf(r) == {h \in P \ {x} : f[h].realm = r}
             All == {h \in P : f[h].realm \in Tracked}
             NewAll == {h \in P \ {x} : f[h].realm \in Tracked}
             Active == {r \in Tracked : q.counts[r] > 0}
             NewActive == {r \in Tracked : n.counts[r] > 0}
  <1>1. /\ \A r \in Tracked : q.counts[r] = Cardinality(Of(r))
        /\ q.total = Cardinality(All)
        /\ q.active_realms = Cardinality(Active)
    BY DEF CountsEntries
  <1>2. \A r : NewOf(r) = IF r = realm THEN Of(r) \ {x} ELSE Of(r)
    OBVIOUS
  <1>3. /\ \A r : IsFiniteSet(Of(r)) /\ (x \in Of(r) <=> r = realm)
        /\ IsFiniteSet(All)
        /\ IsFiniteSet(Active)
    BY FS_Subset, ConstantTypes
  <1>4. \A r : Cardinality(NewOf(r)) = IF r = realm THEN Cardinality(Of(r)) - 1
                                                    ELSE Cardinality(Of(r))
    <2> HIDE DEF Of, NewOf
    <2> QED BY <1>2, <1>3, FS_RemoveElement
  <1>5. CASE realm \notin Tracked
    <2>1. n = q
      BY <1>5 DEF Release
    <2>2. NewAll = All /\ \A r \in Tracked : NewOf(r) = Of(r)
      BY <1>5
    <2> QED BY <1>1, <2>1, <2>2 DEF CountsEntries
  <1>6. CASE realm \in Tracked
    <2>1. q.counts \in [Tracked -> Nat] /\ q.total \in Nat /\ q.active_realms \in Nat
      BY DEF QuotaType
    <2>2. q.counts[realm] # 0
      <3> HIDE DEF Of
      <3> QED BY <1>1, <1>3, <1>6, FS_EmptySet
    <2>3. /\ n.counts = [q.counts EXCEPT ![realm] = @ - 1]
          /\ n.total = q.total - 1
          /\ n.active_realms = IF q.counts[realm] = 1 THEN q.active_realms - 1
                                                      ELSE q.active_realms
      BY <1>6, <2>2 DEF Release
    <2>4. \A r \in Tracked : n.counts[r] = Cardinality(NewOf(r))
      <3>1. \A r \in Tracked : n.counts[r] =
                IF r = realm THEN q.counts[r] - 1 ELSE q.counts[r]
        BY <1>6, <2>1, <2>3
      <3> HIDE DEF Of, NewOf, n
      <3> QED BY <1>1, <1>4, <3>1
    <2>5. n.total = Cardinality(NewAll) /\ q.total > 0
      <3>1. NewAll = All \ {x} /\ x \in All
        BY <1>6
      <3> HIDE DEF All, NewAll, n
      <3>2. Cardinality(All) # 0
        BY <1>3, <3>1, FS_EmptySet
      <3>3. Cardinality(All \ {x}) = Cardinality(All) - 1
        BY <1>3, <3>1, FS_RemoveElement
      <3> QED BY <1>1, <2>1, <2>3, <3>1, <3>2, <3>3
    <2>6. n.active_realms = Cardinality(NewActive) /\ q.active_realms > 0
      <3>1. realm \in Active
        BY <1>6, <2>1, <2>2
      <3>2. q.active_realms > 0
        <4> HIDE DEF Active
        <4> QED BY <1>1, <1>3, <2>1, <3>1, FS_EmptySet
      <3>3. CASE q.counts[realm] = 1
        <4>1. NewActive = Active \ {realm}
          BY <3>3, <1>6, <2>1, <2>3
        <4> HIDE DEF Active, NewActive, n
        <4> QED BY <1>1, <1>3, <2>3, <3>1, <3>2, <3>3, <4>1, FS_RemoveElement
      <3>4. CASE q.counts[realm] # 1
        <4>1. NewActive = Active
          BY <3>4, <1>6, <2>1, <2>2, <2>3
        <4> HIDE DEF Active, NewActive, n
        <4> QED BY <1>1, <2>3, <3>2, <3>4, <4>1
      <3> QED BY <3>3, <3>4
    <2>7. n \in QuotaType
      BY <1>6, <2>2, <2>5, <2>6 DEF QuotaType, Release
    <2> QED BY <2>4, <2>5, <2>6, <2>7 DEF CountsEntries
  <1> QED BY <1>5, <1>6

-------------------------------------------------------------------------------
(* What each operation does to the fields of the slots.                    *)

LEMMA SlotUpdates ==
    ASSUME NEW r \in Slot, NEW n \in SlotOrNil, NEW m \in SlotOrNil,
           NEW d \in DestIds \cup {0}
    PROVE  /\ [r EXCEPT !.dest_id = d, !.next_by_dest = n] \in Slot
           /\ [r EXCEPT !.next_by_dest = n] \in Slot
           /\ [r EXCEPT !.in_use = FALSE, !.realm = Nil, !.cnx = Nil,
                        !.next_free = m] \in Slot
  BY DEF Slot

LEMMA UnlinkedFields ==
    ASSUME SlotsTypeOK, SlotContexts, NEW s \in Slots
    PROVE  LET u == UnlinkedSlots(s)
               k == KeyOf(s)
           IN
           /\ u \in [Slots -> Slot]
           /\ \A t \in Slots : /\ u[t].in_use = slots[t].in_use
                               /\ u[t].generation = slots[t].generation
                               /\ u[t].realm = slots[t].realm
                               /\ u[t].cnx = slots[t].cnx
                               /\ u[t].next_free = slots[t].next_free
           /\ u[s].dest_id = 0
           /\ \A t \in Slots \ {s} : u[t].dest_id = slots[t].dest_id
  <1> DEFINE u == UnlinkedSlots(s)
             head == dest_index[KeyOf(s)]
  <1>0. slots \in [Slots -> Slot]
    BY DEF SlotsTypeOK
  <1>1. ASSUME NEW t \in Slots, NEW n \in SlotOrNil
        PROVE  /\ [slots[t] EXCEPT !.dest_id = 0, !.next_by_dest = n] \in Slot
               /\ [slots[t] EXCEPT !.next_by_dest = n] \in Slot
    BY <1>0, SlotUpdates
  <1>2. \A t \in Slots : slots[t].next_by_dest \in SlotOrNil
    BY <1>0 DEF Slot
  <1>3. Nil \in SlotOrNil
    BY DEF SlotOrNil
  <1>4. CASE slots[s].dest_id = 0
    BY <1>4, <1>0 DEF UnlinkedSlots
  <1>5. CASE slots[s].dest_id # 0
    <2>1. u = [t \in Slots |->
                IF t = s
                THEN [slots[t] EXCEPT
                        !.dest_id = 0,
                        !.next_by_dest = IF head = Nil THEN @ ELSE Nil]
                ELSE IF head \notin {Nil, s} /\ PointsTo(t, s)
                     THEN [slots[t] EXCEPT !.next_by_dest = slots[s].next_by_dest]
                     ELSE slots[t]]
      BY <1>5 DEF UnlinkedSlots
    <2>2. u[s] = [slots[s] EXCEPT !.dest_id = 0,
                                  !.next_by_dest = IF head = Nil THEN @ ELSE Nil]
      BY <2>1
    <2>3. ASSUME NEW t \in Slots, t # s
          PROVE  \/ u[t] = slots[t]
                 \/ u[t] = [slots[t] EXCEPT !.next_by_dest = slots[s].next_by_dest]
      BY <2>1, <2>3
    <2>4. PICK n \in SlotOrNil :
            u[s] = [slots[s] EXCEPT !.dest_id = 0, !.next_by_dest = n]
      BY <2>2, <1>2, <1>3
    <2>a. DOMAIN u = Slots /\ u = [t \in Slots |-> u[t]]
      BY <2>1
    <2> HIDE DEF u, head
    <2>5. u \in [Slots -> Slot]
      <3>1. u[s] \in Slot
        BY <2>4, <1>1
      <3>2. ASSUME NEW t \in Slots, t # s PROVE u[t] \in Slot
        <4>1. /\ slots[t] \in Slot
              /\ [slots[t] EXCEPT !.next_by_dest = slots[s].next_by_dest] \in Slot
          BY <1>0, <1>1, <1>2
        <4>2. \/ u[t] = slots[t]
              \/ u[t] = [slots[t] EXCEPT !.next_by_dest = slots[s].next_by_dest]
          BY <2>3, <3>2
        <4> QED BY <4>1, <4>2
      <3> QED BY <2>a, <3>1, <3>2
    <2>6. \A t \in Slots : /\ u[t].in_use = slots[t].in_use
                           /\ u[t].generation = slots[t].generation
                           /\ u[t].realm = slots[t].realm
                           /\ u[t].cnx = slots[t].cnx
                           /\ u[t].next_free = slots[t].next_free
      <3>1. ASSUME NEW t \in Slots, t # s
            PROVE  /\ u[t].in_use = slots[t].in_use
                   /\ u[t].generation = slots[t].generation
                   /\ u[t].realm = slots[t].realm
                   /\ u[t].cnx = slots[t].cnx
                   /\ u[t].next_free = slots[t].next_free
        <4>1. slots[t] \in Slot
          BY <1>0
        <4>2. CASE u[t] = slots[t]
          BY <4>2
        <4>3. CASE u[t] = [slots[t] EXCEPT !.next_by_dest = slots[s].next_by_dest]
          BY <4>1, <4>3 DEF Slot
        <4> QED BY <2>3, <3>1, <4>2, <4>3
      <3>2. /\ u[s].in_use = slots[s].in_use
            /\ u[s].generation = slots[s].generation
            /\ u[s].realm = slots[s].realm
            /\ u[s].cnx = slots[s].cnx
            /\ u[s].next_free = slots[s].next_free
        BY <2>4, <1>0 DEF Slot
      <3> QED BY <3>1, <3>2
    <2>7. u[s].dest_id = 0 /\ \A t \in Slots \ {s} : u[t].dest_id = slots[t].dest_id
      BY <2>3, <2>4, <1>0 DEF Slot
    <2> QED BY <2>5, <2>6, <2>7 DEF u
  <1> QED BY <1>4, <1>5

-------------------------------------------------------------------------------
(* A chain whose links grow in rank starts at its head.                    *)

LEMMA LeastElement ==
    ASSUME NEW S, NEW rank \in [S -> Nat], S # {}
    PROVE  \E x \in S : \A y \in S : rank[x] <= rank[y]
  <1> DEFINE V == {rank[x] : x \in S}
  <1>1. V \subseteq Nat /\ V # {}
    OBVIOUS
  <1>2. \E m \in V : \A k \in V : ~(<<k, m>> \in OpToRel(<, Nat))
    <2> HIDE DEF V
    <2> QED BY <1>1, NatLessThanWellFounded, WFMin
  <1>3. PICK m \in V : \A k \in V : ~(<<k, m>> \in OpToRel(<, Nat))
    BY <1>2
  <1>4. \A k \in V : ~(k < m)
    <2> HIDE DEF V
    <2> SUFFICES ASSUME NEW k \in V, k < m PROVE FALSE
      OBVIOUS
    <2>1. k \in Nat /\ m \in Nat
      BY <1>1
    <2>2. <<k, m>> \in OpToRel(<, Nat)
      BY <2>1 DEF OpToRel
    <2> QED BY <1>3, <2>2
  <1>5. PICK x \in S : m = rank[x]
    OBVIOUS
  <1>6. \A y \in S : rank[y] \in V /\ rank[y] \in Nat
    OBVIOUS
  <1> HIDE DEF V
  <1> QED BY <1>4, <1>5, <1>6

LEMMA HeadExists ==
    ASSUME SlotsTypeOK, DestLinks, NEW rank \in [Slots -> Nat], DestRankedBy(rank),
           NEW s \in Slots, slots[s].dest_id # 0, KeyOf(s) \in Keys
    PROVE  dest_index[KeyOf(s)] # Nil
  <1> SUFFICES ASSUME dest_index[KeyOf(s)] = Nil PROVE FALSE
    OBVIOUS
  <1> DEFINE B == {t \in Slots : slots[t].dest_id # 0 /\ KeyOf(t) = KeyOf(s)}
  <1>1. PICK x \in B : \A y \in B : rank[x] <= rank[y]
    <2> DEFINE r == [b \in B |-> rank[b]]
    <2>1. r \in [B -> Nat] /\ B # {}
      OBVIOUS
    <2>2. \E x \in B : \A y \in B : r[x] <= r[y]
      <3> HIDE DEF B, r
      <3> QED BY <2>1, LeastElement
    <2> QED BY <2>2
  <1>2. dest_index[KeyOf(x)] # x
    BY ConstantTypes
  <1>3. PICK p \in Slots : slots[p].next_by_dest = x /\ rank[p] < rank[x]
    BY <1>2 DEF DestRankedBy
  <1>4. slots[p].dest_id # 0 /\ KeyOf(x) = KeyOf(p)
    BY <1>3, ConstantTypes DEF DestLinks
  <1>5. p \in B
    BY <1>4
  <1>6. rank[x] <= rank[p] /\ rank[x] \in Nat /\ rank[p] \in Nat
    BY <1>1, <1>5
  <1> QED BY <1>3, <1>6

(* What unbindDest does to the links, once the invariant holds. *)
LEMMA UnlinkedLinks ==
    ASSUME SlotsInv, NEW s \in Slots
    PROVE  LET u == UnlinkedSlots(s)
               i == UnlinkedIndex(s)
           IN
           /\ u[s].next_by_dest = Nil
           /\ \A t \in Slots \ {s} :
                 u[t].next_by_dest = IF slots[t].next_by_dest = s
                                     THEN slots[s].next_by_dest
                                     ELSE slots[t].next_by_dest
           /\ i \in [Keys -> SlotOrNil]
           /\ \A k \in Keys : i[k] = IF dest_index[k] = s
                                     THEN slots[s].next_by_dest
                                     ELSE dest_index[k]
  <1> DEFINE u == UnlinkedSlots(s)
             i == UnlinkedIndex(s)
  <1>0. /\ slots \in [Slots -> Slot] /\ dest_index \in [Keys -> SlotOrNil]
        /\ slots[s].next_by_dest \in SlotOrNil
        /\ s # Nil
    BY ConstantTypes DEF SlotsInv, SlotsTypeOK, Slot
  <1>1. CASE slots[s].dest_id = 0
    <2>1. slots[s].next_by_dest = Nil
      BY <1>1, <1>0 DEF SlotsInv, DestLinks
    <2>2. \A t \in Slots : slots[t].next_by_dest # s
      BY <1>1, <1>0 DEF SlotsInv, DestLinks, KeyOf
    <2>3. \A k \in Keys : dest_index[k] # s
      BY <1>1, <1>0, ConstantTypes DEF SlotsInv, DestLinks, KeyOf, Keys
    <2> QED BY <1>0, <1>1, <2>1, <2>2, <2>3 DEF UnlinkedSlots, UnlinkedIndex
  <1>2. CASE slots[s].dest_id # 0
    <2>1. KeyOf(s) \in Keys
      BY <1>2, <1>0 DEF SlotsInv, SlotContexts, KeyOf, Keys, Slot
    <2>2. dest_index[KeyOf(s)] # Nil
      BY <1>2, <2>1, HeadExists DEF SlotsInv
    <2>3. \A t \in Slots : slots[t].next_by_dest = s <=> PointsTo(t, s)
      BY <1>0, <1>2 DEF SlotsInv, DestLinks, PointsTo
    <2>4. dest_index[KeyOf(s)] = s => \A t \in Slots : slots[t].next_by_dest # s
      BY <2>1, <1>0 DEF SlotsInv, DestLinks
    <2>5. \A k \in Keys : dest_index[k] = s => k = KeyOf(s)
      BY <1>0 DEF SlotsInv, DestLinks
    <2>6. i \in [Keys -> SlotOrNil] /\ \A k \in Keys : i[k] = IF dest_index[k] = s
                                     THEN slots[s].next_by_dest
                                     ELSE dest_index[k]
      BY <1>0, <1>2, <2>1, <2>5 DEF UnlinkedIndex
    <2>7. u[s].next_by_dest = Nil
      <3>1. u[s] = [slots[s] EXCEPT !.dest_id = 0, !.next_by_dest = Nil]
        BY <1>2, <2>2 DEF UnlinkedSlots
      <3> QED BY <3>1, <1>0 DEF Slot
    <2>8. ASSUME NEW t \in Slots, t # s
          PROVE  u[t].next_by_dest = IF slots[t].next_by_dest = s
                                     THEN slots[s].next_by_dest
                                     ELSE slots[t].next_by_dest
      <3>1. CASE slots[t].next_by_dest = s
        <4>1. u[t] = [slots[t] EXCEPT !.next_by_dest = slots[s].next_by_dest]
          BY <3>1, <1>2, <2>2, <2>3, <2>4, <2>8 DEF UnlinkedSlots
        <4> QED BY <4>1, <3>1, <1>0 DEF Slot
      <3>2. CASE slots[t].next_by_dest # s
        <4>1. u[t] = slots[t]
          BY <3>2, <1>2, <2>3, <2>8 DEF UnlinkedSlots
        <4> QED BY <4>1, <3>2
      <3> QED BY <3>1, <3>2
    <2> QED BY <2>6, <2>7, <2>8
  <1> QED BY <1>1, <1>2

-------------------------------------------------------------------------------
(* The operations, field by field.                                         *)

LEMMA AddFields ==
    ASSUME SlotsInv, NEW realm \in Realms, NEW cnx \in Cnx \cup {Nil},
           AddSession(realm, cnx)
    PROVE  /\ free_head \in Slots
           /\ ~slots[free_head].in_use
           /\ slots' \in [Slots -> Slot]
           /\ \A t \in Slots \ {free_head} : slots'[t] = slots[t]
           /\ slots'[free_head].in_use = TRUE
           /\ slots'[free_head].generation = NextGeneration(slots[free_head].generation)
           /\ slots'[free_head].realm = realm
           /\ slots'[free_head].cnx = cnx
           /\ slots'[free_head].dest_id = 0
           /\ slots'[free_head].next_by_dest = Nil
           /\ free_head' = slots[free_head].next_free
  <1>1. free_head \in Slots /\ ~slots[free_head].in_use
    BY DEF SlotsInv, SlotsTypeOK, SlotOrNil, AddSession, CanAdd, FreeLinks
  <1>2. slots \in [Slots -> Slot] /\ Nil \in SlotOrNil
    BY DEF SlotsInv, SlotsTypeOK, SlotOrNil
  <1>3. NextGeneration(slots[free_head].generation) \in 0 .. GenMod - 1
    BY <1>1, <1>2, SlotsAssumption DEF NextGeneration, Slot
  <1>4. [in_use       |-> TRUE,
         generation   |-> NextGeneration(slots[free_head].generation),
         realm        |-> realm,
         cnx          |-> cnx,
         dest_id      |-> 0,
         next_free    |-> Nil,
         next_by_dest |-> Nil] \in Slot
    BY <1>2, <1>3 DEF Slot
  <1>5. slots' = [slots EXCEPT ![free_head] =
                    [in_use       |-> TRUE,
                     generation   |-> NextGeneration(slots[free_head].generation),
                     realm        |-> realm,
                     cnx          |-> cnx,
                     dest_id      |-> 0,
                     next_free    |-> Nil,
                     next_by_dest |-> Nil]]
    BY DEF AddSession
  <1>6. slots' \in [Slots -> Slot]
    BY <1>2, <1>4, <1>5
  <1>7. free_head' = slots[free_head].next_free
    BY DEF AddSession
  <1> QED BY <1>1, <1>2, <1>5, <1>6, <1>7

LEMMA ReleaseFields ==
    ASSUME SlotsInv, NEW s \in Slots, ReleaseSlot(s)
    PROVE  /\ slots' \in [Slots -> Slot]
           /\ dest_index' \in [Keys -> SlotOrNil]
           /\ \A t \in Slots \ {s} :
                 /\ slots'[t].in_use = slots[t].in_use
                 /\ slots'[t].generation = slots[t].generation
                 /\ slots'[t].realm = slots[t].realm
                 /\ slots'[t].cnx = slots[t].cnx
                 /\ slots'[t].dest_id = slots[t].dest_id
                 /\ slots'[t].next_free = slots[t].next_free
                 /\ slots'[t].next_by_dest = IF slots[t].next_by_dest = s
                                             THEN slots[s].next_by_dest
                                             ELSE slots[t].next_by_dest
           /\ slots'[s].in_use = FALSE
           /\ slots'[s].generation = slots[s].generation
           /\ slots'[s].realm = Nil
           /\ slots'[s].cnx = Nil
           /\ slots'[s].dest_id = 0
           /\ slots'[s].next_free = free_head
           /\ slots'[s].next_by_dest = Nil
           /\ \A k \in Keys : dest_index'[k] = IF dest_index[k] = s
                                              THEN slots[s].next_by_dest
                                              ELSE dest_index[k]
  <1> DEFINE u == UnlinkedSlots(s)
  <1>1. /\ u \in [Slots -> Slot]
        /\ \A t \in Slots : /\ u[t].in_use = slots[t].in_use
                            /\ u[t].generation = slots[t].generation
                            /\ u[t].realm = slots[t].realm
                            /\ u[t].cnx = slots[t].cnx
                            /\ u[t].next_free = slots[t].next_free
        /\ u[s].dest_id = 0
        /\ \A t \in Slots \ {s} : u[t].dest_id = slots[t].dest_id
    BY UnlinkedFields DEF SlotsInv
  <1>2. /\ u[s].next_by_dest = Nil
        /\ \A t \in Slots \ {s} :
              u[t].next_by_dest = IF slots[t].next_by_dest = s
                                  THEN slots[s].next_by_dest
                                  ELSE slots[t].next_by_dest
    BY UnlinkedLinks
  <1>3. /\ dest_index' \in [Keys -> SlotOrNil]
        /\ \A k \in Keys : dest_index'[k] = IF dest_index[k] = s
                                           THEN slots[s].next_by_dest
                                           ELSE dest_index[k]
    BY UnlinkedLinks DEF ReleaseSlot
  <1>4. slots' = [u EXCEPT ![s] = [u[s] EXCEPT !.in_use = FALSE, !.realm = Nil,
                                               !.cnx = Nil, !.next_free = free_head]]
    <2> HIDE DEF u
    <2>1. slots' = [u EXCEPT ![s].in_use = FALSE, ![s].realm = Nil,
                             ![s].cnx = Nil, ![s].next_free = free_head]
      BY DEF ReleaseSlot, u
    <2> QED BY <2>1, <1>1
  <1> HIDE DEF u
  <1>5. free_head \in SlotOrNil
    BY DEF SlotsInv, SlotsTypeOK
  <1>6. [u[s] EXCEPT !.in_use = FALSE, !.realm = Nil,
                     !.cnx = Nil, !.next_free = free_head] \in Slot
    <2>1. u[s] \in Slot
      BY <1>1
    <2> QED BY <2>1, <1>5, SlotUpdates
  <1>7. slots' \in [Slots -> Slot]
    BY <1>1, <1>4, <1>6
  <1>8. \A t \in Slots \ {s} : slots'[t] = u[t]
    BY <1>4, <1>1
  <1>9. slots'[s] = [u[s] EXCEPT !.in_use = FALSE, !.realm = Nil,
                                 !.cnx = Nil, !.next_free = free_head]
    BY <1>4, <1>1
  <1>10. /\ slots'[s].in_use = FALSE
         /\ slots'[s].generation = u[s].generation
         /\ slots'[s].realm = Nil
         /\ slots'[s].cnx = Nil
         /\ slots'[s].dest_id = u[s].dest_id
         /\ slots'[s].next_free = free_head
         /\ slots'[s].next_by_dest = u[s].next_by_dest
    BY <1>9, <1>1 DEF Slot
  <1> QED BY <1>1, <1>2, <1>3, <1>7, <1>8, <1>10

LEMMA BindFields ==
    ASSUME SlotsInv, NEW h \in Handles, NEW dest \in DestIds \cup {0},
           BindDest(h, dest)
    PROVE  LET s == h.slot IN
           /\ s \in Slots /\ slots[s].in_use
           /\ slots' \in [Slots -> Slot]
           /\ dest_index' \in [Keys -> SlotOrNil]
           /\ \A t \in Slots : /\ slots'[t].in_use = slots[t].in_use
                               /\ slots'[t].generation = slots[t].generation
                               /\ slots'[t].realm = slots[t].realm
                               /\ slots'[t].cnx = slots[t].cnx
                               /\ slots'[t].next_free = slots[t].next_free
           /\ slots'[s].dest_id = dest
           /\ \A t \in Slots \ {s} :
                 /\ slots'[t].dest_id = slots[t].dest_id
                 /\ slots'[t].next_by_dest = IF slots[t].next_by_dest = s
                                             THEN slots[s].next_by_dest
                                             ELSE slots[t].next_by_dest
           /\ slots'[s].next_by_dest = IF dest = 0 THEN Nil
                                       ELSE dest_index[<<slots[s].realm, dest>>]
           /\ \A k \in Keys : dest_index'[k] =
                 IF dest # 0 /\ k = <<slots[s].realm, dest>> THEN s
                 ELSE IF dest_index[k] = s THEN slots[s].next_by_dest
                 ELSE dest_index[k]
  <1> DEFINE s == h.slot
             u == UnlinkedSlots(s)
             i == UnlinkedIndex(s)
             key == <<slots[s].realm, dest>>
  <1>0. s \in Slots /\ slots[s].in_use /\ slots[s].realm \in Realms
    BY DEF Handles, BindDest, ValidHandle, SlotsInv, SlotContexts
  <1>1. /\ u \in [Slots -> Slot]
        /\ \A t \in Slots : /\ u[t].in_use = slots[t].in_use
                            /\ u[t].generation = slots[t].generation
                            /\ u[t].realm = slots[t].realm
                            /\ u[t].cnx = slots[t].cnx
                            /\ u[t].next_free = slots[t].next_free
        /\ u[s].dest_id = 0
        /\ \A t \in Slots \ {s} : u[t].dest_id = slots[t].dest_id
    BY <1>0, UnlinkedFields DEF SlotsInv
  <1>2. /\ u[s].next_by_dest = Nil
        /\ \A t \in Slots \ {s} :
              u[t].next_by_dest = IF slots[t].next_by_dest = s
                                  THEN slots[s].next_by_dest
                                  ELSE slots[t].next_by_dest
        /\ i \in [Keys -> SlotOrNil]
        /\ \A k \in Keys : i[k] = IF dest_index[k] = s
                                  THEN slots[s].next_by_dest
                                  ELSE dest_index[k]
    BY <1>0, UnlinkedLinks
  <1>3. CASE dest = 0
    <2>1. slots' = u /\ dest_index' = i
      BY <1>3 DEF BindDest
    <2> HIDE DEF u, i, key
    <2> QED BY <2>1, <1>0, <1>1, <1>2, <1>3
  <1>4. CASE dest # 0
    <2>1. key \in Keys
      BY <1>0, <1>4 DEF Keys
    <2>2. dest_index[key] \in SlotOrNil
      BY <2>1 DEF SlotsInv, SlotsTypeOK
    <2>3. /\ slots' = [u EXCEPT ![s].dest_id = dest, ![s].next_by_dest = dest_index[key]]
          /\ dest_index' = [i EXCEPT ![key] = s]
      BY <1>4 DEF BindDest, BindKey
    <2> HIDE DEF u, i, key
    <2>4. slots' = [u EXCEPT ![s] = [u[s] EXCEPT !.dest_id = dest,
                                                 !.next_by_dest = dest_index[key]]]
      BY <2>3, <1>1, <1>0
    <2> HIDE DEF s
    <2>5. [u[s] EXCEPT !.dest_id = dest, !.next_by_dest = dest_index[key]] \in Slot
      <3>1. u[s] \in Slot
        BY <1>0, <1>1
      <3> QED BY <3>1, <2>2, SlotUpdates
    <2>6. slots' \in [Slots -> Slot]
      BY <2>4, <2>5, <1>1
    <2>7. \A t \in Slots \ {s} : slots'[t] = u[t]
      BY <2>4, <1>1
    <2>8. slots'[s] = [u[s] EXCEPT !.dest_id = dest, !.next_by_dest = dest_index[key]]
      BY <2>4, <1>1, <1>0
    <2>9. /\ slots'[s].in_use = u[s].in_use
          /\ slots'[s].generation = u[s].generation
          /\ slots'[s].realm = u[s].realm
          /\ slots'[s].cnx = u[s].cnx
          /\ slots'[s].dest_id = dest
          /\ slots'[s].next_free = u[s].next_free
          /\ slots'[s].next_by_dest = dest_index[key]
      BY <2>8, <1>1, <1>0 DEF Slot
    <2>10. s \in SlotOrNil
      BY <1>0 DEF SlotOrNil
    <2>11. /\ dest_index' \in [Keys -> SlotOrNil]
           /\ \A k \in Keys : dest_index'[k] = IF k = key THEN s ELSE i[k]
      BY <2>3, <2>10, <1>2
    <2> QED BY <1>0, <1>1, <1>2, <1>4, <2>6, <2>7, <2>9, <2>11 DEF key, s
  <1> QED BY <1>3, <1>4

-------------------------------------------------------------------------------
(* A fresh manager, of a first start or of a restart.                      *)

Fresh ==
    /\ slots = FreshSlots
    /\ free_head = 0
    /\ live = 0
    /\ callback_index = [c \in Cnx |-> Nil]
    /\ dest_index = [k \in Keys |-> Nil]
    /\ conn_quota = EmptyQuota
    /\ incarnation \in 1 .. MaxIncarnation
    /\ occupancy = [s \in Slots |-> 0]

(* ConnectionManager.init establishes the invariant. *)
LEMMA FreshInv == Fresh => SlotsInv
  <1> SUFFICES ASSUME Fresh PROVE SlotsInv
    OBVIOUS
  <1>0. \A s \in Slots :
           /\ slots[s].in_use = FALSE
           /\ slots[s].generation = 0
           /\ slots[s].realm = Nil
           /\ slots[s].cnx = Nil
           /\ slots[s].dest_id = 0
           /\ slots[s].next_free = IF s + 1 < MaxConnections THEN s + 1 ELSE Nil
           /\ slots[s].next_by_dest = Nil
    BY DEF Fresh, FreshSlots
  <1>1. SlotsTypeOK
    <2>1. slots \in [Slots -> Slot]
      BY SlotsAssumption DEF Fresh, FreshSlots, Slot, SlotOrNil, Slots
    <2>2. free_head \in SlotOrNil /\ live \in Int
      BY ConstantTypes DEF Fresh, SlotOrNil
    <2>3. callback_index \in [Cnx -> SlotOrNil] /\ dest_index \in [Keys -> SlotOrNil]
      BY DEF Fresh, SlotOrNil
    <2>4. conn_quota \in QuotaType
      BY QuotaTypes DEF Fresh, EmptyQuota, QuotaType
    <2>5. incarnation \in 1 .. MaxIncarnation /\ occupancy \in [Slots -> 0 .. MaxReuse]
      BY SlotsAssumption DEF Fresh
    <2> QED BY <2>1, <2>2, <2>3, <2>4, <2>5 DEF SlotsTypeOK
  <1>2. SlotContexts
    <2>1. 0 % GenMod = 0
      BY SlotsAssumption
    <2>2. \A s \in Slots : occupancy[s] = 0
      BY DEF Fresh
    <2> QED BY <1>0, <2>1, <2>2 DEF SlotContexts
  <1>3. FreeLinks
    <2>1. free_head = 0 /\ 0 \in Slots
      BY ConstantTypes DEF Fresh
    <2> QED BY <1>0, <2>1, SlotsAssumption DEF FreeLinks, Slots, Nil
  <1>4. \E rank \in [Slots -> Nat] : FreeRankedBy(rank)
    <2> DEFINE rk == [s \in Slots |-> s]
    <2>1. rk \in [Slots -> Nat]
      BY DEF Slots
    <2>2. FreeRankedBy(rk)
      <3> SUFFICES ASSUME NEW s \in Slots, s # free_head
                   PROVE  \E p \in Slots : /\ ~slots[p].in_use
                                           /\ slots[p].next_free = s
                                           /\ rk[p] < rk[s]
        BY DEF FreeRankedBy
      <3>1. s - 1 \in Slots
        BY SlotsAssumption DEF Fresh, Slots
      <3>2. slots[s - 1].next_free = s
        BY <3>1, <1>0, SlotsAssumption DEF Slots
      <3>3. rk[s - 1] < rk[s]
        BY <3>1, SlotsAssumption DEF Slots
      <3> QED BY <1>0, <3>1, <3>2, <3>3
    <2> QED BY <2>1, <2>2
  <1>5. DestLinks
    BY <1>0 DEF DestLinks, Fresh
  <1>6. \E rank \in [Slots -> Nat] : DestRankedBy(rank)
    <2> DEFINE rk == [s \in Slots |-> 0]
    <2>1. rk \in [Slots -> Nat] /\ DestRankedBy(rk)
      BY <1>0 DEF DestRankedBy
    <2> QED BY <2>1
  <1>7. CallbackIndexExact
    BY <1>0, ConstantTypes DEF CallbackIndexExact, InUse, Fresh
  <1>8. QuotaExact
    <2>1. InUse = {}
      BY <1>0 DEF InUse
    <2>2. CountsEntries(conn_quota, InUse, slots)
      BY <2>1, CountsNothing DEF Fresh
    <2> QED BY <2>1, <2>2, FS_EmptySet DEF QuotaExact, Fresh
  <1> QED BY <1>1, <1>2, <1>3, <1>4, <1>5, <1>6, <1>7, <1>8 DEF SlotsInv

-------------------------------------------------------------------------------
(* addSession preserves the invariant.                                     *)

LEMMA AddTypes ==
    ASSUME SlotsInv, NEW realm \in Realms, NEW cnx \in Cnx \cup {Nil},
           AddSession(realm, cnx)
    PROVE  SlotsTypeOK' /\ SlotContexts'
  <1>0. SlotsTypeOK /\ SlotContexts
    BY DEF SlotsInv
  <1>1. /\ free_head \in Slots
        /\ slots' \in [Slots -> Slot]
        /\ \A t \in Slots \ {free_head} : slots'[t] = slots[t]
        /\ slots'[free_head].in_use = TRUE
        /\ slots'[free_head].generation = NextGeneration(slots[free_head].generation)
        /\ slots'[free_head].realm = realm
        /\ free_head' = slots[free_head].next_free
    BY AddFields
  <1>2. free_head' \in SlotOrNil
    BY <1>0, <1>1 DEF SlotsTypeOK, Slot
  <1>3. live' \in Int /\ incarnation' \in 1 .. MaxIncarnation
        /\ dest_index' \in [Keys -> SlotOrNil]
    BY <1>0 DEF SlotsTypeOK, AddSession
  <1>4. callback_index' \in [Cnx -> SlotOrNil]
    BY <1>0, <1>1 DEF SlotsTypeOK, AddSession, SlotOrNil
  <1>5. conn_quota' \in QuotaType
    BY <1>0, QuotaTypes DEF SlotsTypeOK, AddSession
  <1>6. /\ occupancy' = [occupancy EXCEPT ![free_head] = occupancy[free_head] + 1]
        /\ occupancy \in [Slots -> 0 .. MaxReuse]
        /\ occupancy[free_head] < MaxReuse
    BY <1>0 DEF AddSession, SlotsTypeOK
  <1>7. occupancy' \in [Slots -> 0 .. MaxReuse]
    BY <1>1, <1>6, SlotsAssumption
  <1>8. SlotsTypeOK'
    BY <1>1, <1>2, <1>3, <1>4, <1>5, <1>7 DEF SlotsTypeOK
  <1>9. SlotContexts'
    <2>1. slots'[free_head].generation = occupancy'[free_head] % GenMod
      <3>1. slots[free_head].generation = occupancy[free_head] % GenMod
        BY <1>0, <1>1 DEF SlotContexts
      <3>2. occupancy[free_head] \in Nat /\ GenMod \in Nat \ {0}
        BY <1>1, <1>6, SlotsAssumption
      <3>3. ((occupancy[free_head] % GenMod) + 1) % GenMod = (occupancy[free_head] + 1) % GenMod
        BY <3>2, ModSucc
      <3>4. occupancy'[free_head] = occupancy[free_head] + 1
        BY <1>1, <1>6
      <3> QED BY <3>1, <3>3, <3>4, <1>1 DEF NextGeneration
    <2>2. \A t \in Slots \ {free_head} :
            slots'[t] = slots[t] /\ occupancy'[t] = occupancy[t]
      BY <1>1, <1>6
    <2> QED BY <1>0, <1>1, <2>1, <2>2 DEF SlotContexts
  <1> QED BY <1>8, <1>9

LEMMA AddLinks ==
    ASSUME SlotsInv, NEW realm \in Realms, NEW cnx \in Cnx \cup {Nil},
           AddSession(realm, cnx)
    PROVE  /\ FreeLinks' /\ \E rank \in [Slots -> Nat] : FreeRankedBy(rank)'
           /\ DestLinks' /\ \E rank \in [Slots -> Nat] : DestRankedBy(rank)'
           /\ CallbackIndexExact'
  <1> DEFINE f == free_head
  <1>1. /\ f \in Slots
        /\ ~slots[f].in_use
        /\ \A t \in Slots \ {f} : slots'[t] = slots[t]
        /\ slots'[f].in_use = TRUE
        /\ slots'[f].realm = realm
        /\ slots'[f].cnx = cnx
        /\ slots'[f].dest_id = 0
        /\ slots'[f].next_by_dest = Nil
        /\ free_head' = slots[f].next_free
    BY AddFields
  <1>2. /\ slots \in [Slots -> Slot]
        /\ \A t \in Slots : slots[t].next_free \in SlotOrNil
        /\ \A t \in Slots : slots[t].next_by_dest \in SlotOrNil
        /\ dest_index \in [Keys -> SlotOrNil]
        /\ callback_index \in [Cnx -> SlotOrNil]
    BY DEF SlotsInv, SlotsTypeOK, Slot
  <1>3. /\ slots[f].realm = Nil /\ slots[f].dest_id = 0 /\ slots[f].next_by_dest = Nil
    BY <1>1 DEF SlotsInv, SlotContexts
  <1>4. \A t \in Slots : slots'[t].next_by_dest = slots[t].next_by_dest
                         /\ slots'[t].dest_id = slots[t].dest_id
    BY <1>1, <1>3
  <1>5. dest_index' = dest_index
    BY DEF AddSession
  <1>6. FreeLinks'
    BY <1>1, <1>2 DEF FreeLinks, SlotsInv, SlotOrNil
  <1>7. ASSUME NEW rank \in [Slots -> Nat], FreeRankedBy(rank)
        PROVE  FreeRankedBy(rank)'
    <2> SUFFICES ASSUME NEW s \in Slots, ~slots'[s].in_use, s # free_head'
                 PROVE  \E p \in Slots : /\ ~slots'[p].in_use
                                         /\ slots'[p].next_free = s
                                         /\ rank[p] < rank[s]
      BY DEF FreeRankedBy
    <2>1. s # f /\ ~slots[s].in_use
      BY <1>1
    <2>2. PICK p \in Slots : /\ ~slots[p].in_use
                             /\ slots[p].next_free = s
                             /\ rank[p] < rank[s]
      BY <2>1, <1>7 DEF FreeRankedBy
    <2>3. p # f
      BY <2>2, <1>1
    <2> QED BY <2>2, <2>3, <1>1
  <1>8. DestLinks'
    BY <1>1, <1>2, <1>3, <1>4, <1>5 DEF SlotsInv, DestLinks, KeyOf, SlotOrNil
  <1>9. ASSUME NEW rank \in [Slots -> Nat], DestRankedBy(rank)
        PROVE  DestRankedBy(rank)'
    <2> SUFFICES ASSUME NEW s \in Slots, slots'[s].dest_id # 0,
                        dest_index'[<<slots'[s].realm, slots'[s].dest_id>>] # s
                 PROVE  \E p \in Slots : /\ slots'[p].next_by_dest = s
                                         /\ rank[p] < rank[s]
      BY DEF DestRankedBy, KeyOf
    <2>1. s # f /\ slots'[s] = slots[s]
      BY <1>1
    <2> QED BY <2>1, <1>4, <1>5, <1>9 DEF DestRankedBy, KeyOf
  <1>10. CallbackIndexExact'
    <2> SUFFICES ASSUME NEW c \in Cnx, NEW s \in Slots
                 PROVE  callback_index'[c] = s <=> slots'[s].in_use /\ slots'[s].cnx = c
      BY DEF CallbackIndexExact, InUse
    <2>1. callback_index[c] = s <=> slots[s].in_use /\ slots[s].cnx = c
      BY DEF SlotsInv, CallbackIndexExact, InUse
    <2>2. callback_index[c] # f
      BY <1>1 DEF SlotsInv, CallbackIndexExact, InUse
    <2>3. CASE cnx = Nil
      <3>1. callback_index' = callback_index /\ c # Nil
        BY <2>3, ConstantTypes DEF AddSession
      <3> QED BY <3>1, <2>1, <2>2, <2>3, <1>1
    <2>4. CASE cnx # Nil
      <3>1. /\ callback_index' = [callback_index EXCEPT ![cnx] = f]
            /\ callback_index[cnx] = Nil
            /\ cnx \in Cnx /\ s # Nil
        BY <2>4, ConstantTypes DEF AddSession
      <3> QED BY <3>1, <2>1, <2>2, <1>1, <1>2
    <2> QED BY <2>3, <2>4
  <1> QED BY <1>6, <1>7, <1>8, <1>9, <1>10 DEF SlotsInv

(* The accounting of a set that gains one slot. *)
LEMMA AddQuota ==
    ASSUME SlotsInv, NEW realm \in Realms, NEW cnx \in Cnx \cup {Nil},
           AddSession(realm, cnx)
    PROVE  QuotaExact'
  <1> DEFINE f == free_head
  <1>1. /\ f \in Slots /\ ~slots[f].in_use
        /\ \A t \in Slots \ {f} : slots'[t] = slots[t]
        /\ slots'[f].in_use = TRUE
        /\ slots'[f].realm = realm
    BY AddFields
  <1>2. /\ conn_quota \in QuotaType
        /\ conn_quota' = Acquire(conn_quota, slots'[f].realm)
        /\ live' = live + 1
    BY <1>1 DEF SlotsInv, SlotsTypeOK, AddSession
  <1>3. /\ live = Cardinality(InUse)
        /\ CountsEntries(conn_quota, InUse, slots)
    BY DEF SlotsInv, QuotaExact
  <1>4. /\ f \notin InUse /\ InUse' = InUse \cup {f} /\ InUse \subseteq Slots
        /\ \A t \in InUse : slots'[t].realm = slots[t].realm
    BY <1>1 DEF InUse
  <1>5. IsFiniteSet(InUse)
    BY <1>4, ConstantTypes, FS_Subset
  <1>6. live' = Cardinality(InUse')
    BY <1>2, <1>3, <1>4, <1>5, FS_AddElement
  <1>7. CountsEntries(Acquire(conn_quota, slots'[f].realm), InUse \cup {f}, slots')
    BY <1>2, <1>3, <1>4, <1>5, CountsAcquire
  <1> QED BY <1>2, <1>4, <1>6, <1>7 DEF QuotaExact

LEMMA AddInv ==
    ASSUME SlotsInv, NEW realm \in Realms, NEW cnx \in Cnx \cup {Nil},
           AddSession(realm, cnx)
    PROVE  SlotsInv'
  BY AddTypes, AddLinks, AddQuota DEF SlotsInv

-------------------------------------------------------------------------------
(* releaseSlot, called by remove and by removeSession, preserves it.       *)

LEMMA ReleaseQuota ==
    ASSUME SlotsInv, NEW s \in Slots, slots[s].in_use, ReleaseSlot(s)
    PROVE  QuotaExact' /\ conn_quota' \in QuotaType
  <1>1. /\ \A t \in Slots \ {s} : /\ slots'[t].in_use = slots[t].in_use
                                  /\ slots'[t].realm = slots[t].realm
        /\ slots'[s].in_use = FALSE
    BY ReleaseFields
  <1>2. /\ conn_quota \in QuotaType
        /\ conn_quota' = Release(conn_quota, slots[s].realm)
        /\ live' = live - 1
    BY DEF SlotsInv, SlotsTypeOK, ReleaseSlot
  <1>3. /\ live = Cardinality(InUse)
        /\ CountsEntries(conn_quota, InUse, slots)
    BY DEF SlotsInv, QuotaExact
  <1>4. /\ s \in InUse /\ InUse' = InUse \ {s} /\ InUse \subseteq Slots
        /\ \A t \in InUse \ {s} : slots'[t].realm = slots[t].realm
    BY <1>1 DEF InUse
  <1>5. IsFiniteSet(InUse)
    BY <1>4, ConstantTypes, FS_Subset
  <1>6. live' = Cardinality(InUse')
    BY <1>2, <1>3, <1>4, <1>5, FS_RemoveElement
  <1>7. /\ conn_quota' \in QuotaType
        /\ CountsEntries(conn_quota', InUse \ {s}, slots)
    BY <1>2, <1>3, <1>4, <1>5, CountsRelease
  <1>8. CountsEntries(conn_quota', InUse \ {s}, slots')
    BY <1>4, <1>7, CountsSame
  <1> QED BY <1>4, <1>6, <1>7, <1>8 DEF QuotaExact

-------------------------------------------------------------------------------
(* The chains of the identity index, for any slot array and any heads: the *)
(* unlinked ones are an intermediate value of releaseSlot and bindDest.    *)

ChainLinks(sl, ix) ==
    /\ \A k \in Keys :
          ix[k] # Nil =>
              /\ sl[ix[k]].in_use
              /\ <<sl[ix[k]].realm, sl[ix[k]].dest_id>> = k
              /\ \A p \in Slots : sl[p].next_by_dest # ix[k]
    /\ \A p \in Slots :
          sl[p].next_by_dest # Nil =>
              /\ sl[p].in_use /\ sl[p].dest_id # 0
              /\ sl[sl[p].next_by_dest].in_use
              /\ sl[sl[p].next_by_dest].realm = sl[p].realm
              /\ sl[sl[p].next_by_dest].dest_id = sl[p].dest_id
    /\ \A p, q \in Slots :
          /\ sl[p].next_by_dest = sl[q].next_by_dest
          /\ sl[p].next_by_dest # Nil
          => p = q

ChainRanks(sl, ix, rank) ==
    \A s \in Slots :
        sl[s].dest_id # 0 /\ ix[<<sl[s].realm, sl[s].dest_id>>] # s =>
            \E p \in Slots : sl[p].next_by_dest = s /\ rank[p] < rank[s]

LEMMA ChainsAreDest ==
    /\ DestLinks <=> ChainLinks(slots, dest_index)
    /\ \A rank : DestRankedBy(rank) <=> ChainRanks(slots, dest_index, rank)
    /\ DestLinks' <=> ChainLinks(slots', dest_index')
    /\ \A rank : DestRankedBy(rank)' <=> ChainRanks(slots', dest_index', rank)
  <1>1. /\ DestLinks <=> ChainLinks(slots, dest_index)
        /\ DestLinks' <=> ChainLinks(slots', dest_index')
    BY DEF DestLinks, ChainLinks, KeyOf
  <1>2. /\ \A rank : DestRankedBy(rank) <=> ChainRanks(slots, dest_index, rank)
        /\ \A rank : DestRankedBy(rank)' <=> ChainRanks(slots', dest_index', rank)
    BY DEF DestRankedBy, ChainRanks, KeyOf
  <1> QED BY <1>1, <1>2

(* No slot follows itself. *)
LEMMA NoSelfLink ==
    ASSUME SlotsInv, NEW s \in Slots
    PROVE  slots[s].next_by_dest # s
  <1> SUFFICES ASSUME slots[s].next_by_dest = s PROVE FALSE
    OBVIOUS
  <1>0. s # Nil
    BY ConstantTypes
  <1>1. slots[s].dest_id # 0 /\ slots[s].in_use
    BY <1>0 DEF SlotsInv, DestLinks
  <1>2. KeyOf(s) \in Keys
    BY <1>1 DEF SlotsInv, SlotsTypeOK, SlotContexts, KeyOf, Keys, Slot
  <1>3. dest_index[KeyOf(s)] # s
    BY <1>0, <1>2 DEF SlotsInv, DestLinks
  <1>4. PICK rank \in [Slots -> Nat] : DestRankedBy(rank)
    BY DEF SlotsInv
  <1>5. PICK p \in Slots : slots[p].next_by_dest = s /\ rank[p] < rank[s]
    BY <1>1, <1>3, <1>4 DEF DestRankedBy
  <1>6. p = s
    BY <1>0, <1>5 DEF SlotsInv, DestLinks
  <1> QED BY <1>5, <1>6

(* unbindDest keeps the other sessions chained. *)
LEMMA UnlinkedChains ==
    ASSUME SlotsInv, NEW s \in Slots
    PROVE  /\ ChainLinks(UnlinkedSlots(s), UnlinkedIndex(s))
           /\ \A rank \in [Slots -> Nat] :
                 DestRankedBy(rank) => ChainRanks(UnlinkedSlots(s), UnlinkedIndex(s), rank)
  <1> DEFINE u == UnlinkedSlots(s)
             i == UnlinkedIndex(s)
             n == slots[s].next_by_dest
  <1>1. /\ \A t \in Slots : u[t].in_use = slots[t].in_use /\ u[t].realm = slots[t].realm
        /\ u[s].dest_id = 0
        /\ \A t \in Slots \ {s} : u[t].dest_id = slots[t].dest_id
    BY UnlinkedFields DEF SlotsInv
  <1>2. /\ u[s].next_by_dest = Nil
        /\ \A t \in Slots \ {s} :
              u[t].next_by_dest = IF slots[t].next_by_dest = s THEN n
                                  ELSE slots[t].next_by_dest
        /\ \A k \in Keys : i[k] = IF dest_index[k] = s THEN n ELSE dest_index[k]
    BY UnlinkedLinks
  <1>3. ChainLinks(slots, dest_index)
    BY ChainsAreDest DEF SlotsInv
  <1>4. n # s /\ s # Nil /\ n \in SlotOrNil
    BY NoSelfLink, ConstantTypes DEF SlotsInv, SlotsTypeOK, Slot
  <1>5. /\ \A k \in Keys : dest_index[k] \in SlotOrNil
        /\ \A t \in Slots : slots[t].next_by_dest \in SlotOrNil
    BY DEF SlotsInv, SlotsTypeOK, Slot
  <1> HIDE DEF u, i
  <1>6. ASSUME NEW k \in Keys, i[k] # Nil
        PROVE  /\ u[i[k]].in_use
               /\ <<u[i[k]].realm, u[i[k]].dest_id>> = k
               /\ \A p \in Slots : u[p].next_by_dest # i[k]
    <2>1. CASE dest_index[k] = s
      <3>1. i[k] = n /\ n \in Slots
        BY <2>1, <1>2, <1>4, <1>6 DEF SlotOrNil
      <3>2. slots[n].in_use /\ slots[n].realm = slots[s].realm
            /\ slots[n].dest_id = slots[s].dest_id
        BY <3>1, <1>3, <1>6 DEF ChainLinks
      <3>3. <<slots[s].realm, slots[s].dest_id>> = k
            /\ \A p \in Slots : slots[p].next_by_dest # s
        BY <2>1, <1>3, <1>4 DEF ChainLinks
      <3>4. \A p \in Slots : u[p].next_by_dest # n
        BY <3>1, <3>3, <1>2, <1>3, <1>6 DEF ChainLinks
      <3> QED BY <3>1, <3>2, <3>3, <3>4, <1>1, <1>4
    <2>2. CASE dest_index[k] # s
      <3>1. i[k] = dest_index[k] /\ dest_index[k] \in Slots /\ dest_index[k] # Nil
        BY <2>2, <1>2, <1>5, <1>6 DEF SlotOrNil
      <3>2. slots[dest_index[k]].in_use
            /\ <<slots[dest_index[k]].realm, slots[dest_index[k]].dest_id>> = k
            /\ \A p \in Slots : slots[p].next_by_dest # dest_index[k]
        BY <3>1, <1>3 DEF ChainLinks
      <3> QED BY <2>2, <3>1, <3>2, <1>1, <1>2
    <2> QED BY <2>1, <2>2
  <1>7. ASSUME NEW p \in Slots, u[p].next_by_dest # Nil
        PROVE  /\ u[p].in_use /\ u[p].dest_id # 0
               /\ u[u[p].next_by_dest].in_use
               /\ u[u[p].next_by_dest].realm = u[p].realm
               /\ u[u[p].next_by_dest].dest_id = u[p].dest_id
    <2>1. p # s /\ slots[p].next_by_dest # Nil
      BY <1>2, <1>4, <1>7
    <2>2. /\ slots[p].in_use /\ slots[p].dest_id # 0
          /\ slots[slots[p].next_by_dest].in_use
          /\ slots[slots[p].next_by_dest].realm = slots[p].realm
          /\ slots[slots[p].next_by_dest].dest_id = slots[p].dest_id
          /\ slots[p].next_by_dest \in Slots
      BY <2>1, <1>3, <1>5 DEF ChainLinks, SlotOrNil
    <2>3. CASE slots[p].next_by_dest = s
      <3>1. u[p].next_by_dest = n /\ n \in Slots /\ n # Nil
        BY <2>1, <2>3, <1>2, <1>4, <1>7 DEF SlotOrNil
      <3>2. slots[n].in_use /\ slots[n].realm = slots[s].realm
            /\ slots[n].dest_id = slots[s].dest_id
        BY <3>1, <1>3 DEF ChainLinks
      <3> QED BY <2>1, <2>2, <2>3, <3>1, <3>2, <1>1, <1>4
    <2>4. CASE slots[p].next_by_dest # s
      BY <2>1, <2>2, <2>4, <1>1, <1>2
    <2> QED BY <2>3, <2>4
  <1>8. ASSUME NEW p \in Slots, NEW q \in Slots, u[p].next_by_dest = u[q].next_by_dest,
               u[p].next_by_dest # Nil
        PROVE  p = q
    BY <1>2, <1>3, <1>4, <1>8 DEF ChainLinks
  <1>9. ASSUME NEW rank \in [Slots -> Nat], DestRankedBy(rank)
        PROVE  ChainRanks(u, i, rank)
    <2> SUFFICES ASSUME NEW t \in Slots, u[t].dest_id # 0,
                        i[<<u[t].realm, u[t].dest_id>>] # t
                 PROVE  \E p \in Slots : u[p].next_by_dest = t /\ rank[p] < rank[t]
      BY DEF ChainRanks
    <2>0. ChainRanks(slots, dest_index, rank)
      BY <1>9, ChainsAreDest
    <2> DEFINE k == <<slots[t].realm, slots[t].dest_id>>
    <2>1. t # s /\ slots[t].dest_id # 0 /\ i[k] # t
      BY <1>1
    <2>2. k \in Keys
      BY <2>1 DEF SlotsInv, SlotsTypeOK, SlotContexts, Slot, Keys
    <2>3. dest_index[k] # t
      BY <2>1, <2>2, <1>2
    <2>4. PICK p \in Slots : slots[p].next_by_dest = t /\ rank[p] < rank[t]
      BY <2>0, <2>1, <2>3 DEF ChainRanks
    <2>5. CASE p # s
      BY <2>1, <2>4, <2>5, <1>2
    <2>6. CASE p = s
      <3>1. slots[s].dest_id # 0 /\ slots[s].in_use
            /\ slots[s].dest_id = slots[t].dest_id /\ slots[s].realm = slots[t].realm
        BY <2>4, <2>6, <1>3, ConstantTypes DEF ChainLinks
      <3>2. dest_index[k] # s
        BY <2>1, <2>2, <2>4, <2>6, <1>2
      <3>3. PICK q \in Slots : slots[q].next_by_dest = s /\ rank[q] < rank[s]
        BY <3>1, <3>2, <2>0 DEF ChainRanks
      <3>4. q # s /\ rank[q] < rank[t]
        BY <3>3, <2>4, <2>6
      <3>5. u[q].next_by_dest = t
        BY <3>3, <3>4, <2>4, <2>6, <1>2
      <3> QED BY <3>4, <3>5
    <2> QED BY <2>5, <2>6
  <1> QED BY <1>6, <1>7, <1>8, <1>9 DEF ChainLinks, u, i

-------------------------------------------------------------------------------
(* Both ways to release a session preserve the invariant.                  *)

LEMMA ReleaseInv ==
    ASSUME SlotsInv, NEW s \in Slots, slots[s].in_use, ReleaseSlot(s),
           callback_index' = Unregistered(s),
           UNCHANGED <<incarnation, occupancy>>
    PROVE  SlotsInv'
  <1>0. SlotsTypeOK /\ SlotContexts /\ s # Nil
    BY ConstantTypes DEF SlotsInv
  <1>1. /\ slots' \in [Slots -> Slot]
        /\ dest_index' \in [Keys -> SlotOrNil]
        /\ \A t \in Slots \ {s} :
              /\ slots'[t].in_use = slots[t].in_use
              /\ slots'[t].generation = slots[t].generation
              /\ slots'[t].realm = slots[t].realm
              /\ slots'[t].cnx = slots[t].cnx
              /\ slots'[t].dest_id = slots[t].dest_id
              /\ slots'[t].next_free = slots[t].next_free
              /\ slots'[t].next_by_dest = IF slots[t].next_by_dest = s
                                          THEN slots[s].next_by_dest
                                          ELSE slots[t].next_by_dest
        /\ slots'[s].in_use = FALSE
        /\ slots'[s].generation = slots[s].generation
        /\ slots'[s].realm = Nil
        /\ slots'[s].cnx = Nil
        /\ slots'[s].dest_id = 0
        /\ slots'[s].next_free = free_head
        /\ slots'[s].next_by_dest = Nil
    BY ReleaseFields
  <1>2. free_head' = s /\ live' = live - 1 /\ dest_index' = UnlinkedIndex(s)
    BY DEF ReleaseSlot
  <1>3. /\ slots \in [Slots -> Slot] /\ free_head \in SlotOrNil
        /\ \A t \in Slots : slots[t].next_free \in SlotOrNil
        /\ callback_index \in [Cnx -> SlotOrNil]
        /\ slots[s].cnx \in Cnx \cup {Nil}
    BY <1>0 DEF SlotsTypeOK, Slot
  <1>4. QuotaExact' /\ conn_quota' \in QuotaType
    BY ReleaseQuota
  <1>5. SlotsTypeOK'
    <2>1. callback_index' \in [Cnx -> SlotOrNil]
      BY <1>3 DEF Unregistered, SlotOrNil
    <2>2. free_head' \in SlotOrNil /\ live' \in Int
      BY <1>0, <1>2 DEF SlotsTypeOK, SlotOrNil
    <2>3. incarnation' \in 1 .. MaxIncarnation /\ occupancy' \in [Slots -> 0 .. MaxReuse]
      BY <1>0 DEF SlotsTypeOK
    <2> QED BY <1>1, <1>4, <2>1, <2>2, <2>3 DEF SlotsTypeOK
  <1>6. SlotContexts'
    <2>1. \A t \in Slots : ~slots[t].in_use => slots[t].next_by_dest # s
      BY <1>0 DEF SlotContexts
    <2> QED BY <1>0, <1>1, <2>1 DEF SlotContexts
  <1>7. FreeLinks'
    BY <1>0, <1>1, <1>2, <1>3 DEF SlotsInv, FreeLinks, SlotOrNil
  <1>8. \E rank \in [Slots -> Nat] : FreeRankedBy(rank)'
    <2>1. PICK rank \in [Slots -> Nat] : FreeRankedBy(rank)
      BY DEF SlotsInv
    <2> DEFINE rk == [t \in Slots |-> IF t = s THEN 0 ELSE rank[t] + 1]
    <2>2. rk \in [Slots -> Nat]
      OBVIOUS
    <2>3. FreeRankedBy(rk)'
      <3> SUFFICES ASSUME NEW t \in Slots, ~slots'[t].in_use, t # s
                   PROVE  \E p \in Slots : /\ ~slots'[p].in_use
                                           /\ slots'[p].next_free = t
                                           /\ rk[p] < rk[t]
        BY <1>2 DEF FreeRankedBy
      <3>1. CASE t = free_head
        BY <3>1, <1>1
      <3>2. CASE t # free_head
        <4>1. PICK p \in Slots : /\ ~slots[p].in_use
                                 /\ slots[p].next_free = t
                                 /\ rank[p] < rank[t]
          BY <3>2, <2>1, <1>1 DEF FreeRankedBy
        <4>2. p # s
          BY <4>1
        <4> QED BY <4>1, <4>2, <1>1
      <3> QED BY <3>1, <3>2
    <2> QED BY <2>2, <2>3
  <1> DEFINE u == UnlinkedSlots(s)
  <1>9. /\ \A t \in Slots : /\ slots'[t].dest_id = u[t].dest_id
                            /\ slots'[t].next_by_dest = u[t].next_by_dest
        /\ \A t \in Slots \ {s} : /\ slots'[t].in_use = u[t].in_use
                                  /\ slots'[t].realm = u[t].realm
        /\ u[s].dest_id = 0
    <2>1. /\ u[s].dest_id = 0
          /\ \A t \in Slots : u[t].in_use = slots[t].in_use /\ u[t].realm = slots[t].realm
          /\ \A t \in Slots \ {s} : u[t].dest_id = slots[t].dest_id
      BY <1>0, UnlinkedFields
    <2>2. /\ u[s].next_by_dest = Nil
          /\ \A t \in Slots \ {s} :
                u[t].next_by_dest = IF slots[t].next_by_dest = s
                                    THEN slots[s].next_by_dest
                                    ELSE slots[t].next_by_dest
      BY UnlinkedLinks
    <2> HIDE DEF u
    <2> QED BY <1>1, <2>1, <2>2
  <1>10. ChainLinks(u, dest_index')
         /\ \A rank \in [Slots -> Nat] : DestRankedBy(rank) => ChainRanks(u, dest_index', rank)
    BY <1>2, UnlinkedChains
  <1> HIDE DEF u
  <1>11. /\ \A k \in Keys : dest_index'[k] # Nil => dest_index'[k] \in Slots \ {s}
         /\ \A p \in Slots : u[p].next_by_dest # Nil =>
                p # s /\ u[p].next_by_dest \in Slots \ {s}
    <2>1. \A p \in Slots : u[p].next_by_dest \in SlotOrNil
      BY <1>1, <1>9 DEF Slot
    <2> QED BY <1>1, <1>9, <1>10, <2>1, ConstantTypes DEF ChainLinks, SlotOrNil, Keys
  <1>12. DestLinks'
    <2>1. ChainLinks(slots', dest_index')
      BY <1>9, <1>10, <1>11 DEF ChainLinks
    <2> QED BY <2>1, ChainsAreDest
  <1>13. \E rank \in [Slots -> Nat] : DestRankedBy(rank)'
    <2>1. PICK rank \in [Slots -> Nat] : DestRankedBy(rank)
      BY DEF SlotsInv
    <2>2. ChainRanks(slots', dest_index', rank)
      BY <2>1, <1>9, <1>10 DEF ChainRanks
    <2>3. DestRankedBy(rank)'
      BY <2>2, ChainsAreDest
    <2> QED BY <2>3
  <1>14. CallbackIndexExact'
    <2> SUFFICES ASSUME NEW c \in Cnx, NEW t \in Slots
                 PROVE  callback_index'[c] = t <=> slots'[t].in_use /\ slots'[t].cnx = c
      BY DEF CallbackIndexExact, InUse
    <2>1. /\ callback_index[c] = t <=> slots[t].in_use /\ slots[t].cnx = c
          /\ callback_index[c] = s <=> slots[s].in_use /\ slots[s].cnx = c
      BY DEF SlotsInv, CallbackIndexExact, InUse
    <2>2. c # Nil /\ t # Nil
      BY ConstantTypes
    <2>3. CASE slots[s].cnx = Nil
      <3>1. callback_index' = callback_index
        BY <2>3 DEF Unregistered
      <3> QED BY <3>1, <2>1, <2>2, <2>3, <1>1
    <2>4. CASE slots[s].cnx # Nil
      <3>1. callback_index'[c] = IF c = slots[s].cnx THEN Nil ELSE callback_index[c]
        BY <2>4, <1>3 DEF Unregistered
      <3> QED BY <3>1, <2>1, <2>2, <1>1
    <2> QED BY <2>3, <2>4
  <1> QED BY <1>4, <1>5, <1>6, <1>7, <1>8, <1>12, <1>13, <1>14 DEF SlotsInv

LEMMA RemoveInv ==
    ASSUME SlotsInv,
           \/ \E h \in Handles : RemoveSession(h)
           \/ \E cnx \in Cnx : RemoveRawQuic(cnx)
    PROVE  SlotsInv'
  <1>1. ASSUME NEW h \in Handles, RemoveSession(h) PROVE SlotsInv'
    <2>1. h.slot \in Slots /\ slots[h.slot].in_use
      BY <1>1 DEF Handles, RemoveSession, ValidHandle
    <2> QED BY <1>1, <2>1, ReleaseInv DEF RemoveSession
  <1>2. ASSUME NEW cnx \in Cnx, RemoveRawQuic(cnx) PROVE SlotsInv'
    <2> DEFINE s == callback_index[cnx]
    <2>1. s \in Slots
      BY <1>2 DEF SlotsInv, SlotsTypeOK, SlotOrNil, RemoveRawQuic
    <2>2. slots[s].in_use /\ slots[s].cnx = cnx
      BY <2>1 DEF SlotsInv, CallbackIndexExact, InUse
    <2>3. callback_index' = Unregistered(s)
      BY <1>2, <2>2, ConstantTypes DEF RemoveRawQuic, Unregistered
    <2>4. ReleaseSlot(s) /\ UNCHANGED <<incarnation, occupancy>>
      BY <1>2 DEF RemoveRawQuic
    <2> HIDE DEF s
    <2> QED BY <2>1, <2>2, <2>3, <2>4, ReleaseInv
  <1> QED BY <1>1, <1>2

-------------------------------------------------------------------------------
(* bindDest preserves it: the slot leaves its chain and becomes the head   *)
(* of the chain of its new identity.                                       *)

LEMMA BindInv ==
    ASSUME SlotsInv, NEW h \in Handles, NEW dest \in DestIds \cup {0},
           BindDest(h, dest)
    PROVE  SlotsInv'
  <1> DEFINE s == h.slot
             u == UnlinkedSlots(s)
             i == UnlinkedIndex(s)
             key == <<slots[s].realm, dest>>
             first == dest_index[key]
  <1>0. /\ SlotsTypeOK /\ SlotContexts
        /\ slots[s].dest_id # dest
        /\ UNCHANGED <<free_head, live, callback_index, conn_quota, incarnation, occupancy>>
    BY DEF SlotsInv, BindDest
  <1>1. /\ s \in Slots /\ slots[s].in_use
        /\ slots' \in [Slots -> Slot]
        /\ dest_index' \in [Keys -> SlotOrNil]
        /\ \A t \in Slots : /\ slots'[t].in_use = slots[t].in_use
                            /\ slots'[t].generation = slots[t].generation
                            /\ slots'[t].realm = slots[t].realm
                            /\ slots'[t].cnx = slots[t].cnx
                            /\ slots'[t].next_free = slots[t].next_free
        /\ slots'[s].dest_id = dest
        /\ \A t \in Slots \ {s} :
              /\ slots'[t].dest_id = slots[t].dest_id
              /\ slots'[t].next_by_dest = IF slots[t].next_by_dest = s
                                          THEN slots[s].next_by_dest
                                          ELSE slots[t].next_by_dest
        /\ slots'[s].next_by_dest = IF dest = 0 THEN Nil ELSE first
        /\ \A k \in Keys : dest_index'[k] =
              IF dest # 0 /\ k = key THEN s
              ELSE IF dest_index[k] = s THEN slots[s].next_by_dest
              ELSE dest_index[k]
    BY BindFields
  <1>2. /\ \A t \in Slots : u[t].in_use = slots[t].in_use /\ u[t].realm = slots[t].realm
        /\ u[s].dest_id = 0 /\ u[s].next_by_dest = Nil
        /\ \A t \in Slots \ {s} :
              /\ u[t].dest_id = slots'[t].dest_id
              /\ u[t].next_by_dest = slots'[t].next_by_dest
        /\ \A k \in Keys : i[k] = IF dest_index[k] = s THEN slots[s].next_by_dest
                                                      ELSE dest_index[k]
    <2>1. /\ \A t \in Slots : u[t].in_use = slots[t].in_use /\ u[t].realm = slots[t].realm
          /\ u[s].dest_id = 0
          /\ \A t \in Slots \ {s} : u[t].dest_id = slots[t].dest_id
      BY <1>0, <1>1, UnlinkedFields
    <2>2. /\ u[s].next_by_dest = Nil
          /\ \A t \in Slots \ {s} :
                u[t].next_by_dest = IF slots[t].next_by_dest = s
                                    THEN slots[s].next_by_dest
                                    ELSE slots[t].next_by_dest
          /\ \A k \in Keys : i[k] = IF dest_index[k] = s THEN slots[s].next_by_dest
                                                        ELSE dest_index[k]
      BY <1>1, UnlinkedLinks
    <2> HIDE DEF u, i
    <2> QED BY <1>1, <2>1, <2>2
  <1>3. ChainLinks(u, i)
        /\ \A rank \in [Slots -> Nat] : DestRankedBy(rank) => ChainRanks(u, i, rank)
    BY <1>1, UnlinkedChains
  <1>4. s # Nil /\ slots[s].realm \in Realms
    BY <1>0, <1>1, ConstantTypes DEF SlotContexts
  <1>5. dest # 0 => /\ key \in Keys
                    /\ i[key] = first
                    /\ first # s
                    /\ first \in SlotOrNil
    <2> SUFFICES ASSUME dest # 0
                 PROVE  key \in Keys /\ i[key] = first /\ first # s /\ first \in SlotOrNil
      OBVIOUS
    <2>1. key \in Keys
      BY <1>4 DEF Keys
    <2>2. first # s
      BY <2>1, <1>0, <1>4 DEF SlotsInv, DestLinks, KeyOf
    <2> QED BY <1>2, <2>1, <2>2, <1>0 DEF SlotsTypeOK
  <1>6. SlotsTypeOK'
    BY <1>0, <1>1 DEF SlotsTypeOK
  <1>7. SlotContexts'
    <2>1. \A t \in Slots : ~slots[t].in_use => t # s /\ slots[t].next_by_dest # s
      BY <1>0, <1>1, <1>4 DEF SlotContexts
    <2> QED BY <1>0, <1>1, <2>1 DEF SlotContexts
  <1>8. FreeLinks' /\ \E rank \in [Slots -> Nat] : FreeRankedBy(rank)'
    <2>1. FreeLinks'
      BY <1>0, <1>1 DEF SlotsInv, FreeLinks, SlotsTypeOK, SlotOrNil, Slot
    <2>2. PICK rank \in [Slots -> Nat] : FreeRankedBy(rank)
      BY DEF SlotsInv
    <2>3. FreeRankedBy(rank)'
      BY <1>0, <1>1, <2>2 DEF FreeRankedBy
    <2> QED BY <2>1, <2>3
  <1>9. CallbackIndexExact'
    BY <1>0, <1>1 DEF SlotsInv, CallbackIndexExact, InUse
  <1>10. QuotaExact'
    <2>1. InUse' = InUse
      BY <1>1 DEF InUse
    <2>2. \A t \in InUse : slots'[t].realm = slots[t].realm
      BY <1>1 DEF InUse
    <2>3. CountsEntries(conn_quota, InUse, slots')
      BY <2>2, CountsSame DEF SlotsInv, QuotaExact
    <2> QED BY <1>0, <2>1, <2>3 DEF SlotsInv, QuotaExact
  <1>11. CASE dest = 0
    <2>1. slots' = u /\ dest_index' = i
      BY <1>11 DEF BindDest
    <2>2. DestLinks' /\ \A rank \in [Slots -> Nat] : DestRankedBy(rank) => DestRankedBy(rank)'
      BY <2>1, <1>3, ChainsAreDest
    <2> QED BY <2>2, <1>6, <1>7, <1>8, <1>9, <1>10 DEF SlotsInv
  <1>12. CASE dest # 0
    <2> HIDE DEF u, i, first, key
    <2>1. /\ key \in Keys /\ i[key] = first /\ first # s /\ first \in SlotOrNil
          /\ slots'[s].next_by_dest = first
          /\ dest_index'[key] = s
          /\ \A k \in Keys \ {key} : dest_index'[k] = i[k]
      BY <1>1, <1>2, <1>5, <1>12
    <2>2. <<slots'[s].realm, slots'[s].dest_id>> = key
      BY <1>1 DEF key
    <2>3. /\ \A k \in Keys : i[k] # Nil => i[k] \in Slots \ {s}
          /\ \A p \in Slots : u[p].next_by_dest # Nil =>
                p # s /\ u[p].next_by_dest \in Slots \ {s}
      <3>1. \A k \in Keys : i[k] \in SlotOrNil
        BY <1>1, UnlinkedLinks DEF i
      <3>2. \A p \in Slots : u[p].next_by_dest \in SlotOrNil
        BY <1>1, <1>2 DEF Slot, SlotOrNil
      <3> QED BY <1>2, <1>3, <3>1, <3>2, ConstantTypes DEF ChainLinks, SlotOrNil, Keys
    <2>4. /\ \A t \in Slots : slots'[t].in_use = u[t].in_use /\ slots'[t].realm = u[t].realm
          /\ \A t \in Slots \ {s} : /\ slots'[t].dest_id = u[t].dest_id
                                    /\ slots'[t].next_by_dest = u[t].next_by_dest
      BY <1>1, <1>2
    <2>5. s \in Slots /\ s # Nil /\ slots'[s].in_use /\ slots'[s].dest_id = dest
      BY <1>1, <1>4
    <2> HIDE DEF s
    <2>6. ChainLinks(slots', dest_index')
      <3>1. ASSUME NEW k \in Keys, dest_index'[k] # Nil
            PROVE  /\ slots'[dest_index'[k]].in_use
                   /\ <<slots'[dest_index'[k]].realm, slots'[dest_index'[k]].dest_id>> = k
                   /\ \A p \in Slots : slots'[p].next_by_dest # dest_index'[k]
        <4>1. CASE k = key
          BY <4>1, <2>1, <2>2, <2>3, <2>4, <2>5
        <4>2. CASE k # key
          <5>1. dest_index'[k] = i[k] /\ i[k] \in Slots \ {s}
            BY <4>2, <3>1, <2>1, <2>3
          <5>2. u[i[k]].in_use /\ <<u[i[k]].realm, u[i[k]].dest_id>> = k
                /\ \A p \in Slots : u[p].next_by_dest # i[k]
            BY <5>1, <3>1, <1>3 DEF ChainLinks
          <5>3. first # i[k]
            BY <5>2, <4>2, <2>1, <1>3, <5>1, <3>1 DEF ChainLinks
          <5> QED BY <5>1, <5>2, <5>3, <2>1, <2>4
        <4> QED BY <4>1, <4>2
      <3>2. ASSUME NEW p \in Slots, slots'[p].next_by_dest # Nil
            PROVE  /\ slots'[p].in_use /\ slots'[p].dest_id # 0
                   /\ slots'[slots'[p].next_by_dest].in_use
                   /\ slots'[slots'[p].next_by_dest].realm = slots'[p].realm
                   /\ slots'[slots'[p].next_by_dest].dest_id = slots'[p].dest_id
        <4>1. CASE p = s
          <5>1. first # Nil /\ first \in Slots \ {s}
            BY <4>1, <3>2, <2>1, <2>3
          <5>2. u[first].in_use /\ <<u[first].realm, u[first].dest_id>> = key
            BY <5>1, <2>1, <1>3 DEF ChainLinks
          <5> QED BY <4>1, <5>1, <5>2, <2>1, <2>2, <2>4, <2>5, <1>12
        <4>2. CASE p # s
          <5>1. slots'[p].next_by_dest = u[p].next_by_dest
            BY <4>2, <2>4
          <5> QED BY <4>2, <5>1, <3>2, <2>3, <2>4, <1>3 DEF ChainLinks
        <4> QED BY <4>1, <4>2
      <3>3. ASSUME NEW p \in Slots, NEW q \in Slots,
                   slots'[p].next_by_dest = slots'[q].next_by_dest,
                   slots'[p].next_by_dest # Nil
            PROVE  p = q
        <4>1. \A t \in Slots \ {s} : first # Nil => u[t].next_by_dest # first
          BY <2>1, <1>3 DEF ChainLinks
        <4> QED BY <4>1, <3>3, <2>1, <2>4, <1>3 DEF ChainLinks
      <3> QED BY <3>1, <3>2, <3>3 DEF ChainLinks
    <2>7. PICK rank \in [Slots -> Nat] : ChainRanks(u, i, rank)
      BY <1>3 DEF SlotsInv
    <2> DEFINE rk == [t \in Slots |-> IF t = s THEN 0 ELSE rank[t] + 1]
    <2>8. rk \in [Slots -> Nat]
      OBVIOUS
    <2>9. ChainRanks(slots', dest_index', rk)
      <3> SUFFICES ASSUME NEW t \in Slots, slots'[t].dest_id # 0,
                          dest_index'[<<slots'[t].realm, slots'[t].dest_id>>] # t
                   PROVE  \E p \in Slots : slots'[p].next_by_dest = t /\ rk[p] < rk[t]
        BY DEF ChainRanks
      <3> DEFINE k == <<u[t].realm, u[t].dest_id>>
      <3>1. t # s
        BY <2>1, <2>2
      <3>2. u[t].dest_id # 0 /\ dest_index'[k] # t
        BY <3>1, <2>4
      <3>3. CASE i[k] = t
        <4>1. k \in Keys
          <5>1. slots'[t].in_use /\ slots'[t] \in Slot
            BY <1>1, <1>7, <3>2, <2>4, <3>1 DEF SlotContexts
          <5>2. slots'[t].realm \in Realms /\ slots'[t].dest_id \in DestIds
            BY <5>1, <1>7 DEF SlotContexts, Slot
          <5> QED BY <5>2, <3>1, <2>4 DEF Keys
        <4>2. k = key
          BY <4>1, <3>2, <3>3, <2>1
        <4> QED BY <4>2, <3>1, <3>3, <2>1, <2>5
      <3>4. CASE i[k] # t
        <4>1. PICK p \in Slots : u[p].next_by_dest = t /\ rank[p] < rank[t]
          BY <3>2, <3>4, <2>7 DEF ChainRanks
        <4>2. p # s
          BY <4>1, <2>3, ConstantTypes
        <4> QED BY <4>1, <4>2, <3>1, <2>4
      <3> QED BY <3>3, <3>4
    <2>10. DestLinks' /\ DestRankedBy(rk)'
      BY <2>6, <2>9, ChainsAreDest
    <2> HIDE DEF rk
    <2> QED BY <2>8, <2>10, <1>6, <1>7, <1>8, <1>9, <1>10 DEF SlotsInv
  <1> QED BY <1>11, <1>12

-------------------------------------------------------------------------------
(* The invariant, and what follows from it.                                *)

LEMMA RestartFresh == SlotsInv /\ Restart => Fresh'
  BY SlotsAssumption DEF SlotsInv, SlotsTypeOK, Restart, Fresh

LEMMA StepInv == SlotsInv /\ [SlotsNext]_slotVars => SlotsInv'
  <1> SUFFICES ASSUME SlotsInv, [SlotsNext]_slotVars PROVE SlotsInv'
    OBVIOUS
  <1>1. CASE Restart
    <2>1. Fresh'
      BY <1>1, RestartFresh
    <2>2. Fresh' => SlotsInv'
      BY FreshInv, PTL
    <2> QED BY <2>1, <2>2
  <1>2. ASSUME NEW realm \in Realms, NEW cnx \in Cnx \cup {Nil}, AddSession(realm, cnx)
        PROVE  SlotsInv'
    BY <1>2, AddInv
  <1>3. CASE \E h \in Handles : RemoveSession(h)
    BY <1>3, RemoveInv
  <1>4. CASE \E cnx \in Cnx : RemoveRawQuic(cnx)
    BY <1>4, RemoveInv
  <1>5. ASSUME NEW h \in Handles, NEW dest \in DestIds \cup {0}, BindDest(h, dest)
        PROVE  SlotsInv'
    BY <1>5, BindInv
  <1>6. CASE UNCHANGED slotVars
    BY <1>6 DEF slotVars, SlotsInv, SlotsTypeOK, SlotContexts, FreeLinks, FreeRankedBy,
                DestLinks, DestRankedBy, KeyOf, CallbackIndexExact, QuotaExact, CountsEntries,
                InUse
  <1> QED BY <1>1, <1>2, <1>3, <1>4, <1>5, <1>6 DEF SlotsNext

(* Every reachable state of the session slots satisfies the inductive      *)
(* invariant, whatever the size of the pool and of the sets of realms,     *)
(* identities and connections (all operations of connection.zig on slots). *)
THEOREM SlotsInvariant == SlotsSpec => []SlotsInv
  <1>1. SlotsInit => SlotsInv
    <2>1. SlotsInit => Fresh
      BY SlotsAssumption DEF SlotsInit, Fresh
    <2> QED BY <2>1, FreshInv
  <1> QED BY <1>1, StepInv, PTL DEF SlotsSpec

(* The slots, links, indexes, counters and generations keep their types;   *)
(* in particular the generation stays within its 16 bits.                  *)
THEOREM SlotsTyped == SlotsSpec => []SlotsTypeOK
  <1>1. SlotsInv => SlotsTypeOK
    BY DEF SlotsInv
  <1> QED BY <1>1, SlotsInvariant, PTL

(* The callback index of the raw QUIC transport names exactly the raw QUIC *)
(* sessions in use (addSession, remove, removeSession).                    *)
THEOREM CallbackIndexCorrect == SlotsSpec => []CallbackIndexExact
  <1>1. SlotsInv => CallbackIndexExact
    BY DEF SlotsInv
  <1> QED BY <1>1, SlotsInvariant, PTL

(* The quota counts the sessions that really are in the pool, per realm    *)
(* and in total (acquire in addSession, release in releaseSlot).           *)
THEOREM QuotaCorrect == SlotsSpec => []QuotaExact
  <1>1. SlotsInv => QuotaExact
    BY DEF SlotsInv
  <1> QED BY <1>1, SlotsInvariant, PTL

LEMMA StaleMisses == SlotsInv => StaleTokenMisses
  <1> SUFFICES ASSUME SlotsInv, NEW i \in 1 .. incarnation, NEW s \in Slots,
                      NEW n \in 1 .. MaxReuse, Issued(i, s, n),
                      i = incarnation => occupancy[s] - n < GenMod,
                      i = incarnation, slots[s].generation = n % GenMod
               PROVE  n = occupancy[s]
    BY DEF StaleTokenMisses, ValidToken, ValidHandle
  <1>1. occupancy[s] \in Nat /\ n \in Nat /\ GenMod \in Nat \ {0}
    BY SlotsAssumption DEF SlotsInv, SlotsTypeOK
  <1>2. n <= occupancy[s] /\ occupancy[s] - n < GenMod
    BY <1>1, SlotsAssumption DEF Issued, SlotsInv, SlotsTypeOK
  <1>3. n % GenMod = occupancy[s] % GenMod
    BY DEF SlotsInv, SlotContexts
  <1> QED BY <1>1, <1>2, <1>3, ModEqual

(* A token of a session that is gone reaches nobody until its slot has     *)
(* been reused 2^16 times (byToken and slotFor in connection.zig).         *)
THEOREM StaleTokensMiss == SlotsSpec => []StaleTokenMisses
  BY StaleMisses, SlotsInvariant, PTL

-------------------------------------------------------------------------------
(* What the iterators visit.  A chain is a set of cells with a head, links *)
(* that stay inside it, at most one link into each cell and none into the  *)
(* head, and a rank that some predecessor of each other cell undercuts:    *)
(* following it meets the whole set, and no cell twice.                    *)

Chain(next, head, S, rank) ==
    /\ head # Nil => head \in S
    /\ \A s \in S : next[s] # Nil => next[s] \in S /\ next[s] # head
    /\ \A s \in S \ {head} : \E p \in S : next[p] = s /\ rank[p] < rank[s]
    /\ \A p, q \in S : next[p] = next[q] /\ next[p] # Nil => p = q

LEMMA WalkIsChain ==
    ASSUME NEW next, Nil \notin DOMAIN next, NEW head,
           NEW S \in SUBSET DOMAIN next, NEW rank \in [S -> Nat],
           Chain(next, head, S, rank)
    PROVE  /\ Walk(next, head) = S
           /\ \A s \in S : s \notin Walk(next, next[s])
  <1>0. S \subseteq DOMAIN next
    OBVIOUS
  <1>1. Walk(next, head) \subseteq S
    <2>1. Follows(next, head, S)
      BY DEF Follows, Chain
    <2> QED BY <1>0, <2>1 DEF Walk
  <1>2. ASSUME NEW C \in SUBSET DOMAIN next, Follows(next, head, C) PROVE S \subseteq C
    <2> SUFFICES ASSUME S \ C # {} PROVE FALSE
      OBVIOUS
    <2> DEFINE B == S \ C
               r == [b \in B |-> rank[b]]
    <2>1. r \in [B -> Nat] /\ B # {}
      OBVIOUS
    <2>2. \E x \in B : \A y \in B : r[x] <= r[y]
      <3> HIDE DEF B, r
      <3> QED BY <2>1, LeastElement
    <2>3. PICK x \in B : \A y \in B : rank[x] <= rank[y]
      BY <2>2
    <2>4. x \in S /\ x \notin C /\ x # Nil
      BY <2>3, <1>0
    <2>5. x # head
      BY <2>4, <1>2 DEF Follows
    <2>6. PICK p \in S : next[p] = x /\ rank[p] < rank[x]
      BY <2>4, <2>5 DEF Chain
    <2>7. p \notin C
      BY <2>4, <2>6, <1>2 DEF Follows
    <2>8. rank[x] <= rank[p] /\ rank[x] \in Nat /\ rank[p] \in Nat
      BY <2>3, <2>6, <2>7
    <2> QED BY <2>6, <2>8
  <1>3. S \subseteq Walk(next, head)
    BY <1>0, <1>2 DEF Walk
  <1>4. ASSUME NEW s \in S PROVE s \notin Walk(next, next[s])
    <2> DEFINE C == {t \in S : rank[t] > rank[s]}
    <2>1. \A p \in S : next[p] # Nil => next[p] \in S /\ rank[next[p]] > rank[p]
      <3> SUFFICES ASSUME NEW p \in S, next[p] # Nil
                   PROVE  next[p] \in S /\ rank[next[p]] > rank[p]
        OBVIOUS
      <3>1. next[p] \in S \ {head}
        BY DEF Chain
      <3>2. PICK q \in S : next[q] = next[p] /\ rank[q] < rank[next[p]]
        BY <3>1 DEF Chain
      <3>3. q = p
        BY <3>2 DEF Chain
      <3> QED BY <3>1, <3>2, <3>3
    <2>2. \A t \in S : rank[t] \in Nat
      OBVIOUS
    <2>3. C \in SUBSET DOMAIN next /\ s \notin C
      BY <2>2
    <2>4. Follows(next, next[s], C)
      BY <2>1, <2>2 DEF Follows
    <2> HIDE DEF C
    <2> QED BY <2>3, <2>4 DEF Walk
  <1> QED BY <1>1, <1>3, <1>4

LEMMA FreeListIsChain == SlotsInv => FreeListExact
  <1> SUFFICES ASSUME SlotsInv PROVE FreeListExact
    OBVIOUS
  <1> DEFINE S == Slots \ InUse
  <1>1. PICK rank \in [Slots -> Nat] : FreeRankedBy(rank)
    BY DEF SlotsInv
  <1>2. /\ free_head \in SlotOrNil
        /\ \A s \in Slots : slots[s].next_free \in SlotOrNil
    BY DEF SlotsInv, SlotsTypeOK, Slot
  <1>3. Chain(NextFree, free_head, S, rank)
    <2>1. \A s \in Slots : NextFree[s] = slots[s].next_free
      BY DEF NextFree
    <2>2. \A s \in S : s \in Slots /\ ~slots[s].in_use
      BY DEF InUse
    <2>3. \A s \in Slots : ~slots[s].in_use => s \in S
      BY DEF InUse
    <2>4. free_head # Nil => free_head \in S
      BY <1>2, <2>3 DEF SlotsInv, FreeLinks, SlotOrNil
    <2>5. \A s \in S : NextFree[s] # Nil => NextFree[s] \in S /\ NextFree[s] # free_head
      BY <1>2, <2>1, <2>2, <2>3 DEF SlotsInv, FreeLinks, SlotOrNil
    <2>6. \A s \in S \ {free_head} : \E p \in S : NextFree[p] = s /\ rank[p] < rank[s]
      BY <1>1, <2>1, <2>2, <2>3 DEF FreeRankedBy
    <2>7. \A p, q \in S : NextFree[p] = NextFree[q] /\ NextFree[p] # Nil => p = q
      BY <2>1, <2>2 DEF SlotsInv, FreeLinks
    <2> QED BY <2>4, <2>5, <2>6, <2>7 DEF Chain
  <1>4. /\ S \in SUBSET DOMAIN NextFree /\ Nil \notin DOMAIN NextFree
        /\ [s \in S |-> rank[s]] \in [S -> Nat]
    BY ConstantTypes DEF NextFree
  <1>5. /\ Walk(NextFree, free_head) = S
        /\ \A s \in S : s \notin Walk(NextFree, NextFree[s])
    <2>1. Chain(NextFree, free_head, S, [s \in S |-> rank[s]])
      BY <1>3 DEF Chain
    <2> HIDE DEF S
    <2> QED BY <1>4, <2>1, WalkIsChain
  <1>6. \A s \in S : NextFree[s] = slots[s].next_free
    BY DEF NextFree
  <1> QED BY <1>5, <1>6 DEF FreeListExact

LEMMA FanOutIsChain == SlotsInv => FanOutExact
  <1> SUFFICES ASSUME SlotsInv PROVE FanOutExact
    OBVIOUS
  <1> DEFINE S(k) == {s \in InUse : KeyOf(s) = k}
  <1>1. PICK rank \in [Slots -> Nat] : DestRankedBy(rank)
    BY DEF SlotsInv
  <1>2. /\ \A k \in Keys : dest_index[k] \in SlotOrNil
        /\ \A s \in Slots : slots[s].next_by_dest \in SlotOrNil
        /\ \A s \in Slots : NextByDest[s] = slots[s].next_by_dest
    BY DEF SlotsInv, SlotsTypeOK, Slot, NextByDest
  <1>3. ASSUME NEW k \in Keys
        PROVE  /\ Walk(NextByDest, dest_index[k]) = S(k)
               /\ \A s \in S(k) : s \notin Walk(NextByDest, slots[s].next_by_dest)
    <2>1. \A s \in S(k) : /\ s \in Slots /\ slots[s].in_use /\ KeyOf(s) = k
                          /\ slots[s].dest_id # 0
      BY ConstantTypes DEF InUse, KeyOf, Keys
    <2>2. \A s \in Slots : slots[s].in_use /\ KeyOf(s) = k => s \in S(k)
      BY DEF InUse
    <2>3. dest_index[k] # Nil => dest_index[k] \in S(k)
      BY <1>2, <2>2 DEF SlotsInv, DestLinks, SlotOrNil
    <2>4. ASSUME NEW s \in S(k), NextByDest[s] # Nil
          PROVE  NextByDest[s] \in S(k) /\ NextByDest[s] # dest_index[k]
      <3>1. s \in Slots /\ KeyOf(s) = k /\ slots[s].next_by_dest # Nil
            /\ NextByDest[s] = slots[s].next_by_dest
        BY <1>2, <2>1, <2>4
      <3>2. slots[s].next_by_dest \in Slots
        BY <3>1, <1>2 DEF SlotOrNil
      <3>3. slots[slots[s].next_by_dest].in_use /\ KeyOf(slots[s].next_by_dest) = k
        BY <3>1 DEF SlotsInv, DestLinks
      <3>4. slots[s].next_by_dest # dest_index[k]
        BY <3>1 DEF SlotsInv, DestLinks
      <3> QED BY <3>1, <3>2, <3>3, <3>4, <2>2
    <2>5. ASSUME NEW s \in S(k) \ {dest_index[k]}
          PROVE  \E p \in S(k) : NextByDest[p] = s /\ rank[p] < rank[s]
      <3>1. s \in Slots /\ slots[s].dest_id # 0 /\ KeyOf(s) = k /\ dest_index[KeyOf(s)] # s
            /\ s # Nil
        BY <2>1, ConstantTypes
      <3>2. PICK p \in Slots : slots[p].next_by_dest = s /\ rank[p] < rank[s]
        BY <3>1, <1>1 DEF DestRankedBy
      <3>3. slots[p].in_use /\ KeyOf(s) = KeyOf(p)
        BY <3>1, <3>2 DEF SlotsInv, DestLinks
      <3> QED BY <3>1, <3>2, <3>3, <1>2, <2>2
    <2>6. \A p, q \in S(k) : NextByDest[p] = NextByDest[q] /\ NextByDest[p] # Nil => p = q
      BY <1>2, <2>1 DEF SlotsInv, DestLinks
    <2>7. /\ S(k) \subseteq Slots /\ S(k) \in SUBSET DOMAIN NextByDest
          /\ Nil \notin DOMAIN NextByDest
      BY <2>1, ConstantTypes DEF NextByDest
    <2> HIDE DEF S
    <2> DEFINE r == [s \in S(k) |-> rank[s]]
    <2>8. Chain(NextByDest, dest_index[k], S(k), r) /\ r \in [S(k) -> Nat]
      BY <2>3, <2>4, <2>5, <2>6, <2>7 DEF Chain
    <2> HIDE DEF r
    <2>9. /\ Walk(NextByDest, dest_index[k]) = S(k)
          /\ \A s \in S(k) : s \notin Walk(NextByDest, NextByDest[s])
      BY <2>7, <2>8, WalkIsChain
    <2> QED BY <2>7, <2>9, <1>2
  <1>4. ASSUME NEW k \in Keys PROVE DestConnections(k[1], k[2]) = S(k)
    <2>1. <<k[1], k[2]>> = k /\ k[2] # 0
      BY ConstantTypes DEF Keys
    <2> HIDE DEF S
    <2> QED BY <2>1, <1>3 DEF DestConnections
  <1>5. ASSUME NEW s \in InUse PROVE s \notin Walk(NextByDest, slots[s].next_by_dest)
    <2>0. s \in Slots /\ slots[s].in_use
      BY DEF InUse
    <2>1. CASE slots[s].dest_id # 0
      <3>1. KeyOf(s) \in Keys /\ s \in S(KeyOf(s))
        BY <2>0, <2>1 DEF SlotsInv, SlotsTypeOK, SlotContexts, KeyOf, Keys, Slot
      <3> QED BY <3>1, <1>3
    <2>2. CASE slots[s].dest_id = 0
      <3>1. slots[s].next_by_dest = Nil
        BY <2>0, <2>2 DEF SlotsInv, DestLinks
      <3>2. Follows(NextByDest, Nil, {})
        BY DEF Follows
      <3> QED BY <3>1, <3>2 DEF Walk
    <2> QED BY <2>1, <2>2
  <1> QED BY <1>4, <1>5 DEF FanOutExact

(* The free list holds exactly the free slots, each once: no release loses *)
(* a slot and no add hands out one in use, for pools of every size         *)
(* (addSession, releaseSlot).                                              *)
THEOREM FreeListCorrect == SlotsSpec => []FreeListExact
  BY FreeListIsChain, SlotsInvariant, PTL

(* A fan-out to an identity visits exactly the sessions of its realm bound *)
(* to it, each once, for pools of every size (destConnections after any    *)
(* order of bindDest and releaseSlot).                                     *)
THEOREM FanOutCorrect == SlotsSpec => []FanOutExact
  BY FanOutIsChain, SlotsInvariant, PTL

(***************************************************************************)
(* The manager.                                                            *)
(***************************************************************************)

(* Every operation of the manager, joins, leaves and crashes included, is  *)
(* an operation of the session slots or leaves them alone.                 *)
THEOREM ManagerImplementsSlots == Spec => SlotsSpec
  <1>1. Init => SlotsInit
    BY DEF Init
  <1>2. [Next]_vars => [SlotsNext]_slotVars
    BY DEF Next, vars, Crash, Accept, CloseSession, CloseRawQuic, Authenticate,
           JoinGroup, LeaveGroup, SlotsNext
  <1> QED BY <1>1, <1>2, PTL DEF Spec, SlotsSpec

(* In the manager too a fan-out to an identity visits exactly the sessions *)
(* bound to it and the free list is exactly the free slots, whatever joins *)
(* and leaves happen in between (connection.zig as a whole).               *)
THEOREM ManagerChainsCorrect == Spec => [](FanOutExact /\ FreeListExact)
  BY ManagerImplementsSlots, FanOutCorrect, FreeListCorrect, PTL

(* In the manager too a token of a session that is gone reaches nobody, so *)
(* a delayed group change or kick never acts on a stranger (byToken).      *)
THEOREM ManagerTokensMiss == Spec => []StaleTokenMisses
  BY ManagerImplementsSlots, StaleTokensMiss, PTL

-------------------------------------------------------------------------------
(* The edges.                                                              *)

LEMMA EdgeConstants ==
    /\ EdgeCapacity \in Nat \ {0} /\ Edges = 0 .. EdgeCapacity - 1
    /\ IsFiniteSet(Edges) /\ 0 \in Edges
    /\ Nil \notin Edges /\ 0 \notin GroupIds
  <1>1. MaxConnections * MaxGroupsPerConnection >= MaxConnections
    BY MulGrows, SlotsAssumption, GroupsAssumption
  <1>2. EdgeCapacity \in Nat \ {0}
    BY <1>1, SlotsAssumption, GroupsAssumption DEF EdgeCapacity
  <1>3. Edges = 0 .. EdgeCapacity - 1
    BY DEF Edges
  <1>4. IsFiniteSet(Edges)
    BY <1>2, <1>3, FS_Interval
  <1> QED BY <1>2, <1>3, <1>4, GroupsAssumption DEF Nil

-------------------------------------------------------------------------------
(* Cells threaded on the chains of an index.  The cells of M hang on one   *)
(* chain per key: head gives the first cell of a key, next the cell after  *)
(* a cell, and a rank grows along every chain, which excludes cycles that  *)
(* no head reaches.  The three lists of the edge pool are of this kind:    *)
(* the free edges (one key), the edges of each group and the edges of each *)
(* session.                                                                *)

Threaded(M, next, head, key, rank) ==
    /\ \A k \in DOMAIN head :
          head[k] # Nil => /\ head[k] \in M /\ key[head[k]] = k
                           /\ \A p \in M : next[p] # head[k]
    /\ \A p \in M : next[p] # Nil => next[p] \in M /\ key[next[p]] = key[p]
    /\ \A p, q \in M : next[p] = next[q] /\ next[p] # Nil => p = q
    /\ \A e \in M :
          /\ key[e] \in DOMAIN head
          /\ head[key[e]] # e => \E p \in M : next[p] = e /\ rank[p] < rank[e]

(* A new cell goes in front of the chain of its key. *)
PushOf(e, k, M, next, head, key, next2, head2, key2) ==
    /\ e \in Edges \ M /\ k \in DOMAIN head
    /\ next2[e] = head[k] /\ key2[e] = k
    /\ \A p \in M : next2[p] = next[p] /\ key2[p] = key[p]
    /\ DOMAIN head2 = DOMAIN head /\ head2[k] = e
    /\ \A j \in DOMAIN head \ {k} : head2[j] = head[j]

LEMMA Pushed ==
    ASSUME NEW M \in SUBSET Edges, NEW next, NEW head, NEW key,
           NEW rank \in [Edges -> Nat], Threaded(M, next, head, key, rank),
           NEW e, NEW k, NEW next2, NEW head2, NEW key2,
           PushOf(e, k, M, next, head, key, next2, head2, key2)
    PROVE  \E rank2 \in [Edges -> Nat] :
              Threaded(M \cup {e}, next2, head2, key2, rank2)
  <1> DEFINE r2 == [x \in Edges |-> IF x = e THEN 0 ELSE rank[x] + 1]
             N == M \cup {e}
  <1> USE DEF PushOf
  <1>0. e # Nil /\ e \notin M /\ r2 \in [Edges -> Nat]
    BY EdgeConstants
  <1>1. \A p \in M : next[p] # e
    BY <1>0 DEF Threaded
  <1>2. ASSUME NEW j \in DOMAIN head2, head2[j] # Nil
        PROVE  /\ head2[j] \in N /\ key2[head2[j]] = j
               /\ \A p \in N : next2[p] # head2[j]
    <2>1. CASE j = k
      <3>1. next2[e] # e
        BY <1>0 DEF Threaded
      <3> QED BY <1>1, <2>1, <3>1
    <2>2. CASE j # k
      <3>1. head2[j] = head[j] /\ head[j] \in M /\ key[head[j]] = j
            /\ \A p \in M : next[p] # head[j]
        BY <1>2, <2>2 DEF Threaded
      <3>2. next2[e] # head[j]
        BY <1>2, <2>2, <3>1 DEF Threaded
      <3> QED BY <3>1, <3>2
    <2> QED BY <2>1, <2>2
  <1>3. ASSUME NEW p \in N, next2[p] # Nil
        PROVE  next2[p] \in N /\ key2[next2[p]] = key2[p]
    BY <1>3 DEF Threaded
  <1>4. ASSUME NEW p \in N, NEW q \in N, next2[p] = next2[q], next2[p] # Nil
        PROVE  p = q
    BY <1>4 DEF Threaded
  <1>5. ASSUME NEW x \in N
        PROVE  /\ key2[x] \in DOMAIN head2
               /\ head2[key2[x]] # x => \E p \in N : next2[p] = x /\ r2[p] < r2[x]
    <2>1. CASE x = e
      BY <2>1
    <2>2. CASE x # e
      <3>1. x \in M /\ key2[x] = key[x] /\ key[x] \in DOMAIN head
        BY <1>5, <2>2 DEF Threaded
      <3>2. CASE head[key[x]] = x
        <4>1. key[x] = k => next2[e] = x /\ r2[e] < r2[x]
          BY <3>1, <3>2, <2>2
        <4>2. key[x] # k => head2[key2[x]] = x
          BY <3>1, <3>2
        <4> QED BY <3>1, <4>1, <4>2
      <3>3. CASE head[key[x]] # x
        <4>1. PICK p \in M : next[p] = x /\ rank[p] < rank[x]
          BY <3>1, <3>3 DEF Threaded
        <4>2. p # e /\ p \in Edges /\ x \in Edges
          BY <3>1
        <4>3. r2[p] < r2[x]
          BY <4>1, <4>2, <2>2
        <4> QED BY <3>1, <4>1, <4>3
      <3> QED BY <3>2, <3>3
    <2> QED BY <2>1, <2>2
  <1> HIDE DEF r2, N
  <1>6. Threaded(N, next2, head2, key2, r2)
    BY <1>2, <1>3, <1>4, <1>5 DEF Threaded
  <1> QED BY <1>0, <1>6 DEF N

(* A cell taken out, with whatever pointed to it pointing past it. *)
UnlinkOf(e, M, next, head, key, next2, head2, key2) ==
    /\ e \in M
    /\ \A p \in M \ {e} : /\ next2[p] = IF next[p] = e THEN next[e] ELSE next[p]
                         /\ key2[p] = key[p]
    /\ DOMAIN head2 = DOMAIN head
    /\ \A k \in DOMAIN head : head2[k] = IF head[k] = e THEN next[e] ELSE head[k]

LEMMA Unlinked ==
    ASSUME NEW M \in SUBSET Edges, NEW next, NEW head, NEW key,
           NEW rank \in [Edges -> Nat], Threaded(M, next, head, key, rank),
           NEW e, NEW next2, NEW head2, NEW key2,
           UnlinkOf(e, M, next, head, key, next2, head2, key2)
    PROVE  Threaded(M \ {e}, next2, head2, key2, rank)
  <1> DEFINE N == M \ {e}
  <1> USE DEF UnlinkOf
  <1>0. /\ e # Nil /\ key[e] \in DOMAIN head
        /\ \A x \in M : rank[x] \in Nat
    BY EdgeConstants DEF Threaded
  <1>a. next[e] # e
    <2> SUFFICES ASSUME next[e] = e PROVE FALSE
      OBVIOUS
    <2>1. head[key[e]] # e
      BY <1>0 DEF Threaded
    <2>2. PICK p \in M : next[p] = e /\ rank[p] < rank[e]
      BY <2>1 DEF Threaded
    <2>3. p = e
      BY <1>0, <2>2 DEF Threaded
    <2> QED BY <1>0, <2>2, <2>3
  <1>1. next[e] # Nil => next[e] \in N /\ key[next[e]] = key[e]
    BY <1>a DEF Threaded
  <1>2. ASSUME NEW k \in DOMAIN head2, head2[k] # Nil
        PROVE  /\ head2[k] \in N /\ key2[head2[k]] = k
               /\ \A p \in N : next2[p] # head2[k]
    <2>1. CASE head[k] = e
      <3>1. head2[k] = next[e] /\ key[e] = k /\ \A p \in M : next[p] # e
        BY <1>0, <1>2, <2>1 DEF Threaded
      <3>2. \A p \in N : next[p] # next[e]
        BY <1>2, <3>1 DEF Threaded
      <3>3. head2[k] \in N /\ key2[head2[k]] = k
        BY <1>1, <1>2, <3>1
      <3> QED BY <3>1, <3>2, <3>3
    <2>2. CASE head[k] # e
      <3>1. /\ head2[k] = head[k] /\ head[k] \in N /\ key[head[k]] = k
            /\ \A p \in M : next[p] # head[k]
        BY <1>2, <2>2 DEF Threaded
      <3> QED BY <3>1
    <2> QED BY <2>1, <2>2
  <1>3. ASSUME NEW p \in N, next2[p] # Nil
        PROVE  next2[p] \in N /\ key2[next2[p]] = key2[p]
    <2>1. CASE next[p] = e
      <3>1. next2[p] = next[e] /\ key[e] = key[p]
        BY <1>0, <2>1 DEF Threaded
      <3> QED BY <1>1, <1>3, <3>1
    <2>2. CASE next[p] # e
      <3>1. next2[p] = next[p] /\ next[p] \in N /\ key[next[p]] = key[p]
        BY <1>3, <2>2 DEF Threaded
      <3> QED BY <3>1
    <2> QED BY <2>1, <2>2
  <1>4. ASSUME NEW p \in N, NEW q \in N, next2[p] = next2[q], next2[p] # Nil
        PROVE  p = q
    <2>1. next[p] = next[q] /\ next[p] # Nil
      <3>1. ~(next[p] = e /\ next[q] # e) /\ ~(next[p] # e /\ next[q] = e)
        BY <1>4 DEF Threaded
      <3> QED BY <1>0, <1>4, <3>1
    <2> QED BY <2>1 DEF Threaded
  <1>5. ASSUME NEW x \in N
        PROVE  /\ key2[x] \in DOMAIN head2
               /\ head2[key2[x]] # x => \E p \in N : next2[p] = x /\ rank[p] < rank[x]
    <2>1. key2[x] = key[x] /\ key[x] \in DOMAIN head
      BY DEF Threaded
    <2> SUFFICES ASSUME head2[key[x]] # x
                 PROVE  \E p \in N : next2[p] = x /\ rank[p] < rank[x]
      BY <2>1
    <2>2. head[key[x]] # x
      BY <2>1
    <2>3. PICK p \in M : next[p] = x /\ rank[p] < rank[x]
      BY <2>2 DEF Threaded
    <2>4. CASE p # e
      BY <2>3, <2>4
    <2>5. CASE p = e
      <3>1. key[x] = key[e] /\ x # Nil
        BY <2>3, <2>5, EdgeConstants DEF Threaded
      <3>2. head[key[e]] # e
        BY <1>0, <2>1, <2>3, <2>5, <3>1
      <3>3. PICK q \in M : next[q] = e /\ rank[q] < rank[e]
        BY <3>2 DEF Threaded
      <3>4. q \in N /\ next2[q] = x
        BY <1>a, <2>3, <2>5, <3>3
      <3>5. rank[q] < rank[x]
        BY <1>0, <2>3, <2>5, <3>3
      <3> QED BY <3>4, <3>5
    <2> QED BY <2>4, <2>5
  <1> HIDE DEF N
  <1>6. Threaded(N, next2, head2, key2, rank)
    BY <1>2, <1>3, <1>4, <1>5 DEF Threaded
  <1> QED BY <1>6 DEF N

(* Following a chain meets exactly the cells of its key, none twice. *)
LEMMA ThreadedWalk ==
    ASSUME NEW M \in SUBSET Edges, NEW next, DOMAIN next = Edges, NEW head, NEW key,
           NEW rank \in [Edges -> Nat], Threaded(M, next, head, key, rank)
    PROVE  /\ \A k \in DOMAIN head : Walk(next, head[k]) = {e \in M : key[e] = k}
           /\ \A e \in M : e \notin Walk(next, next[e])
  <1> DEFINE S(k) == {e \in M : key[e] = k}
             r(k) == [e \in S(k) |-> rank[e]]
  <1>1. ASSUME NEW k \in DOMAIN head
        PROVE  /\ Walk(next, head[k]) = S(k)
               /\ \A e \in S(k) : e \notin Walk(next, next[e])
    <2>1. head[k] # Nil => head[k] \in S(k)
      BY DEF Threaded
    <2>2. \A e \in S(k) : next[e] # Nil => next[e] \in S(k) /\ next[e] # head[k]
      BY DEF Threaded
    <2>3. ASSUME NEW e \in S(k) \ {head[k]}
          PROVE  \E p \in S(k) : next[p] = e /\ r(k)[p] < r(k)[e]
      <3>1. PICK p \in M : next[p] = e /\ rank[p] < rank[e]
        BY DEF Threaded
      <3>2. e # Nil
        BY EdgeConstants
      <3>3. p \in S(k)
        BY <3>1, <3>2 DEF Threaded
      <3> QED BY <3>1, <3>3
    <2>4. \A p, q \in S(k) : next[p] = next[q] /\ next[p] # Nil => p = q
      BY DEF Threaded
    <2>5. /\ S(k) \in SUBSET DOMAIN next /\ Nil \notin DOMAIN next
          /\ r(k) \in [S(k) -> Nat]
      BY EdgeConstants
    <2> HIDE DEF S, r
    <2>6. Chain(next, head[k], S(k), r(k))
      BY <2>1, <2>2, <2>3, <2>4 DEF Chain
    <2> QED BY <2>5, <2>6, WalkIsChain
  <1>2. \A e \in M : e \in S(key[e]) /\ key[e] \in DOMAIN head
    BY DEF Threaded
  <1>3. \A e \in M : e \notin Walk(next, next[e])
    <2> HIDE DEF S, r
    <2> QED BY <1>1, <1>2
  <1> QED BY <1>1, <1>3

-------------------------------------------------------------------------------
(* The invariant of the group index, of a value of groups: an operation of *)
(* the manager may pass through several.                                   *)

GroupsType ==
    [edges       : [Edges -> Edge],
     table       : [GroupKeys -> EdgeOrNil],
     free_head   : EdgeOrNil,
     group_head  : [Slots -> EdgeOrNil],
     group_quota : QuotaType]

Used(g) == {e \in Edges : g.edges[e].in_use}

Owned(g, s) == {e \in Used(g) : g.edges[e].slot = s}

EdgeContexts(g) ==
    \A e \in Used(g) : /\ g.edges[e].realm \in Realms
                       /\ g.edges[e].group_id \in GroupIds
                       /\ g.edges[e].slot \in Slots

GroupOf(g) == [e \in Edges |-> EdgeKey(g, e)]

OwnerOf(g) == [e \in Edges |-> g.edges[e].slot]

TheFreeList == [e \in Edges |-> 0]

FreeHeads(g) == [k \in {0} |-> g.free_head]

FreeThreaded(g) ==
    \E rank \in [Edges -> Nat] :
        Threaded(Edges \ Used(g), NextFreeEdge(g), FreeHeads(g), TheFreeList, rank)

GroupsThreaded(g) ==
    \E rank \in [Edges -> Nat] :
        Threaded(Used(g), NextInGroup(g), g.table, GroupOf(g), rank)

OwnersThreaded(g) ==
    \E rank \in [Edges -> Nat] :
        Threaded(Used(g), NextOfSlot(g), g.group_head, OwnerOf(g), rank)

OneEdgeEach(g) ==
    \A e, f \in Used(g) :
        g.edges[e].slot = g.edges[f].slot /\ EdgeKey(g, e) = EdgeKey(g, f) => e = f

GroupsInv(g) ==
    /\ g \in GroupsType
    /\ EdgeContexts(g)
    /\ FreeThreaded(g)
    /\ GroupsThreaded(g)
    /\ OwnersThreaded(g)
    /\ OneEdgeEach(g)
    /\ CountsEntries(g.group_quota, Used(g), g.edges)

LEMMA GroupTypes ==
    ASSUME NEW g \in GroupsType
    PROVE  /\ g.edges \in [Edges -> Edge]
           /\ g.table \in [GroupKeys -> EdgeOrNil]
           /\ g.free_head \in EdgeOrNil
           /\ g.group_head \in [Slots -> EdgeOrNil]
           /\ g.group_quota \in QuotaType
           /\ \A e \in Edges : /\ g.edges[e] \in Edge
                               /\ g.edges[e].in_use \in BOOLEAN
                               /\ g.edges[e].next_in_group \in EdgeOrNil
                               /\ g.edges[e].next_of_slot \in EdgeOrNil
                               /\ g.edges[e].next_free \in EdgeOrNil
           /\ Used(g) \in SUBSET Edges /\ IsFiniteSet(Used(g))
  <1>1. /\ g.edges \in [Edges -> Edge]
        /\ g.table \in [GroupKeys -> EdgeOrNil]
        /\ g.free_head \in EdgeOrNil
        /\ g.group_head \in [Slots -> EdgeOrNil]
        /\ g.group_quota \in QuotaType
    BY DEF GroupsType
  <1>2. Used(g) \in SUBSET Edges /\ IsFiniteSet(Used(g))
    BY EdgeConstants, FS_Subset DEF Used
  <1>3. \A e \in Edges : g.edges[e] \in Edge
    BY <1>1
  <1> QED BY <1>1, <1>2, <1>3 DEF Edge

(* The chains of a value that satisfies the invariant. *)
LEMMA EdgeWalks ==
    ASSUME NEW g, GroupsInv(g)
    PROVE  /\ \A k \in GroupKeys :
                 Walk(NextInGroup(g), g.table[k]) = {e \in Used(g) : EdgeKey(g, e) = k}
           /\ \A e \in Used(g) : e \notin Walk(NextInGroup(g), g.edges[e].next_in_group)
           /\ \A s \in Slots : SlotEdges(g, s) = Owned(g, s)
           /\ \A e \in Used(g) : e \notin Walk(NextOfSlot(g), g.edges[e].next_of_slot)
           /\ Walk(NextFreeEdge(g), g.free_head) = Edges \ Used(g)
           /\ \A e \in Edges \ Used(g) :
                 e \notin Walk(NextFreeEdge(g), g.edges[e].next_free)
  <1>0. /\ g \in GroupsType /\ Used(g) \in SUBSET Edges
        /\ DOMAIN g.table = GroupKeys /\ DOMAIN g.group_head = Slots
        /\ Edges \ Used(g) \in SUBSET Edges
    BY GroupTypes DEF GroupsInv
  <1>1. /\ DOMAIN NextInGroup(g) = Edges
        /\ \A e \in Edges : /\ NextInGroup(g)[e] = g.edges[e].next_in_group
                            /\ GroupOf(g)[e] = EdgeKey(g, e)
    BY DEF NextInGroup, GroupOf
  <1>2. /\ DOMAIN NextOfSlot(g) = Edges
        /\ \A e \in Edges : /\ NextOfSlot(g)[e] = g.edges[e].next_of_slot
                            /\ OwnerOf(g)[e] = g.edges[e].slot
    BY DEF NextOfSlot, OwnerOf
  <1>3. /\ DOMAIN NextFreeEdge(g) = Edges
        /\ \A e \in Edges : /\ NextFreeEdge(g)[e] = g.edges[e].next_free
                            /\ TheFreeList[e] = 0
        /\ DOMAIN FreeHeads(g) = {0} /\ FreeHeads(g)[0] = g.free_head
    BY DEF NextFreeEdge, TheFreeList, FreeHeads
  <1>4. /\ \A k \in GroupKeys :
              Walk(NextInGroup(g), g.table[k]) = {e \in Used(g) : GroupOf(g)[e] = k}
        /\ \A e \in Used(g) : e \notin Walk(NextInGroup(g), NextInGroup(g)[e])
    <2>1. PICK rank \in [Edges -> Nat] :
             Threaded(Used(g), NextInGroup(g), g.table, GroupOf(g), rank)
      BY DEF GroupsInv, GroupsThreaded
    <2>2. /\ \A k \in DOMAIN g.table : Walk(NextInGroup(g), g.table[k]) =
                {e \in Used(g) : GroupOf(g)[e] = k}
          /\ \A e \in Used(g) : e \notin Walk(NextInGroup(g), NextInGroup(g)[e])
      BY <1>0, <1>1, <2>1, ThreadedWalk
    <2> QED BY <1>0, <2>2
  <1>5. /\ \A s \in Slots :
              Walk(NextOfSlot(g), g.group_head[s]) = {e \in Used(g) : OwnerOf(g)[e] = s}
        /\ \A e \in Used(g) : e \notin Walk(NextOfSlot(g), NextOfSlot(g)[e])
    <2>1. PICK rank \in [Edges -> Nat] :
             Threaded(Used(g), NextOfSlot(g), g.group_head, OwnerOf(g), rank)
      BY DEF GroupsInv, OwnersThreaded
    <2>2. /\ \A s \in DOMAIN g.group_head : Walk(NextOfSlot(g), g.group_head[s]) =
                {e \in Used(g) : OwnerOf(g)[e] = s}
          /\ \A e \in Used(g) : e \notin Walk(NextOfSlot(g), NextOfSlot(g)[e])
      BY <1>0, <1>2, <2>1, ThreadedWalk
    <2> QED BY <1>0, <2>2
  <1>6. /\ Walk(NextFreeEdge(g), g.free_head) = {e \in Edges \ Used(g) : TheFreeList[e] = 0}
        /\ \A e \in Edges \ Used(g) : e \notin Walk(NextFreeEdge(g), NextFreeEdge(g)[e])
    <2>1. PICK rank \in [Edges -> Nat] :
             Threaded(Edges \ Used(g), NextFreeEdge(g), FreeHeads(g), TheFreeList, rank)
      BY DEF GroupsInv, FreeThreaded
    <2>2. /\ \A k \in DOMAIN FreeHeads(g) : Walk(NextFreeEdge(g), FreeHeads(g)[k]) =
                {e \in Edges \ Used(g) : TheFreeList[e] = k}
          /\ \A e \in Edges \ Used(g) : e \notin Walk(NextFreeEdge(g), NextFreeEdge(g)[e])
      BY <1>0, <1>3, <2>1, ThreadedWalk
    <2> QED BY <1>3, <2>2
  <1>7. /\ {e \in Edges \ Used(g) : TheFreeList[e] = 0} = Edges \ Used(g)
        /\ \A k : {e \in Used(g) : GroupOf(g)[e] = k} = {e \in Used(g) : EdgeKey(g, e) = k}
        /\ \A s : {e \in Used(g) : OwnerOf(g)[e] = s} = Owned(g, s)
    BY <1>0, <1>1, <1>2, <1>3 DEF Owned
  <1>8. \A k \in GroupKeys :
           Walk(NextInGroup(g), g.table[k]) = {e \in Used(g) : EdgeKey(g, e) = k}
    BY <1>4, <1>7
  <1>9. \A e \in Used(g) : /\ e \notin Walk(NextInGroup(g), g.edges[e].next_in_group)
                           /\ e \notin Walk(NextOfSlot(g), g.edges[e].next_of_slot)
    <2> SUFFICES ASSUME NEW e \in Used(g)
                 PROVE  /\ e \notin Walk(NextInGroup(g), g.edges[e].next_in_group)
                        /\ e \notin Walk(NextOfSlot(g), g.edges[e].next_of_slot)
      OBVIOUS
    <2>1. /\ NextInGroup(g)[e] = g.edges[e].next_in_group
          /\ NextOfSlot(g)[e] = g.edges[e].next_of_slot
      BY <1>0, <1>1, <1>2
    <2> QED BY <1>4, <1>5, <2>1
  <1>10. \A s \in Slots : SlotEdges(g, s) = Owned(g, s)
    BY <1>5, <1>7 DEF SlotEdges
  <1>11. /\ Walk(NextFreeEdge(g), g.free_head) = Edges \ Used(g)
         /\ \A e \in Edges \ Used(g) :
               e \notin Walk(NextFreeEdge(g), g.edges[e].next_free)
    BY <1>3, <1>6, <1>7
  <1> QED BY <1>8, <1>9, <1>10, <1>11

LEMMA FreshGood == GroupsInv(FreshGroups) /\ Used(FreshGroups) = {}
  <1> DEFINE g == FreshGroups
             rank == [e \in Edges |-> e]
  <1>1. /\ \A e \in Edges : g.edges[e] = FreeEdge(IF e + 1 < EdgeCapacity THEN e + 1 ELSE Nil)
        /\ g.edges = [e \in Edges |-> g.edges[e]]
        /\ g.table = [k \in GroupKeys |-> Nil] /\ g.group_head = [s \in Slots |-> Nil]
        /\ g.free_head = 0 /\ g.group_quota = EmptyQuota
        /\ g = [edges |-> g.edges, table |-> g.table, free_head |-> g.free_head,
                group_head |-> g.group_head, group_quota |-> g.group_quota]
    BY DEF FreshGroups
  <1> HIDE DEF g
  <1>2. \A e \in Edges : (IF e + 1 < EdgeCapacity THEN e + 1 ELSE Nil) \in EdgeOrNil
    BY EdgeConstants DEF EdgeOrNil
  <1>a. ASSUME NEW n \in EdgeOrNil
        PROVE  /\ FreeEdge(n) \in Edge
               /\ FreeEdge(n).in_use = FALSE /\ FreeEdge(n).next_free = n
    BY DEF FreeEdge, Edge, EdgeOrNil, SlotOrNil
  <1>3. \A e \in Edges : g.edges[e] \in Edge
    BY <1>1, <1>2, <1>a
  <1>4. \A e \in Edges : /\ g.edges[e].in_use = FALSE
                         /\ g.edges[e].next_free = IF e + 1 < EdgeCapacity THEN e + 1 ELSE Nil
    <2> SUFFICES ASSUME NEW e \in Edges
                 PROVE  /\ g.edges[e].in_use = FALSE
                        /\ g.edges[e].next_free = IF e + 1 < EdgeCapacity THEN e + 1 ELSE Nil
      OBVIOUS
    <2> DEFINE n == IF e + 1 < EdgeCapacity THEN e + 1 ELSE Nil
    <2>1. n \in EdgeOrNil /\ g.edges[e] = FreeEdge(n)
      BY <1>1, <1>2
    <2> HIDE DEF n
    <2>2. g.edges[e].in_use = FALSE /\ g.edges[e].next_free = n
      BY <2>1, <1>a
    <2> QED BY <2>2 DEF n
  <1>5. Used(g) = {}
    BY <1>4 DEF Used
  <1>6. g \in GroupsType
    <2>1. g.edges \in [Edges -> Edge]
      BY <1>1, <1>3
    <2>2. g.table \in [GroupKeys -> EdgeOrNil] /\ g.group_head \in [Slots -> EdgeOrNil]
      BY <1>1 DEF EdgeOrNil
    <2>3. g.free_head \in EdgeOrNil
      BY <1>1, EdgeConstants DEF EdgeOrNil
    <2>4. g.group_quota \in QuotaType
      BY <1>1 DEF QuotaType, EmptyQuota
    <2> QED BY <1>1, <2>1, <2>2, <2>3, <2>4 DEF GroupsType
  <1>7. FreeThreaded(g)
    <2>1. /\ \A e \in Edges : /\ NextFreeEdge(g)[e] = IF e + 1 < EdgeCapacity THEN e + 1 ELSE Nil
                              /\ TheFreeList[e] = 0
          /\ DOMAIN FreeHeads(g) = {0} /\ FreeHeads(g)[0] = 0
          /\ Edges \ Used(g) = Edges
      BY <1>1, <1>4, <1>5 DEF NextFreeEdge, TheFreeList, FreeHeads
    <2>2. \A e \in Edges : NextFreeEdge(g)[e] # Nil =>
             NextFreeEdge(g)[e] \in Edges /\ NextFreeEdge(g)[e] = e + 1
      BY <2>1, EdgeConstants
    <2>3. \A e \in Edges : e # 0 => \E p \in Edges : NextFreeEdge(g)[p] = e /\ rank[p] < rank[e]
      <3> SUFFICES ASSUME NEW e \in Edges, e # 0
                   PROVE  \E p \in Edges : NextFreeEdge(g)[p] = e /\ rank[p] < rank[e]
        OBVIOUS
      <3>1. e - 1 \in Edges /\ (e - 1) + 1 = e /\ e < EdgeCapacity /\ e - 1 < e
        BY EdgeConstants
      <3>2. NextFreeEdge(g)[e - 1] = e
        BY <2>1, <3>1
      <3>3. rank[e - 1] < rank[e]
        BY <3>1
      <3> QED BY <3>1, <3>2, <3>3
    <2>4. \A p \in Edges : NextFreeEdge(g)[p] # 0
      BY <2>2, EdgeConstants, <2>1 DEF Nil
    <2>5. \A p, q \in Edges : NextFreeEdge(g)[p] = NextFreeEdge(g)[q] /\ NextFreeEdge(g)[p] # Nil
                             => p = q
      BY <2>2, EdgeConstants
    <2>6. rank \in [Edges -> Nat]
      BY EdgeConstants
    <2> HIDE DEF rank
    <2>7. Threaded(Edges, NextFreeEdge(g), FreeHeads(g), TheFreeList, rank)
      BY <2>1, <2>2, <2>3, <2>4, <2>5, EdgeConstants DEF Threaded
    <2> QED BY <2>1, <2>6, <2>7 DEF FreeThreaded
  <1>8. GroupsThreaded(g) /\ OwnersThreaded(g)
    <2>1. rank \in [Edges -> Nat]
      BY EdgeConstants
    <2>2. Threaded(Used(g), NextInGroup(g), g.table, GroupOf(g), rank)
      BY <1>1, <1>5 DEF Threaded
    <2>3. Threaded(Used(g), NextOfSlot(g), g.group_head, OwnerOf(g), rank)
      BY <1>1, <1>5 DEF Threaded
    <2> QED BY <2>1, <2>2, <2>3 DEF GroupsThreaded, OwnersThreaded
  <1>9. CountsEntries(g.group_quota, Used(g), g.edges)
    BY <1>1, <1>5, CountsNothing
  <1>10. EdgeContexts(g) /\ OneEdgeEach(g)
    BY <1>5 DEF EdgeContexts, OneEdgeEach
  <1>11. GroupsInv(g)
    BY <1>6, <1>7, <1>8, <1>9, <1>10 DEF GroupsInv
  <1> QED BY <1>5, <1>11 DEF g

-------------------------------------------------------------------------------
(* joinGroup: the first free edge goes in front of two chains.             *)

JoinedAs(g, j, e, s, realm, group) ==
    /\ e \in Edges /\ j \in GroupsType
    /\ \A p \in Edges \ {e} : j.edges[p] = g.edges[p]
    /\ j.edges[e].in_use = TRUE
    /\ j.edges[e].realm = realm /\ j.edges[e].group_id = group
    /\ j.edges[e].slot = s
    /\ j.edges[e].next_in_group = g.table[<<realm, group>>]
    /\ j.edges[e].next_of_slot = g.group_head[s]
    /\ EdgeKey(j, e) = <<realm, group>> /\ <<realm, group>> \in GroupKeys
    /\ \A p \in Edges \ {e} : EdgeKey(j, p) = EdgeKey(g, p)
    /\ DOMAIN j.table = GroupKeys /\ j.table[<<realm, group>>] = e
    /\ \A k \in GroupKeys \ {<<realm, group>>} : j.table[k] = g.table[k]
    /\ j.free_head = g.edges[e].next_free
    /\ DOMAIN j.group_head = Slots /\ j.group_head[s] = e
    /\ \A t \in Slots \ {s} : j.group_head[t] = g.group_head[t]
    /\ j.group_quota = Acquire(g.group_quota, j.edges[e].realm)

LEMMA JoinFields ==
    ASSUME NEW g \in GroupsType, g.free_head # Nil, NEW s \in Slots,
           NEW realm \in Realms, NEW group \in GroupIds
    PROVE  JoinedAs(g, Join(g, s, realm, group), g.free_head, s, realm, group)
  <1> DEFINE j == Join(g, s, realm, group)
             e == g.free_head
             key == <<realm, group>>
             new == [in_use        |-> TRUE,
                     realm         |-> realm,
                     group_id      |-> group,
                     slot          |-> s,
                     next_in_group |-> g.table[key],
                     next_of_slot  |-> g.group_head[s],
                     next_free     |-> Nil]
  <1>1. /\ j.edges = [g.edges EXCEPT ![e] = new]
        /\ j.table = [g.table EXCEPT ![key] = e]
        /\ j.free_head = g.edges[e].next_free
        /\ j.group_head = [g.group_head EXCEPT ![s] = e]
        /\ j.group_quota = Acquire(g.group_quota, realm)
        /\ j = [edges |-> j.edges, table |-> j.table, free_head |-> j.free_head,
                group_head |-> j.group_head, group_quota |-> j.group_quota]
    BY DEF Join
  <1>2. /\ g.edges \in [Edges -> Edge] /\ g.table \in [GroupKeys -> EdgeOrNil]
        /\ g.free_head \in EdgeOrNil /\ g.group_head \in [Slots -> EdgeOrNil]
        /\ g.group_quota \in QuotaType
    BY GroupTypes
  <1>3. e \in Edges /\ key \in GroupKeys
    BY <1>2 DEF EdgeOrNil, GroupKeys
  <1>4. g.table[key] \in EdgeOrNil /\ g.group_head[s] \in EdgeOrNil /\ Nil \in EdgeOrNil
        /\ g.edges[e].next_free \in EdgeOrNil /\ e \in EdgeOrNil
    BY <1>2, <1>3, GroupTypes DEF EdgeOrNil
  <1>5. new \in Edge
    BY <1>4 DEF Edge, SlotOrNil
  <1>6. /\ new.in_use = TRUE /\ new.realm = realm /\ new.group_id = group /\ new.slot = s
        /\ new.next_in_group = g.table[key] /\ new.next_of_slot = g.group_head[s]
    OBVIOUS
  <1> HIDE DEF new, j
  <1>7. /\ j.edges \in [Edges -> Edge] /\ j.edges[e] = new
        /\ \A p \in Edges \ {e} : j.edges[p] = g.edges[p]
    BY <1>1, <1>2, <1>3, <1>5
  <1>8. j.table \in [GroupKeys -> EdgeOrNil]
    BY <1>1, <1>2, <1>3, <1>4
  <1>9. j.group_head \in [Slots -> EdgeOrNil]
    BY <1>1, <1>2, <1>4
  <1>10. j.group_quota \in QuotaType
    BY <1>1, <1>2, QuotaTypes
  <1>11. j \in GroupsType
    BY <1>1, <1>4, <1>7, <1>8, <1>9, <1>10 DEF GroupsType
  <1>12. EdgeKey(j, e) = key /\ \A p \in Edges \ {e} : EdgeKey(j, p) = EdgeKey(g, p)
    BY <1>6, <1>7 DEF EdgeKey
  <1>13. /\ DOMAIN j.table = GroupKeys /\ j.table[key] = e
         /\ \A k \in GroupKeys \ {key} : j.table[k] = g.table[k]
    BY <1>1, <1>2, <1>3
  <1>14. /\ DOMAIN j.group_head = Slots /\ j.group_head[s] = e
         /\ \A t \in Slots \ {s} : j.group_head[t] = g.group_head[t]
    BY <1>1, <1>2
  <1> QED BY <1>1, <1>3, <1>6, <1>7, <1>11, <1>12, <1>13, <1>14 DEF JoinedAs, j

LEMMA JoinGood ==
    ASSUME NEW g, GroupsInv(g), g.free_head # Nil, NEW s \in Slots,
           NEW realm \in Realms, NEW group \in GroupIds,
           \A e \in Owned(g, s) : EdgeKey(g, e) # <<realm, group>>
    PROVE  LET j == Join(g, s, realm, group) IN
           /\ GroupsInv(j)
           /\ g.free_head \notin Used(g)
           /\ Used(j) = Used(g) \cup {g.free_head}
  <1> DEFINE j == Join(g, s, realm, group)
             e == g.free_head
             key == <<realm, group>>
  <1>0. /\ g \in GroupsType /\ Used(g) \in SUBSET Edges /\ IsFiniteSet(Used(g))
        /\ DOMAIN g.table = GroupKeys /\ DOMAIN g.group_head = Slots
        /\ g.group_quota \in QuotaType
        /\ Edges \ Used(g) \in SUBSET Edges
    BY GroupTypes DEF GroupsInv
  <1>a. e = g.free_head /\ g.free_head # Nil
    OBVIOUS
  <1>b. JoinedAs(g, j, e, s, realm, group)
    BY <1>0, <1>a, JoinFields
  <1> HIDE DEF e, j
  <1>1. /\ e \in Edges /\ j \in GroupsType
        /\ \A p \in Edges \ {e} : j.edges[p] = g.edges[p]
        /\ j.edges[e].in_use = TRUE
        /\ j.edges[e].realm = realm /\ j.edges[e].group_id = group
        /\ j.edges[e].slot = s
        /\ j.edges[e].next_in_group = g.table[key]
        /\ j.edges[e].next_of_slot = g.group_head[s]
        /\ EdgeKey(j, e) = key /\ key \in GroupKeys
        /\ \A p \in Edges \ {e} : EdgeKey(j, p) = EdgeKey(g, p)
        /\ DOMAIN j.table = GroupKeys /\ j.table[key] = e
        /\ \A k \in GroupKeys \ {key} : j.table[k] = g.table[k]
        /\ j.free_head = g.edges[e].next_free
        /\ DOMAIN j.group_head = Slots /\ j.group_head[s] = e
        /\ \A t \in Slots \ {s} : j.group_head[t] = g.group_head[t]
        /\ j.group_quota = Acquire(g.group_quota, j.edges[e].realm)
    BY <1>b DEF JoinedAs
  <1>2. PICK rank \in [Edges -> Nat] :
           Threaded(Edges \ Used(g), NextFreeEdge(g), FreeHeads(g), TheFreeList, rank)
    BY DEF GroupsInv, FreeThreaded
  <1>3. DOMAIN FreeHeads(g) = {0} /\ FreeHeads(g)[0] = e /\ e # Nil
        /\ DOMAIN FreeHeads(j) = {0} /\ FreeHeads(j)[0] = g.edges[e].next_free
    BY <1>1, <1>a DEF FreeHeads
  <1>4. e \in Edges \ Used(g)
    BY <1>2, <1>3 DEF Threaded
  <1>5. Used(j) = Used(g) \cup {e}
    BY <1>1, <1>4 DEF Used
  <1>6. /\ \A p \in Edges : /\ NextFreeEdge(g)[p] = g.edges[p].next_free
                            /\ NextInGroup(g)[p] = g.edges[p].next_in_group
                            /\ NextOfSlot(g)[p] = g.edges[p].next_of_slot
                            /\ GroupOf(g)[p] = EdgeKey(g, p)
                            /\ OwnerOf(g)[p] = g.edges[p].slot
        /\ \A p \in Edges : /\ NextFreeEdge(j)[p] = j.edges[p].next_free
                            /\ NextInGroup(j)[p] = j.edges[p].next_in_group
                            /\ NextOfSlot(j)[p] = j.edges[p].next_of_slot
                            /\ GroupOf(j)[p] = EdgeKey(j, p)
                            /\ OwnerOf(j)[p] = j.edges[p].slot
    BY DEF NextFreeEdge, NextInGroup, NextOfSlot, GroupOf, OwnerOf
  <1>7. FreeThreaded(j)
    <2>1. Edges \ Used(j) = (Edges \ Used(g)) \ {e}
      BY <1>5
    <2>2. \A p \in (Edges \ Used(g)) \ {e} :
             /\ NextFreeEdge(j)[p] = NextFreeEdge(g)[p]
             /\ NextFreeEdge(g)[p] # e
      BY <1>1, <1>2, <1>3, <1>6 DEF Threaded
    <2>3. \A k \in {0} : FreeHeads(j)[k] = IF FreeHeads(g)[k] = e THEN NextFreeEdge(g)[e]
                                                                  ELSE FreeHeads(g)[k]
      BY <1>3, <1>4, <1>6
    <2>4. UnlinkOf(e, Edges \ Used(g), NextFreeEdge(g), FreeHeads(g), TheFreeList,
                   NextFreeEdge(j), FreeHeads(j), TheFreeList)
      BY <1>3, <1>4, <2>2, <2>3 DEF UnlinkOf
    <2>5. Threaded((Edges \ Used(g)) \ {e}, NextFreeEdge(j), FreeHeads(j), TheFreeList, rank)
      BY <1>0, <1>2, <2>4, Unlinked
    <2> QED BY <2>1, <2>5 DEF FreeThreaded
  <1>8. GroupsThreaded(j)
    <2>1. PICK r \in [Edges -> Nat] :
             Threaded(Used(g), NextInGroup(g), g.table, GroupOf(g), r)
      BY DEF GroupsInv, GroupsThreaded
    <2>2. /\ NextInGroup(j)[e] = g.table[key] /\ GroupOf(j)[e] = key
          /\ \A p \in Used(g) : /\ NextInGroup(j)[p] = NextInGroup(g)[p]
                                /\ GroupOf(j)[p] = GroupOf(g)[p]
      BY <1>0, <1>1, <1>4, <1>6
    <2>3. /\ DOMAIN j.table = DOMAIN g.table /\ j.table[key] = e
          /\ \A k \in DOMAIN g.table \ {key} : j.table[k] = g.table[k]
          /\ key \in DOMAIN g.table
      BY <1>0, <1>1
    <2>4. \E r2 \in [Edges -> Nat] :
             Threaded(Used(g) \cup {e}, NextInGroup(j), j.table, GroupOf(j), r2)
      <3>1. PushOf(e, key, Used(g), NextInGroup(g), g.table, GroupOf(g),
                   NextInGroup(j), j.table, GroupOf(j))
        BY <1>0, <1>4, <2>2, <2>3 DEF PushOf
      <3> QED BY <1>0, <2>1, <3>1, Pushed
    <2> QED BY <1>5, <2>4 DEF GroupsThreaded
  <1>9. OwnersThreaded(j)
    <2>1. PICK r \in [Edges -> Nat] :
             Threaded(Used(g), NextOfSlot(g), g.group_head, OwnerOf(g), r)
      BY DEF GroupsInv, OwnersThreaded
    <2>2. /\ NextOfSlot(j)[e] = g.group_head[s] /\ OwnerOf(j)[e] = s
          /\ \A p \in Used(g) : /\ NextOfSlot(j)[p] = NextOfSlot(g)[p]
                                /\ OwnerOf(j)[p] = OwnerOf(g)[p]
      BY <1>0, <1>1, <1>4, <1>6
    <2>3. /\ DOMAIN j.group_head = DOMAIN g.group_head /\ j.group_head[s] = e
          /\ \A t \in DOMAIN g.group_head \ {s} : j.group_head[t] = g.group_head[t]
          /\ s \in DOMAIN g.group_head
      BY <1>0, <1>1
    <2>4. \E r2 \in [Edges -> Nat] :
             Threaded(Used(g) \cup {e}, NextOfSlot(j), j.group_head, OwnerOf(j), r2)
      <3>1. PushOf(e, s, Used(g), NextOfSlot(g), g.group_head, OwnerOf(g),
                   NextOfSlot(j), j.group_head, OwnerOf(j))
        BY <1>0, <1>4, <2>2, <2>3 DEF PushOf
      <3> QED BY <1>0, <2>1, <3>1, Pushed
    <2> QED BY <1>5, <2>4 DEF OwnersThreaded
  <1>10. EdgeContexts(j)
    <2>1. \A p \in Used(g) : p # e /\ j.edges[p] = g.edges[p]
      BY <1>0, <1>1, <1>4
    <2> QED BY <1>1, <1>5, <2>1 DEF GroupsInv, EdgeContexts
  <1>11. OneEdgeEach(j)
    <2> SUFFICES ASSUME NEW p \in Used(g) \cup {e}, NEW q \in Used(g) \cup {e},
                        j.edges[p].slot = j.edges[q].slot,
                        EdgeKey(j, p) = EdgeKey(j, q)
                 PROVE  p = q
      BY <1>5 DEF OneEdgeEach
    <2>1. \A x \in Used(g) : /\ x # e /\ j.edges[x].slot = g.edges[x].slot
                             /\ EdgeKey(j, x) = EdgeKey(g, x)
      BY <1>0, <1>1, <1>4
    <2>2. \A x \in Used(g) : ~(j.edges[x].slot = s /\ EdgeKey(j, x) = key)
      BY <2>1 DEF Owned
    <2>3. CASE p \in Used(g) /\ q \in Used(g)
      BY <2>1, <2>3 DEF GroupsInv, OneEdgeEach
    <2>4. CASE p = e \/ q = e
      BY <1>1, <2>2, <2>4
    <2> QED BY <2>3, <2>4
  <1>12. CountsEntries(j.group_quota, Used(j), j.edges)
    <2>1. \A p \in Used(g) : j.edges[p].realm = g.edges[p].realm
      BY <1>0, <1>1, <1>4
    <2>2. CountsEntries(Acquire(g.group_quota, j.edges[e].realm), Used(g) \cup {e}, j.edges)
      BY <1>0, <1>4, <2>1, CountsAcquire DEF GroupsInv
    <2> QED BY <1>1, <1>5, <2>2
  <1>13. GroupsInv(j)
    BY <1>1, <1>7, <1>8, <1>9, <1>10, <1>11, <1>12 DEF GroupsInv
  <1> QED BY <1>4, <1>5, <1>13 DEF e, j

-------------------------------------------------------------------------------
(* releaseGroupEdge: the edge leaves both chains and heads the free list.  *)

ReleasedAs(g, r, e, s) ==
    /\ r.edges \in [Edges -> Edge]
    /\ \A p \in Edges \ {e} : /\ r.edges[p].in_use = g.edges[p].in_use
                              /\ r.edges[p].realm = g.edges[p].realm
                              /\ r.edges[p].slot = g.edges[p].slot
                              /\ r.edges[p].group_id = g.edges[p].group_id
                              /\ r.edges[p].next_free = g.edges[p].next_free
                              /\ EdgeKey(r, p) = EdgeKey(g, p)
    /\ \A p \in Used(g) \ {e} :
          /\ r.edges[p].next_in_group = IF g.edges[p].next_in_group = e
                                        THEN g.edges[e].next_in_group
                                        ELSE g.edges[p].next_in_group
          /\ r.edges[p].next_of_slot = IF g.edges[p].next_of_slot = e
                                       THEN g.edges[e].next_of_slot
                                       ELSE g.edges[p].next_of_slot
    /\ r.edges[e].in_use = FALSE /\ r.edges[e].next_free = g.free_head
    /\ r.table \in [GroupKeys -> EdgeOrNil]
    /\ \A k \in GroupKeys : r.table[k] = IF g.table[k] = e THEN g.edges[e].next_in_group
                                                           ELSE g.table[k]
    /\ r.free_head = e
    /\ r.group_head \in [Slots -> EdgeOrNil]
    /\ \A t \in Slots : r.group_head[t] = IF g.group_head[t] = e
                                          THEN g.edges[e].next_of_slot
                                          ELSE g.group_head[t]
    /\ r.group_quota = Release(g.group_quota, g.edges[e].realm)
    /\ r = [edges |-> r.edges, table |-> r.table, free_head |-> r.free_head,
            group_head |-> r.group_head, group_quota |-> r.group_quota]

LEMMA ReleaseEdgeFields ==
    ASSUME NEW g, GroupsInv(g), NEW s \in Slots, NEW e \in Owned(g, s)
    PROVE  ReleasedAs(g, ReleaseGroupEdge(g, s, e), e, s)
  <1> DEFINE r == ReleaseGroupEdge(g, s, e)
             edge == g.edges[e]
             k == EdgeKey(g, e)
             isHead == g.table[k] = e
             isSlotHead == g.group_head[s] = e
             A(p) == IF /\ ~isHead /\ g.edges[p].in_use /\ EdgeKey(g, p) = k
                        /\ g.edges[p].next_in_group = e
                     THEN edge.next_in_group ELSE g.edges[p].next_in_group
             B(p) == IF /\ ~isSlotHead /\ g.edges[p].in_use /\ g.edges[p].slot = s
                        /\ g.edges[p].next_of_slot = e
                     THEN edge.next_of_slot ELSE g.edges[p].next_of_slot
  <1>0. /\ g.edges \in [Edges -> Edge] /\ g.table \in [GroupKeys -> EdgeOrNil]
        /\ g.free_head \in EdgeOrNil /\ g.group_head \in [Slots -> EdgeOrNil]
        /\ \A p \in Edges : /\ g.edges[p] \in Edge
                            /\ g.edges[p].in_use \in BOOLEAN
                            /\ g.edges[p].next_in_group \in EdgeOrNil
                            /\ g.edges[p].next_of_slot \in EdgeOrNil
        /\ Used(g) \in SUBSET Edges
    BY GroupTypes DEF GroupsInv
  <1>1. /\ e \in Used(g) /\ e \in Edges /\ edge.slot = s /\ edge.in_use
        /\ edge.realm \in Realms /\ edge.group_id \in GroupIds
        /\ k \in GroupKeys /\ e # Nil
    BY <1>0, EdgeConstants DEF Owned, Used, GroupsInv, EdgeContexts, EdgeKey, GroupKeys
  <1>2. /\ r.edges = [p \in Edges |->
                        IF p = e THEN FreeEdge(g.free_head)
                        ELSE [g.edges[p] EXCEPT !.next_in_group = A(p),
                                                !.next_of_slot = B(p)]]
        /\ r.table = IF isHead THEN [g.table EXCEPT ![k] = edge.next_in_group] ELSE g.table
        /\ r.free_head = e
        /\ r.group_head = IF isSlotHead
                          THEN [g.group_head EXCEPT ![s] = edge.next_of_slot]
                          ELSE g.group_head
        /\ r.group_quota = Release(g.group_quota, edge.realm)
        /\ r = [edges |-> r.edges, table |-> r.table, free_head |-> r.free_head,
                group_head |-> r.group_head, group_quota |-> r.group_quota]
    BY DEF ReleaseGroupEdge
  <1>3. \A p \in Edges : A(p) \in EdgeOrNil /\ B(p) \in EdgeOrNil
    BY <1>0, <1>1
  (* the walks stop at the one edge that points to e *)
  <1>4. /\ \A p \in Used(g) : g.edges[p].next_in_group = e => EdgeKey(g, p) = k /\ ~isHead
        /\ \A j \in GroupKeys : g.table[j] = e => j = k
    <2>1. PICK rank \in [Edges -> Nat] :
             Threaded(Used(g), NextInGroup(g), g.table, GroupOf(g), rank)
      BY DEF GroupsInv, GroupsThreaded
    <2>2. \A p \in Edges : /\ NextInGroup(g)[p] = g.edges[p].next_in_group
                           /\ GroupOf(g)[p] = EdgeKey(g, p)
      BY DEF NextInGroup, GroupOf
    <2>3. /\ \A p \in Used(g) : NextInGroup(g)[p] = e =>
                GroupOf(g)[e] = GroupOf(g)[p] /\ g.table[GroupOf(g)[e]] # e
          /\ \A j \in GroupKeys : g.table[j] = e => GroupOf(g)[e] = j
      BY <1>0, <1>1, <2>1 DEF Threaded
    <2> QED BY <1>0, <1>1, <2>2, <2>3
  <1>5. /\ \A p \in Used(g) : g.edges[p].next_of_slot = e => g.edges[p].slot = s /\ ~isSlotHead
        /\ \A t \in Slots : g.group_head[t] = e => t = s
    <2>1. PICK rank \in [Edges -> Nat] :
             Threaded(Used(g), NextOfSlot(g), g.group_head, OwnerOf(g), rank)
      BY DEF GroupsInv, OwnersThreaded
    <2>2. \A p \in Edges : /\ NextOfSlot(g)[p] = g.edges[p].next_of_slot
                           /\ OwnerOf(g)[p] = g.edges[p].slot
      BY DEF NextOfSlot, OwnerOf
    <2>3. /\ \A p \in Used(g) : NextOfSlot(g)[p] = e =>
                OwnerOf(g)[e] = OwnerOf(g)[p] /\ g.group_head[OwnerOf(g)[e]] # e
          /\ \A t \in Slots : g.group_head[t] = e => OwnerOf(g)[e] = t
      BY <1>0, <1>1, <2>1 DEF Threaded
    <2> QED BY <1>0, <1>1, <2>2, <2>3
  <1>6. \A p \in Used(g) :
           /\ A(p) = IF g.edges[p].next_in_group = e THEN edge.next_in_group
                                                     ELSE g.edges[p].next_in_group
           /\ B(p) = IF g.edges[p].next_of_slot = e THEN edge.next_of_slot
                                                    ELSE g.edges[p].next_of_slot
    BY <1>4, <1>5 DEF Used
  <1> HIDE DEF r, A, B
  <1>7. /\ r.table \in [GroupKeys -> EdgeOrNil]
        /\ \A j \in GroupKeys : r.table[j] = IF g.table[j] = e THEN edge.next_in_group
                                                               ELSE g.table[j]
    <2>1. CASE isHead
      <3>1. r.table = [g.table EXCEPT ![k] = edge.next_in_group]
        BY <1>2, <2>1
      <3> QED BY <1>0, <1>1, <1>4, <2>1, <3>1
    <2>2. CASE ~isHead
      BY <1>0, <1>2, <1>4, <2>2
    <2> QED BY <2>1, <2>2
  <1>8. /\ r.group_head \in [Slots -> EdgeOrNil]
        /\ \A t \in Slots : r.group_head[t] = IF g.group_head[t] = e
                                              THEN edge.next_of_slot
                                              ELSE g.group_head[t]
    <2>1. CASE isSlotHead
      <3>1. r.group_head = [g.group_head EXCEPT ![s] = edge.next_of_slot]
        BY <1>2, <2>1
      <3> QED BY <1>0, <1>1, <1>5, <2>1, <3>1
    <2>2. CASE ~isSlotHead
      BY <1>0, <1>2, <1>5, <2>2
    <2> QED BY <2>1, <2>2
  <1>9. \A p \in Edges \ {e} : /\ r.edges[p] \in Edge
                               /\ r.edges[p].in_use = g.edges[p].in_use
                               /\ r.edges[p].realm = g.edges[p].realm
                               /\ r.edges[p].slot = g.edges[p].slot
                               /\ r.edges[p].group_id = g.edges[p].group_id
                               /\ r.edges[p].next_free = g.edges[p].next_free
                               /\ r.edges[p].next_in_group = A(p)
                               /\ r.edges[p].next_of_slot = B(p)
    <2> SUFFICES ASSUME NEW p \in Edges \ {e}
                 PROVE  /\ r.edges[p] \in Edge
                        /\ r.edges[p].in_use = g.edges[p].in_use
                        /\ r.edges[p].realm = g.edges[p].realm
                        /\ r.edges[p].slot = g.edges[p].slot
                        /\ r.edges[p].group_id = g.edges[p].group_id
                        /\ r.edges[p].next_free = g.edges[p].next_free
                        /\ r.edges[p].next_in_group = A(p)
                        /\ r.edges[p].next_of_slot = B(p)
      OBVIOUS
    <2>1. r.edges[p] = [g.edges[p] EXCEPT !.next_in_group = A(p), !.next_of_slot = B(p)]
      BY <1>2
    <2>2. g.edges[p] \in Edge /\ A(p) \in EdgeOrNil /\ B(p) \in EdgeOrNil
      BY <1>0, <1>3
    <2>3. PICK x \in Edge, a \in EdgeOrNil, b \in EdgeOrNil, y \in {r.edges[p]} :
             x = g.edges[p] /\ a = A(p) /\ b = B(p)
      BY <2>2
    <2>4. y = [x EXCEPT !.next_in_group = a, !.next_of_slot = b]
      BY <2>1, <2>3
    <2>5. /\ y \in Edge
          /\ y.in_use = x.in_use /\ y.realm = x.realm /\ y.slot = x.slot
          /\ y.group_id = x.group_id /\ y.next_free = x.next_free
          /\ y.next_in_group = a /\ y.next_of_slot = b
      BY <2>4 DEF Edge
    <2> QED BY <2>3, <2>5
  <1>10. /\ r.edges[e] \in Edge
         /\ r.edges[e].in_use = FALSE /\ r.edges[e].next_free = g.free_head
    <2>1. r.edges[e] = FreeEdge(g.free_head)
      BY <1>1, <1>2
    <2> QED BY <1>0, <2>1 DEF FreeEdge, Edge, EdgeOrNil, SlotOrNil
  <1>11. r.edges \in [Edges -> Edge]
    <2>1. DOMAIN r.edges = Edges /\ r.edges = [p \in Edges |-> r.edges[p]]
      BY <1>2
    <2> QED BY <1>9, <1>10, <2>1
  <1>12. \A p \in Edges \ {e} : EdgeKey(r, p) = EdgeKey(g, p)
    BY <1>9 DEF EdgeKey
  <1>13. \A p \in Used(g) \ {e} :
          /\ r.edges[p].next_in_group = IF g.edges[p].next_in_group = e
                                        THEN edge.next_in_group
                                        ELSE g.edges[p].next_in_group
          /\ r.edges[p].next_of_slot = IF g.edges[p].next_of_slot = e
                                       THEN edge.next_of_slot
                                       ELSE g.edges[p].next_of_slot
    BY <1>0, <1>6, <1>9
  <1> QED BY <1>2, <1>7, <1>8, <1>9, <1>10, <1>11, <1>12, <1>13 DEF ReleasedAs, r

LEMMA ReleaseGood ==
    ASSUME NEW g, GroupsInv(g), NEW s \in Slots, NEW e \in Owned(g, s)
    PROVE  LET r == ReleaseGroupEdge(g, s, e) IN
           /\ GroupsInv(r)
           /\ Used(r) = Used(g) \ {e}
           /\ \A p \in Used(r) : /\ r.edges[p].slot = g.edges[p].slot
                                 /\ r.edges[p].realm = g.edges[p].realm
                                 /\ EdgeKey(r, p) = EdgeKey(g, p)
  <1> DEFINE r == ReleaseGroupEdge(g, s, e)
  <1>0. /\ g \in GroupsType /\ Used(g) \in SUBSET Edges /\ IsFiniteSet(Used(g))
        /\ g.table \in [GroupKeys -> EdgeOrNil] /\ g.group_head \in [Slots -> EdgeOrNil]
        /\ g.group_quota \in QuotaType
        /\ e \in Used(g) /\ e \in Edges /\ e \in EdgeOrNil
        /\ Edges \ Used(g) \in SUBSET Edges
    BY GroupTypes DEF GroupsInv, Owned, EdgeOrNil
  <1>a. ReleasedAs(g, r, e, s)
    BY ReleaseEdgeFields
  <1> HIDE DEF r
  <1>1. /\ \A p \in Edges \ {e} : /\ r.edges[p].in_use = g.edges[p].in_use
                                  /\ r.edges[p].realm = g.edges[p].realm
                                  /\ r.edges[p].slot = g.edges[p].slot
                                  /\ r.edges[p].group_id = g.edges[p].group_id
                                  /\ r.edges[p].next_free = g.edges[p].next_free
                                  /\ EdgeKey(r, p) = EdgeKey(g, p)
        /\ r.edges[e].in_use = FALSE /\ r.edges[e].next_free = g.free_head
        /\ r.free_head = e
        /\ r.group_quota = Release(g.group_quota, g.edges[e].realm)
    BY <1>a DEF ReleasedAs
  <1>2. Used(r) = Used(g) \ {e}
    BY <1>0, <1>1 DEF Used
  <1>3. /\ \A p \in Edges : /\ NextFreeEdge(g)[p] = g.edges[p].next_free
                            /\ NextInGroup(g)[p] = g.edges[p].next_in_group
                            /\ NextOfSlot(g)[p] = g.edges[p].next_of_slot
                            /\ GroupOf(g)[p] = EdgeKey(g, p)
                            /\ OwnerOf(g)[p] = g.edges[p].slot
        /\ \A p \in Edges : /\ NextFreeEdge(r)[p] = r.edges[p].next_free
                            /\ NextInGroup(r)[p] = r.edges[p].next_in_group
                            /\ NextOfSlot(r)[p] = r.edges[p].next_of_slot
                            /\ GroupOf(r)[p] = EdgeKey(r, p)
                            /\ OwnerOf(r)[p] = r.edges[p].slot
        /\ \A p \in Edges : TheFreeList[p] = 0
        /\ DOMAIN FreeHeads(g) = {0} /\ FreeHeads(g)[0] = g.free_head
        /\ DOMAIN FreeHeads(r) = {0} /\ FreeHeads(r)[0] = r.free_head
    BY DEF NextFreeEdge, NextInGroup, NextOfSlot, GroupOf, OwnerOf, FreeHeads, TheFreeList
  <1>4. CountsEntries(r.group_quota, Used(r), r.edges) /\ r.group_quota \in QuotaType
    <2>1. /\ Release(g.group_quota, g.edges[e].realm) \in QuotaType
          /\ CountsEntries(Release(g.group_quota, g.edges[e].realm), Used(g) \ {e}, g.edges)
      BY <1>0, CountsRelease DEF GroupsInv
    <2>2. \A p \in Used(g) \ {e} : r.edges[p].realm = g.edges[p].realm
      BY <1>0, <1>1
    <2>3. CountsEntries(Release(g.group_quota, g.edges[e].realm), Used(g) \ {e}, r.edges)
      BY <2>1, <2>2, CountsSame
    <2> QED BY <1>1, <1>2, <2>1, <2>3
  <1>5. r \in GroupsType
    <2>1. r = [edges |-> r.edges, table |-> r.table, free_head |-> r.free_head,
               group_head |-> r.group_head, group_quota |-> r.group_quota]
      BY <1>a DEF ReleasedAs
    <2>2. /\ r.edges \in [Edges -> Edge] /\ r.table \in [GroupKeys -> EdgeOrNil]
          /\ r.group_head \in [Slots -> EdgeOrNil]
      BY <1>a DEF ReleasedAs
    <2> QED BY <1>0, <1>1, <1>4, <2>1, <2>2 DEF GroupsType
  <1>6. FreeThreaded(r)
    <2>1. PICK rank \in [Edges -> Nat] :
             Threaded(Edges \ Used(g), NextFreeEdge(g), FreeHeads(g), TheFreeList, rank)
      BY DEF GroupsInv, FreeThreaded
    <2>2. PushOf(e, 0, Edges \ Used(g), NextFreeEdge(g), FreeHeads(g), TheFreeList,
                 NextFreeEdge(r), FreeHeads(r), TheFreeList)
      BY <1>0, <1>1, <1>3 DEF PushOf
    <2>3. \E r2 \in [Edges -> Nat] :
             Threaded((Edges \ Used(g)) \cup {e}, NextFreeEdge(r), FreeHeads(r), TheFreeList, r2)
      BY <1>0, <2>1, <2>2, Pushed
    <2>4. Edges \ Used(r) = (Edges \ Used(g)) \cup {e}
      BY <1>0, <1>2
    <2> QED BY <2>3, <2>4 DEF FreeThreaded
  <1>7. GroupsThreaded(r)
    <2>1. PICK rank \in [Edges -> Nat] :
             Threaded(Used(g), NextInGroup(g), g.table, GroupOf(g), rank)
      BY DEF GroupsInv, GroupsThreaded
    <2>2. \A p \in Used(g) \ {e} :
             NextInGroup(r)[p] = IF NextInGroup(g)[p] = e THEN NextInGroup(g)[e]
                                                          ELSE NextInGroup(g)[p]
      BY <1>0, <1>3, <1>a DEF ReleasedAs
    <2>3. /\ DOMAIN r.table = GroupKeys
          /\ \A k \in GroupKeys : r.table[k] = IF g.table[k] = e THEN NextInGroup(g)[e]
                                                                 ELSE g.table[k]
      BY <1>0, <1>3, <1>a DEF ReleasedAs
    <2>4. \A p \in Used(g) \ {e} : GroupOf(r)[p] = GroupOf(g)[p]
      BY <1>0, <1>1, <1>3
    <2>5. UnlinkOf(e, Used(g), NextInGroup(g), g.table, GroupOf(g),
                   NextInGroup(r), r.table, GroupOf(r))
      BY <1>0, <2>2, <2>3, <2>4 DEF UnlinkOf
    <2>6. Threaded(Used(g) \ {e}, NextInGroup(r), r.table, GroupOf(r), rank)
      BY <1>0, <2>1, <2>5, Unlinked
    <2> QED BY <1>2, <2>6 DEF GroupsThreaded
  <1>8. OwnersThreaded(r)
    <2>1. PICK rank \in [Edges -> Nat] :
             Threaded(Used(g), NextOfSlot(g), g.group_head, OwnerOf(g), rank)
      BY DEF GroupsInv, OwnersThreaded
    <2>2. \A p \in Used(g) \ {e} :
             NextOfSlot(r)[p] = IF NextOfSlot(g)[p] = e THEN NextOfSlot(g)[e]
                                                        ELSE NextOfSlot(g)[p]
      BY <1>0, <1>3, <1>a DEF ReleasedAs
    <2>3. /\ DOMAIN r.group_head = Slots
          /\ \A t \in Slots : r.group_head[t] = IF g.group_head[t] = e THEN NextOfSlot(g)[e]
                                                                       ELSE g.group_head[t]
      BY <1>0, <1>3, <1>a DEF ReleasedAs
    <2>4. \A p \in Used(g) \ {e} : OwnerOf(r)[p] = OwnerOf(g)[p]
      BY <1>0, <1>1, <1>3
    <2>5. UnlinkOf(e, Used(g), NextOfSlot(g), g.group_head, OwnerOf(g),
                   NextOfSlot(r), r.group_head, OwnerOf(r))
      BY <1>0, <2>2, <2>3, <2>4 DEF UnlinkOf
    <2>6. Threaded(Used(g) \ {e}, NextOfSlot(r), r.group_head, OwnerOf(r), rank)
      BY <1>0, <2>1, <2>5, Unlinked
    <2> QED BY <1>2, <2>6 DEF OwnersThreaded
  <1>9. \A p \in Used(r) : /\ p \in Used(g) /\ r.edges[p].slot = g.edges[p].slot
                           /\ r.edges[p].realm = g.edges[p].realm
                           /\ r.edges[p].group_id = g.edges[p].group_id
                           /\ EdgeKey(r, p) = EdgeKey(g, p)
    BY <1>0, <1>1, <1>2
  <1>10. EdgeContexts(r) /\ OneEdgeEach(r)
    BY <1>9 DEF GroupsInv, EdgeContexts, OneEdgeEach
  <1>11. GroupsInv(r)
    BY <1>4, <1>5, <1>6, <1>7, <1>8, <1>10 DEF GroupsInv
  <1> QED BY <1>2, <1>9, <1>11 DEF r


-------------------------------------------------------------------------------
(* leaveGroup and leaveAllGroups.                                          *)

LEMMA LeaveGood ==
    ASSUME NEW g, GroupsInv(g), NEW s \in Slots, NEW realm, NEW group,
           IsGroupMember(g, s, realm, group)
    PROVE  \E e \in Owned(g, s) : /\ EdgeKey(g, e) = <<realm, group>>
                                  /\ Leave(g, s, realm, group) = ReleaseGroupEdge(g, s, e)
  <1> DEFINE M == {e \in SlotEdges(g, s) : EdgeKey(g, e) = <<realm, group>>}
             first == CHOOSE e \in M : M \subseteq Walk(NextOfSlot(g), e)
  <1>1. SlotEdges(g, s) = Owned(g, s) /\ Used(g) \in SUBSET Edges
    BY EdgeWalks, GroupTypes DEF GroupsInv
  <1>2. M # {}
    BY DEF IsGroupMember
  <1>3. Leave(g, s, realm, group) = ReleaseGroupEdge(g, s, first)
    BY <1>2 DEF Leave
  <1>4. \A e, f \in M : e = f
    BY <1>1 DEF GroupsInv, OneEdgeEach, Owned
  <1>5. PICK e \in M : TRUE
    BY <1>2
  <1>6. M = {e}
    BY <1>4, <1>5
  <1>7. e \in Owned(g, s) /\ e \in Edges /\ EdgeKey(g, e) = <<realm, group>>
    BY <1>1, <1>5 DEF Owned
  <1>8. e \in Walk(NextOfSlot(g), e)
    BY <1>7, EdgeConstants DEF Walk, Follows, NextOfSlot
  <1>9. first = e
    <2>1. first \in M /\ M \subseteq Walk(NextOfSlot(g), first)
      <3>1. \E x \in M : M \subseteq Walk(NextOfSlot(g), x)
        BY <1>6, <1>8
      <3> HIDE DEF M
      <3> QED BY <3>1
    <2> QED BY <1>6, <2>1
  <1> QED BY <1>3, <1>7, <1>9

(* One round of leaveAllGroups, and the sequence of the rounds. *)
Round(left, s) ==
    IF left.group_head[s] = Nil THEN left
    ELSE ReleaseGroupEdge(left, s, left.group_head[s])

AreRounds(f, g, s) ==
    f = [n \in 0 .. EdgeCapacity |-> IF n = 0 THEN g ELSE Round(f[n - 1], s)]

LEMMA RoundsExist ==
    ASSUME NEW g, NEW s
    PROVE  \E f : AreRounds(f, g, s)
  <1> DEFINE D == 0 .. EdgeCapacity
             Upto(m, f) == f = [n \in 0 .. m |-> IF n = 0 THEN g ELSE Round(f[n - 1], s)]
             Bad == {m \in D : ~ \E f : Upto(m, f)}
             id == [m \in Bad |-> m]
  <1>0. EdgeCapacity \in Nat
    BY EdgeConstants
  <1>1. ASSUME Bad # {} PROVE FALSE
    <2>1. id \in [Bad -> Nat]
      BY <1>0
    <2>2. PICK m \in Bad : \A k \in Bad : id[m] <= id[k]
      <3> HIDE DEF Bad, id
      <3> QED BY <1>1, <2>1, LeastElement
    <2>3. m \in D /\ ~ \E f : Upto(m, f)
      OBVIOUS
    <2>4. CASE m = 0
      <3>1. Upto(0, [n \in 0 .. 0 |-> g])
        OBVIOUS
      <3> QED BY <2>3, <2>4, <3>1
    <2>5. CASE m # 0
      <3>1. m - 1 \in D /\ m - 1 < m /\ m \in Nat
        BY <1>0, <2>3, <2>5
      <3>2. m - 1 \notin Bad
        <4> SUFFICES ASSUME m - 1 \in Bad PROVE FALSE
          OBVIOUS
        <4>1. id[m] <= id[m - 1] /\ id[m] = m /\ id[m - 1] = m - 1
          BY <2>2
        <4> QED BY <3>1, <4>1
      <3>3. PICK f : Upto(m - 1, f)
        BY <3>1, <3>2
      <3> DEFINE h == [n \in 0 .. m |-> IF n = m THEN Round(f[m - 1], s) ELSE f[n]]
      <3>4. \A n \in 0 .. m - 1 : h[n] = f[n]
        BY <3>1
      <3>5. \A n \in 0 .. m : h[n] = IF n = 0 THEN g ELSE Round(h[n - 1], s)
        <4> SUFFICES ASSUME NEW n \in 0 .. m
                     PROVE  h[n] = IF n = 0 THEN g ELSE Round(h[n - 1], s)
          OBVIOUS
        <4>1. CASE n = m
          <5>1. h[n] = Round(f[m - 1], s) /\ h[m - 1] = f[m - 1]
            BY <3>1, <3>4, <4>1
          <5> QED BY <2>5, <4>1, <5>1
        <4>2. CASE n # m
          <5>1. n \in 0 .. m - 1 /\ (n # 0 => n - 1 \in 0 .. m - 1)
            BY <3>1, <4>2
          <5>2. f[n] = IF n = 0 THEN g ELSE Round(f[n - 1], s)
            BY <3>3, <5>1
          <5> QED BY <3>4, <5>1, <5>2
        <4> QED BY <4>1, <4>2
      <3>6. Upto(m, h)
        <4>1. h = [n \in 0 .. m |-> h[n]]
          OBVIOUS
        <4> HIDE DEF h
        <4> QED BY <3>5, <4>1
      <3> QED BY <2>3, <3>6
    <2> QED BY <2>4, <2>5
  <1>2. EdgeCapacity \in D /\ EdgeCapacity \notin Bad
    BY <1>0, <1>1
  <1>3. \E f : Upto(EdgeCapacity, f)
    BY <1>2
  <1> QED BY <1>3 DEF AreRounds

LEMMA LeaveAllRounds ==
    ASSUME NEW g, NEW s
    PROVE  \E f : AreRounds(f, g, s) /\ LeaveAll(g, s) = f[EdgeCapacity]
  <1> DEFINE after == CHOOSE f : AreRounds(f, g, s)
  <1>1. AreRounds(after, g, s)
    BY RoundsExist
  <1>2. LeaveAll(g, s) = after[EdgeCapacity]
    BY DEF LeaveAll, AreRounds, Round
  <1> QED BY <1>1, <1>2

(* What a number of rounds leaves of g. *)
LeftOf(f, g, s, n) ==
    /\ GroupsInv(f[n])
    /\ Used(f[n]) \subseteq Used(g)
    /\ \A p \in Used(g) \ Used(f[n]) : p \in Owned(g, s)
    /\ \A p \in Used(f[n]) : /\ f[n].edges[p].slot = g.edges[p].slot
                             /\ f[n].edges[p].realm = g.edges[p].realm
                             /\ EdgeKey(f[n], p) = EdgeKey(g, p)
    /\ \/ Owned(f[n], s) = {}
       \/ Cardinality(Owned(f[n], s)) <= EdgeCapacity - n

LEMMA OwnedBound ==
    ASSUME NEW g, GroupsInv(g), NEW s \in Slots
    PROVE  /\ IsFiniteSet(Owned(g, s)) /\ Cardinality(Owned(g, s)) \in Nat
           /\ Cardinality(Owned(g, s)) <= EdgeCapacity
           /\ g.group_head[s] = Nil => Owned(g, s) = {}
           /\ g.group_head[s] # Nil => g.group_head[s] \in Owned(g, s)
  <1>1. Owned(g, s) \in SUBSET Edges /\ Owned(g, s) = SlotEdges(g, s)
        /\ DOMAIN g.group_head = Slots /\ Used(g) \in SUBSET Edges
    BY GroupTypes, EdgeWalks DEF GroupsInv, Owned
  <1>2. Cardinality(Edges) = EdgeCapacity
    <2>1. Cardinality(0 .. EdgeCapacity - 1) = EdgeCapacity
      BY EdgeConstants, FS_Interval
    <2> QED BY <2>1 DEF Edges
  <1>3. /\ IsFiniteSet(Owned(g, s)) /\ Cardinality(Owned(g, s)) \in Nat
        /\ Cardinality(Owned(g, s)) <= EdgeCapacity
    BY <1>1, <1>2, EdgeConstants, FS_Subset, FS_CardinalityType
  <1>4. g.group_head[s] = Nil => Owned(g, s) = {}
    <2>1. ASSUME NEW next PROVE Walk(next, Nil) = {}
      <3>1. Follows(next, Nil, {}) /\ {} \in SUBSET DOMAIN next
        BY DEF Follows
      <3> QED BY <3>1 DEF Walk
    <2> QED BY <1>1, <2>1 DEF SlotEdges
  <1>5. ASSUME g.group_head[s] # Nil PROVE g.group_head[s] \in Owned(g, s)
    <2>1. PICK rank \in [Edges -> Nat] :
             Threaded(Used(g), NextOfSlot(g), g.group_head, OwnerOf(g), rank)
      BY DEF GroupsInv, OwnersThreaded
    <2>2. g.group_head[s] \in Used(g) /\ OwnerOf(g)[g.group_head[s]] = s
      BY <1>1, <1>5, <2>1 DEF Threaded
    <2> QED BY <1>1, <2>2 DEF OwnerOf, Owned
  <1> QED BY <1>3, <1>4, <1>5

LEMMA OneRound ==
    ASSUME NEW g, NEW s \in Slots, NEW f, NEW n \in 0 .. EdgeCapacity - 1,
           LeftOf(f, g, s, n), f[n + 1] = Round(f[n], s)
    PROVE  LeftOf(f, g, s, n + 1)
  <1>1. CASE f[n].group_head[s] = Nil
    <2>1. f[n + 1] = f[n] /\ Owned(f[n], s) = {}
      BY <1>1, OwnedBound DEF Round, LeftOf
    <2> QED BY <2>1 DEF LeftOf
  <1>2. CASE f[n].group_head[s] # Nil
    <2> DEFINE l == f[n]
               e == l.group_head[s]
               r == f[n + 1]
    <2>1. GroupsInv(l) /\ e \in Owned(l, s)
      BY <1>2, OwnedBound DEF LeftOf
    <2>2. r = ReleaseGroupEdge(l, s, e)
      BY <1>2 DEF Round
    <2> HIDE DEF l, r, e
    <2>3. /\ GroupsInv(r)
          /\ Used(r) = Used(l) \ {e}
          /\ \A p \in Used(r) : /\ r.edges[p].slot = l.edges[p].slot
                                /\ r.edges[p].realm = l.edges[p].realm
                                /\ EdgeKey(r, p) = EdgeKey(l, p)
      BY <2>1, <2>2, ReleaseGood
    <2>4. Owned(r, s) = Owned(l, s) \ {e}
      BY <2>1, <2>3 DEF Owned
    <2>5. Cardinality(Owned(r, s)) = Cardinality(Owned(l, s)) - 1
      BY <2>1, <2>4, OwnedBound, FS_RemoveElement
    <2>6. /\ Used(l) \subseteq Used(g)
          /\ \A p \in Used(g) \ Used(l) : p \in Owned(g, s)
          /\ \A p \in Used(l) : /\ l.edges[p].slot = g.edges[p].slot
                                /\ l.edges[p].realm = g.edges[p].realm
                                /\ EdgeKey(l, p) = EdgeKey(g, p)
          /\ \/ Owned(l, s) = {}
             \/ Cardinality(Owned(l, s)) <= EdgeCapacity - n
      BY DEF LeftOf, l
    <2>7. e \in Owned(g, s)
      BY <2>1, <2>6 DEF Owned
    <2>8. Cardinality(Owned(r, s)) <= EdgeCapacity - (n + 1)
      <3>1. Cardinality(Owned(l, s)) \in Nat /\ Cardinality(Owned(l, s)) <= EdgeCapacity - n
        BY <2>1, <2>6, OwnedBound
      <3> QED BY <2>5, <3>1, EdgeConstants
    <2>9. /\ Used(r) \subseteq Used(g)
          /\ \A p \in Used(g) \ Used(r) : p \in Owned(g, s)
      BY <2>3, <2>6, <2>7
    <2>10. \A p \in Used(r) : /\ r.edges[p].slot = g.edges[p].slot
                              /\ r.edges[p].realm = g.edges[p].realm
                              /\ EdgeKey(r, p) = EdgeKey(g, p)
      BY <2>3, <2>6
    <2> QED BY <2>3, <2>8, <2>9, <2>10 DEF LeftOf, r
  <1> QED BY <1>1, <1>2

(* leaveAllGroups gives back every edge of the session and no other.  The  *)
(* pool has as many edges as the loop has rounds, and a round that finds a *)
(* head edge removes one.                                                  *)
LEMMA LeaveAllGood ==
    ASSUME NEW g, GroupsInv(g), NEW s \in Slots
    PROVE  LET l == LeaveAll(g, s) IN
           /\ GroupsInv(l)
           /\ Used(l) = Used(g) \ Owned(g, s)
           /\ \A p \in Used(l) : /\ l.edges[p].slot = g.edges[p].slot
                                 /\ l.edges[p].realm = g.edges[p].realm
                                 /\ EdgeKey(l, p) = EdgeKey(g, p)
  <1> DEFINE D == 0 .. EdgeCapacity
  <1>1. PICK f : AreRounds(f, g, s) /\ LeaveAll(g, s) = f[EdgeCapacity]
    BY LeaveAllRounds
  <1> DEFINE Bad == {n \in D : ~LeftOf(f, g, s, n)}
             id == [n \in Bad |-> n]
  <1>2. EdgeCapacity \in Nat /\ 0 \in D /\ EdgeCapacity \in D
    BY EdgeConstants
  <1>3. f[0] = g /\ \A n \in 0 .. EdgeCapacity - 1 : f[n + 1] = Round(f[n], s)
    <2>1. \A n \in D : f[n] = IF n = 0 THEN g ELSE Round(f[n - 1], s)
      BY <1>1 DEF AreRounds
    <2>2. f[0] = g
      BY <1>2, <2>1
    <2>3. ASSUME NEW n \in 0 .. EdgeCapacity - 1 PROVE f[n + 1] = Round(f[n], s)
      <3>1. n + 1 \in D /\ n + 1 # 0 /\ (n + 1) - 1 = n
        BY <1>2
      <3>2. f[n + 1] = Round(f[(n + 1) - 1], s)
        BY <2>1, <3>1
      <3> QED BY <3>1, <3>2
    <2> QED BY <2>2, <2>3
  <1>4. LeftOf(f, g, s, 0)
    BY <1>2, <1>3, OwnedBound DEF LeftOf
  <1>5. ASSUME Bad # {} PROVE FALSE
    <2>1. id \in [Bad -> Nat]
      BY <1>2
    <2>2. PICK m \in Bad : \A k \in Bad : id[m] <= id[k]
      <3> HIDE DEF Bad, id
      <3> QED BY <1>5, <2>1, LeastElement
    <2>3. m \in D /\ ~LeftOf(f, g, s, m) /\ m # 0
      BY <1>4
    <2>4. m - 1 \in 0 .. EdgeCapacity - 1 /\ m - 1 \in D /\ m - 1 < m /\ (m - 1) + 1 = m
      BY <1>2, <2>3
    <2>5. LeftOf(f, g, s, m - 1)
      <3> SUFFICES ASSUME m - 1 \in Bad PROVE FALSE
        BY <2>4
      <3>1. id[m] <= id[m - 1] /\ id[m] = m /\ id[m - 1] = m - 1
        BY <2>2
      <3> QED BY <2>4, <3>1
    <2>6. LeftOf(f, g, s, (m - 1) + 1)
      BY <1>3, <2>4, <2>5, OneRound
    <2> QED BY <2>3, <2>4, <2>6
  <1> DEFINE l == LeaveAll(g, s)
  <1>6. LeftOf(f, g, s, EdgeCapacity) /\ l = f[EdgeCapacity]
    BY <1>1, <1>2, <1>5
  <1> HIDE DEF l
  <1>7. /\ GroupsInv(l)
        /\ Used(l) \subseteq Used(g)
        /\ \A p \in Used(g) \ Used(l) : p \in Owned(g, s)
        /\ \A p \in Used(l) : /\ l.edges[p].slot = g.edges[p].slot
                              /\ l.edges[p].realm = g.edges[p].realm
                              /\ EdgeKey(l, p) = EdgeKey(g, p)
        /\ \/ Owned(l, s) = {}
           \/ Cardinality(Owned(l, s)) <= EdgeCapacity - EdgeCapacity
    BY <1>6 DEF LeftOf
  <1>8. Owned(l, s) = {}
    <2>1. IsFiniteSet(Owned(l, s)) /\ Cardinality(Owned(l, s)) \in Nat
      BY <1>7, OwnedBound
    <2>2. Cardinality(Owned(l, s)) = 0 => Owned(l, s) = {}
      BY <2>1, FS_EmptySet
    <2> QED BY <1>2, <1>7, <2>1, <2>2
  <1>9. Used(l) = Used(g) \ Owned(g, s)
    <2>1. \A p \in Used(l) : p \notin Owned(g, s)
      BY <1>7, <1>8 DEF Owned
    <2> QED BY <1>7, <2>1
  <1> QED BY <1>7, <1>9 DEF l

-------------------------------------------------------------------------------
(* What the operations do to the sessions an edge may name.                *)

LEMMA Accepted ==
    ASSUME SlotsInv, NEW realm \in Realms, NEW cnx \in Cnx \cup {Nil},
           AddSession(realm, cnx)
    PROVE  /\ free_head \in Slots \ InUse
           /\ InUse' = InUse \cup {free_head}
           /\ \A t \in InUse : slots'[t].realm = slots[t].realm /\ KeyOf(t)' = KeyOf(t)
           /\ slots'[free_head].realm = realm
           /\ \A t \in {free_head} : KeyOf(t)' = <<realm, 0>>
  <1>1. /\ free_head \in Slots /\ ~slots[free_head].in_use
        /\ \A t \in Slots \ {free_head} : slots'[t] = slots[t]
        /\ slots'[free_head].in_use = TRUE
        /\ slots'[free_head].realm = realm
        /\ slots'[free_head].dest_id = 0
    BY AddFields
  <1>2. InUse' = InUse \cup {free_head}
    BY <1>1 DEF InUse
  <1>3. \A t \in InUse : slots'[t] = slots[t]
    BY <1>1 DEF InUse
  <1>4. \A t \in InUse : slots'[t].realm = slots[t].realm /\ KeyOf(t)' = KeyOf(t)
    BY <1>3 DEF KeyOf
  <1>5. \A t \in {free_head} : KeyOf(t)' = <<realm, 0>>
    BY <1>1 DEF KeyOf
  <1>6. free_head \in Slots \ InUse
    BY <1>1 DEF InUse
  <1> QED BY <1>1, <1>2, <1>4, <1>5, <1>6

LEMMA Closed ==
    ASSUME SlotsInv, NEW s \in InUse, ReleaseSlot(s)
    PROVE  /\ InUse' = InUse \ {s}
           /\ \A t \in InUse \ {s} : slots'[t].realm = slots[t].realm /\ KeyOf(t)' = KeyOf(t)
  <1>1. /\ s \in Slots
        /\ \A t \in Slots \ {s} : /\ slots'[t].in_use = slots[t].in_use
                                  /\ slots'[t].realm = slots[t].realm
                                  /\ slots'[t].dest_id = slots[t].dest_id
        /\ slots'[s].in_use = FALSE
    BY ReleaseFields DEF InUse
  <1> QED BY <1>1 DEF InUse, KeyOf

LEMMA Bound ==
    ASSUME SlotsInv, NEW h \in Handles, NEW dest \in DestIds \cup {0}, BindDest(h, dest)
    PROVE  /\ h.slot \in InUse /\ InUse' = InUse
           /\ \A t \in InUse : slots'[t].realm = slots[t].realm
           /\ \A t \in InUse \ {h.slot} : KeyOf(t)' = KeyOf(t)
           /\ KeyOf(h.slot)' = <<slots[h.slot].realm, dest>>
  <1> DEFINE s == h.slot
  <1>1. /\ s \in Slots /\ slots[s].in_use
        /\ slots' \in [Slots -> Slot]
        /\ dest_index' \in [Keys -> SlotOrNil]
        /\ \A t \in Slots : /\ slots'[t].in_use = slots[t].in_use
                            /\ slots'[t].generation = slots[t].generation
                            /\ slots'[t].realm = slots[t].realm
                            /\ slots'[t].cnx = slots[t].cnx
                            /\ slots'[t].next_free = slots[t].next_free
        /\ slots'[s].dest_id = dest
        /\ \A t \in Slots \ {s} :
              /\ slots'[t].dest_id = slots[t].dest_id
              /\ slots'[t].next_by_dest = IF slots[t].next_by_dest = s
                                          THEN slots[s].next_by_dest
                                          ELSE slots[t].next_by_dest
    BY BindFields
  <1>2. InUse' = InUse /\ s \in InUse
    BY <1>1 DEF InUse
  <1>3. \A t \in InUse : t \in Slots /\ slots'[t].realm = slots[t].realm
    BY <1>1 DEF InUse
  <1>4. /\ \A t \in InUse \ {s} : KeyOf(t)' = KeyOf(t)
        /\ KeyOf(s)' = <<slots[s].realm, dest>>
    BY <1>1, <1>3 DEF KeyOf
  <1> QED BY <1>2, <1>3, <1>4

LEMMA ClosedSomeone ==
    ASSUME SlotsInv,
           \/ \E h \in Handles : CloseSession(h)
           \/ \E cnx \in Cnx : CloseRawQuic(cnx)
    PROVE  \E s \in InUse : ReleaseSlot(s) /\ groups' = LeaveAll(groups, s)
  <1>1. ASSUME NEW h \in Handles, CloseSession(h)
        PROVE  \E s \in InUse : ReleaseSlot(s) /\ groups' = LeaveAll(groups, s)
    <2>1. h.slot \in InUse
      BY <1>1 DEF CloseSession, RemoveSession, ValidHandle, Handles, InUse
    <2> QED BY <1>1, <2>1 DEF CloseSession, RemoveSession
  <1>2. ASSUME NEW cnx \in Cnx, CloseRawQuic(cnx)
        PROVE  \E s \in InUse : ReleaseSlot(s) /\ groups' = LeaveAll(groups, s)
    <2>1. callback_index[cnx] \in Slots
      BY <1>2 DEF SlotsInv, SlotsTypeOK, SlotOrNil, CloseRawQuic, RemoveRawQuic
    <2>2. callback_index[cnx] \in InUse
      BY <2>1 DEF SlotsInv, CallbackIndexExact
    <2> QED BY <1>2, <2>2 DEF CloseRawQuic, RemoveRawQuic
  <1> QED BY <1>1, <1>2

-------------------------------------------------------------------------------
(* The invariant of the manager.                                           *)

(* An edge in use names an open session, under the realm of the session.   *)
OwnersOpen ==
    \A e \in Used(groups) : /\ groups.edges[e].slot \in InUse
                            /\ slots[groups.edges[e].slot].realm = groups.edges[e].realm

ManagerInv ==
    /\ SlotsInv
    /\ GroupsInv(groups)
    /\ OwnersOpen

(* A free slot is on no chain, so the reset of its head in addSession      *)
(* changes nothing.                                                        *)
LEMMA AcceptKeepsGroups ==
    ASSUME ManagerInv, NEW realm \in Realms, NEW cnx \in Cnx \cup {Nil}, Accept(realm, cnx)
    PROVE  groups' = groups
  <1>1. free_head \in Slots /\ free_head \notin InUse
    BY Accepted DEF ManagerInv, Accept
  <1>2. groups.group_head[free_head] = Nil
    <2>1. Owned(groups, free_head) = {}
      BY <1>1 DEF ManagerInv, OwnersOpen, Owned
    <2> QED BY <1>1, <2>1, OwnedBound DEF ManagerInv
  <1>3. groups \in GroupsType /\ groups.group_head \in [Slots -> EdgeOrNil]
    BY GroupTypes DEF ManagerInv, GroupsInv
  <1>4. [groups.group_head EXCEPT ![free_head] = Nil] = groups.group_head
    BY <1>1, <1>2, <1>3
  <1>5. groups' = [groups EXCEPT !.group_head = [groups.group_head EXCEPT ![free_head] = Nil]]
    BY DEF Accept
  <1> QED BY <1>3, <1>4, <1>5 DEF GroupsType

(* What a join and a leave find: the session is open, and the realm is its *)
(* own.                                                                    *)
LEMMA Authority ==
    ASSUME ManagerInv, NEW i, NEW h \in Handles, NEW realm, Authorized(i, h, realm)
    PROVE  h.slot \in InUse /\ h.slot \in Slots /\ slots[h.slot].realm \in Realms
  BY DEF ManagerInv, SlotsInv, SlotContexts, Authorized, ValidToken, Handles, InUse

LEMMA Joining ==
    ASSUME ManagerInv, NEW i, NEW h \in Handles, NEW realm, NEW group \in GroupIds,
           JoinGroup(i, h, realm, group)
    PROVE  LET s == h.slot
               r == slots[s].realm
           IN /\ s \in InUse /\ s \in Slots /\ r \in Realms
              /\ groups' = Join(groups, s, r, group)
              /\ groups.free_head # Nil
              /\ \A e \in Owned(groups, s) : EdgeKey(groups, e) # <<r, group>>
  <1> DEFINE s == h.slot
             r == slots[s].realm
  <1>1. /\ s \in InUse /\ s \in Slots /\ r \in Realms
    BY Authority DEF JoinGroup
  <1>2. /\ groups' = Join(groups, s, r, group) /\ groups.free_head # Nil
        /\ ~IsGroupMember(groups, s, r, group)
    BY DEF JoinGroup, CanJoin
  <1>3. SlotEdges(groups, s) = Owned(groups, s)
    BY <1>1, EdgeWalks DEF ManagerInv
  <1> HIDE DEF s, r
  <1>4. \A e \in Owned(groups, s) : EdgeKey(groups, e) # <<r, group>>
    BY <1>2, <1>3 DEF IsGroupMember
  <1> QED BY <1>1, <1>2, <1>4 DEF s, r

LEMMA Leaving ==
    ASSUME ManagerInv, NEW i, NEW h \in Handles, NEW realm, NEW group \in GroupIds,
           LeaveGroup(i, h, realm, group)
    PROVE  LET s == h.slot
               r == slots[s].realm
           IN /\ s \in InUse /\ s \in Slots /\ r \in Realms
              /\ \E e \in Owned(groups, s) :
                    /\ EdgeKey(groups, e) = <<r, group>>
                    /\ groups' = ReleaseGroupEdge(groups, s, e)
  <1> DEFINE s == h.slot
             r == slots[s].realm
  <1>1. /\ s \in InUse /\ s \in Slots /\ r \in Realms
    BY Authority DEF LeaveGroup
  <1>2. /\ groups' = Leave(groups, s, r, group)
        /\ IsGroupMember(groups, s, r, group)
    BY DEF LeaveGroup
  <1>3. GroupsInv(groups)
    BY DEF ManagerInv
  <1> HIDE DEF s, r
  <1>4. \E e \in Owned(groups, s) :
           /\ EdgeKey(groups, e) = <<r, group>>
           /\ Leave(groups, s, r, group) = ReleaseGroupEdge(groups, s, e)
    BY <1>1, <1>2, <1>3, LeaveGood
  <1> QED BY <1>1, <1>2, <1>4 DEF s, r

LEMMA ManagerStart == Init => ManagerInv
  <1> SUFFICES ASSUME Init PROVE ManagerInv
    OBVIOUS
  <1>1. SlotsInv
    <2>1. Fresh
      BY SlotsAssumption DEF Init, SlotsInit, Fresh
    <2> QED BY <2>1, FreshInv
  <1>2. GroupsInv(groups) /\ Used(groups) = {}
    BY FreshGood DEF Init
  <1> QED BY <1>1, <1>2 DEF ManagerInv, OwnersOpen

LEMMA ManagerStep == ManagerInv /\ [Next]_vars => ManagerInv'
  <1> SUFFICES ASSUME ManagerInv, [Next]_vars PROVE ManagerInv'
    OBVIOUS
  <1>0. SlotsInv /\ GroupsInv(groups) /\ OwnersOpen
    BY DEF ManagerInv
  <1>1. SlotsInv'
    <2>1. [SlotsNext]_slotVars
      BY DEF Next, vars, Crash, Accept, CloseSession, CloseRawQuic, Authenticate,
             JoinGroup, LeaveGroup, SlotsNext
    <2> QED BY <1>0, <2>1, StepInv
  <1> DEFINE Goal == GroupsInv(groups') /\ OwnersOpen'
  <1>2. ASSUME Crash PROVE Goal
    <2>1. groups' = FreshGroups
      BY <1>2 DEF Crash
    <2>2. GroupsInv(groups') /\ Used(groups') = {}
      BY <2>1, FreshGood
    <2>3. OwnersOpen'
      BY <2>2 DEF OwnersOpen
    <2> QED BY <2>2, <2>3
  <1>3. ASSUME NEW realm \in Realms, NEW cnx \in Cnx \cup {Nil}, Accept(realm, cnx)
        PROVE  Goal
    <2>1. groups' = groups
      BY <1>3, AcceptKeepsGroups
    <2>2. /\ InUse' = InUse \cup {free_head}
          /\ \A t \in InUse : slots'[t].realm = slots[t].realm
      BY <1>0, <1>3, Accepted DEF Accept
    <2> QED BY <1>0, <2>1, <2>2 DEF OwnersOpen
  <1>4. ASSUME \/ \E h \in Handles : CloseSession(h)
               \/ \E cnx \in Cnx : CloseRawQuic(cnx)
        PROVE  Goal
    <2>1. PICK s \in InUse : ReleaseSlot(s) /\ groups' = LeaveAll(groups, s)
      BY <1>0, <1>4, ClosedSomeone
    <2>2. s \in Slots
      BY DEF InUse
    <2>3. /\ InUse' = InUse \ {s}
          /\ \A t \in InUse \ {s} : slots'[t].realm = slots[t].realm
      BY <1>0, <2>1, Closed
    <2>4. /\ GroupsInv(groups')
          /\ Used(groups') = Used(groups) \ Owned(groups, s)
          /\ \A p \in Used(groups') : /\ groups'.edges[p].slot = groups.edges[p].slot
                                      /\ groups'.edges[p].realm = groups.edges[p].realm
      BY <1>0, <2>1, <2>2, LeaveAllGood
    <2>5. \A p \in Used(groups') : p \in Used(groups) /\ groups.edges[p].slot # s
      BY <2>4 DEF Owned
    <2>6. OwnersOpen'
      BY <1>0, <2>3, <2>4, <2>5 DEF OwnersOpen
    <2> QED BY <2>4, <2>6
  <1>5. ASSUME NEW h \in Handles, NEW dest \in DestIds \cup {0}, Authenticate(h, dest)
        PROVE  Goal
    <2>1. groups' = groups /\ BindDest(h, dest)
      BY <1>5 DEF Authenticate
    <2>2. /\ InUse' = InUse
          /\ \A t \in InUse : slots'[t].realm = slots[t].realm
      BY <1>0, <2>1, Bound
    <2> QED BY <1>0, <2>1, <2>2 DEF OwnersOpen
  <1>6. ASSUME NEW i, NEW h \in Handles, NEW realm, NEW group \in GroupIds,
               JoinGroup(i, h, realm, group)
        PROVE  Goal
    <2> DEFINE s == h.slot
               r == slots[s].realm
               e == groups.free_head
    <2>1. /\ s \in InUse /\ s \in Slots /\ r \in Realms
          /\ groups' = Join(groups, s, r, group)
          /\ e # Nil
          /\ \A x \in Owned(groups, s) : EdgeKey(groups, x) # <<r, group>>
      BY <1>6, Joining
    <2>2. UNCHANGED slots
      BY <1>6 DEF JoinGroup, slotVars
    <2>3. InUse' = InUse
      BY <2>2 DEF InUse
    <2> HIDE DEF s, r
    <2>4. /\ GroupsInv(groups') /\ e \notin Used(groups)
          /\ Used(groups') = Used(groups) \cup {e}
      BY <1>0, <2>1, JoinGood
    <2>5. JoinedAs(groups, groups', e, s, r, group)
      BY <1>0, <2>1, JoinFields DEF GroupsInv
    <2>6. /\ \A p \in Edges \ {e} : groups'.edges[p] = groups.edges[p]
          /\ groups'.edges[e].slot = s /\ groups'.edges[e].realm = r
      BY <2>5 DEF JoinedAs
    <2>7. \A p \in Used(groups) : groups'.edges[p] = groups.edges[p]
      BY <2>4, <2>6 DEF Used
    <2>8. slots[s].realm = r
      BY DEF s, r
    <2>9. OwnersOpen'
      BY <1>0, <2>1, <2>2, <2>3, <2>4, <2>6, <2>7, <2>8 DEF OwnersOpen
    <2> QED BY <2>4, <2>9
  <1>7. ASSUME NEW i, NEW h \in Handles, NEW realm, NEW group \in GroupIds,
               LeaveGroup(i, h, realm, group)
        PROVE  Goal
    <2> DEFINE s == h.slot
    <2>1. /\ s \in Slots
          /\ \E e \in Owned(groups, s) : groups' = ReleaseGroupEdge(groups, s, e)
      BY <1>7, Leaving
    <2>2. PICK e \in Owned(groups, s) : groups' = ReleaseGroupEdge(groups, s, e)
      BY <2>1
    <2>3. UNCHANGED slots
      BY <1>7 DEF LeaveGroup, slotVars
    <2>4. InUse' = InUse
      BY <2>3 DEF InUse
    <2> HIDE DEF s
    <2>5. /\ GroupsInv(groups')
          /\ Used(groups') = Used(groups) \ {e}
          /\ \A p \in Used(groups') : /\ groups'.edges[p].slot = groups.edges[p].slot
                                      /\ groups'.edges[p].realm = groups.edges[p].realm
      BY <1>0, <2>1, <2>2, ReleaseGood
    <2> QED BY <1>0, <2>3, <2>4, <2>5 DEF OwnersOpen
  <1>8. ASSUME UNCHANGED vars PROVE Goal
    <2>1. groups' = groups /\ slots' = slots
      BY <1>8 DEF vars, slotVars
    <2>2. InUse' = InUse
      BY <2>1 DEF InUse
    <2>3. OwnersOpen'
      BY <1>0, <2>1, <2>2 DEF OwnersOpen
    <2> QED BY <1>0, <2>1, <2>3
  <1>9. Goal
    <2> HIDE DEF Goal
    <2> QED BY <1>2, <1>3, <1>4, <1>5, <1>6, <1>7, <1>8 DEF Next
  <1> QED BY <1>1, <1>9 DEF ManagerInv

(* Every reachable state of the manager satisfies its inductive invariant: *)
(* that of the slots, that of the group index with its three lists of      *)
(* edges, and that an edge in use names an open session under the realm of *)
(* that session (addSession, releaseSlot, joinGroup, leaveGroup,           *)
(* leaveAllGroups).                                                        *)
THEOREM ManagerInvariant == Spec => []ManagerInv
  BY ManagerStart, ManagerStep, PTL DEF Spec

(* The slots, the edges, the heads and the counters keep their types.      *)
THEOREM ManagerTyped == Spec => []TypeOK
  <1>1. ManagerInv => TypeOK
    BY DEF ManagerInv, SlotsInv, GroupsInv, GroupsType, TypeOK, GroupsTypeOK
  <1> QED BY <1>1, ManagerInvariant, PTL

(* A fan-out to a group visits every edge of the group, none twice and no  *)
(* other, a close follows exactly the session's own edges, and a session   *)
(* is in a group at most once, for pools of every size (GroupIterator,     *)
(* joinGroup, releaseGroupEdge).                                           *)
THEOREM GroupChainsCorrect == Spec => []GroupChainsExact
  <1>1. ManagerInv => GroupChainsExact
    <2> SUFFICES ASSUME ManagerInv PROVE GroupChainsExact
      OBVIOUS
    <2>1. MemberEdges = Used(groups)
      BY DEF MemberEdges, Used
    <2>2. /\ \A k \in GroupKeys :
                Walk(NextInGroup(groups), groups.table[k]) =
                    {e \in Used(groups) : EdgeKey(groups, e) = k}
          /\ \A e \in Used(groups) :
                /\ e \notin Walk(NextInGroup(groups), groups.edges[e].next_in_group)
                /\ e \notin Walk(NextOfSlot(groups), groups.edges[e].next_of_slot)
          /\ \A s \in Slots : SlotEdges(groups, s) = Owned(groups, s)
      BY EdgeWalks DEF ManagerInv
    <2>3. \A k \in GroupKeys : GroupEdges(groups, k[1], k[2]) =
                                  {e \in Used(groups) : EdgeKey(groups, e) = k}
      <3>1. \A k \in GroupKeys : k = <<k[1], k[2]>>
        BY DEF GroupKeys
      <3> QED BY <2>2, <3>1 DEF GroupEdges
    <2>4. \A s \in Slots :
             SlotEdges(groups, s) = {e \in Used(groups) : groups.edges[e].slot = s}
      BY <2>2 DEF Owned
    <2>5. \A e \in Used(groups) :
             /\ groups.edges[e].slot \in InUse
             /\ \A f \in Used(groups) :
                   groups.edges[f].slot = groups.edges[e].slot
                   /\ EdgeKey(groups, f) = EdgeKey(groups, e) => f = e
      BY DEF ManagerInv, OwnersOpen, GroupsInv, OneEdgeEach
    <2> QED BY <2>1, <2>2, <2>3, <2>4, <2>5 DEF GroupChainsExact
  <1> QED BY <1>1, ManagerInvariant, PTL

(* No edge leaks: the free list of the pool holds exactly the edges that   *)
(* no membership uses, each once, and the group quota counts the edges in  *)
(* use of every realm (joinGroup, releaseGroupEdge, leaveAllGroups).       *)
THEOREM EdgePoolCorrect == Spec => []EdgePoolExact
  <1>1. ManagerInv => EdgePoolExact
    <2> SUFFICES ASSUME ManagerInv PROVE EdgePoolExact
      OBVIOUS
    <2>1. MemberEdges = Used(groups)
      BY DEF MemberEdges, Used
    <2>2. /\ Walk(NextFreeEdge(groups), groups.free_head) = Edges \ Used(groups)
          /\ \A e \in Edges \ Used(groups) :
                e \notin Walk(NextFreeEdge(groups), groups.edges[e].next_free)
      BY EdgeWalks DEF ManagerInv
    <2>3. \A e \in Edges : NextFreeEdge(groups)[e] = groups.edges[e].next_free
      BY DEF NextFreeEdge
    <2>4. CountsEntries(groups.group_quota, Used(groups), groups.edges)
      BY DEF ManagerInv, GroupsInv
    <2> QED BY <2>1, <2>2, <2>3, <2>4 DEF EdgePoolExact
  <1> QED BY <1>1, ManagerInvariant, PTL

-------------------------------------------------------------------------------
(* The manager implements the directory: what each operation does to the   *)
(* sets that fan-outs visit.                                               *)

RealmView == [s \in InUse |-> slots[s].realm]

PeersView == [k \in Keys |-> DestConnections(k[1], k[2])]

MembersView == [k \in GroupKeys |-> GroupConnections(groups, k[1], k[2])]

Bearing(k) == {s \in InUse : KeyOf(s) = k}

Joined(g, k) == {g.edges[e].slot : e \in {x \in Used(g) : EdgeKey(g, x) = k}}

PeersRight ==
    /\ PeersView = [k \in Keys |-> PeersView[k]]
    /\ \A k \in Keys : PeersView[k] = Bearing(k)

LEMMA PeersSeen == SlotsInv => PeersRight
  <1> SUFFICES ASSUME SlotsInv PROVE PeersRight
    OBVIOUS
  <1>1. \A k \in Keys : DestConnections(k[1], k[2]) = {s \in InUse : KeyOf(s) = k}
    BY FanOutIsChain DEF FanOutExact
  <1> QED BY <1>1 DEF PeersRight, PeersView, Bearing

LEMMA MembersSeen ==
    ASSUME NEW g, GroupsInv(g)
    PROVE  \A k \in GroupKeys : GroupConnections(g, k[1], k[2]) = Joined(g, k)
  <1>1. \A k \in GroupKeys :
           Walk(NextInGroup(g), g.table[k]) = {e \in Used(g) : EdgeKey(g, e) = k}
    BY EdgeWalks
  <1>2. \A k \in GroupKeys : k = <<k[1], k[2]>>
    BY DEF GroupKeys
  <1>3. \A k \in GroupKeys : GroupEdges(g, k[1], k[2]) = {e \in Used(g) : EdgeKey(g, e) = k}
    BY <1>1, <1>2 DEF GroupEdges
  <1> QED BY <1>3 DEF GroupConnections, Joined

MembersRight ==
    /\ MembersView = [k \in GroupKeys |-> MembersView[k]]
    /\ \A k \in GroupKeys : MembersView[k] = Joined(groups, k)

LEMMA MembersViewed == ManagerInv => MembersRight
  BY MembersSeen DEF ManagerInv, MembersView, MembersRight

LEMMA ViewsRight == ManagerInv => PeersRight /\ MembersRight
  BY PeersSeen, MembersViewed DEF ManagerInv

LEMMA Views ==
    ManagerInv /\ ManagerInv' => /\ PeersRight /\ PeersRight'
                                /\ MembersRight /\ MembersRight'
  BY ViewsRight, PTL

LEMMA JoinedNow ==
    ASSUME NEW g, GroupsInv(g), g.free_head # Nil, NEW s \in Slots,
           NEW realm \in Realms, NEW group \in GroupIds,
           \A e \in Owned(g, s) : EdgeKey(g, e) # <<realm, group>>
    PROVE  \A k \in GroupKeys :
              Joined(Join(g, s, realm, group), k) =
                  IF k = <<realm, group>> THEN Joined(g, k) \cup {s} ELSE Joined(g, k)
  <1> DEFINE j == Join(g, s, realm, group)
             f == g.free_head
             key == <<realm, group>>
  <1>1. f \notin Used(g) /\ Used(j) = Used(g) \cup {f} /\ Used(g) \in SUBSET Edges
    BY JoinGood, GroupTypes DEF GroupsInv
  <1>2. JoinedAs(g, j, f, s, realm, group)
    BY JoinFields DEF GroupsInv
  <1> HIDE DEF j, f
  <1>3. /\ \A p \in Used(g) : j.edges[p].slot = g.edges[p].slot /\ EdgeKey(j, p) = EdgeKey(g, p)
        /\ j.edges[f].slot = s /\ EdgeKey(j, f) = key
    BY <1>1, <1>2 DEF JoinedAs
  <1>4. ASSUME NEW k \in GroupKeys
        PROVE  Joined(j, k) = IF k = key THEN Joined(g, k) \cup {s} ELSE Joined(g, k)
    BY <1>1, <1>3 DEF Joined
  <1> QED BY <1>4 DEF j

LEMMA LeftNow ==
    ASSUME NEW g, GroupsInv(g), NEW s \in Slots, NEW e \in Owned(g, s)
    PROVE  \A k \in GroupKeys :
              Joined(ReleaseGroupEdge(g, s, e), k) =
                  IF k = EdgeKey(g, e) THEN Joined(g, k) \ {s} ELSE Joined(g, k)
  <1> DEFINE r == ReleaseGroupEdge(g, s, e)
  <1>1. /\ Used(r) = Used(g) \ {e}
        /\ \A p \in Used(r) : /\ r.edges[p].slot = g.edges[p].slot
                              /\ EdgeKey(r, p) = EdgeKey(g, p)
    BY ReleaseGood
  <1>2. e \in Used(g) /\ g.edges[e].slot = s
    BY DEF Owned
  <1>3. \A p \in Used(g) : p # e => g.edges[p].slot # s \/ EdgeKey(g, p) # EdgeKey(g, e)
    BY <1>2 DEF GroupsInv, OneEdgeEach
  <1> HIDE DEF r
  <1>4. ASSUME NEW k \in GroupKeys
        PROVE  Joined(r, k) = IF k = EdgeKey(g, e) THEN Joined(g, k) \ {s} ELSE Joined(g, k)
    <2>1. CASE k = EdgeKey(g, e)
      <3>1. ASSUME NEW x \in Joined(r, k) PROVE x \in Joined(g, k) \ {s}
        <4>1. PICK p \in Used(r) : EdgeKey(r, p) = k /\ x = r.edges[p].slot
          BY <3>1 DEF Joined
        <4>2. p \in Used(g) /\ p # e /\ EdgeKey(g, p) = k /\ x = g.edges[p].slot
          BY <1>1, <4>1
        <4> QED BY <1>3, <2>1, <4>2 DEF Joined
      <3>2. ASSUME NEW x \in Joined(g, k) \ {s} PROVE x \in Joined(r, k)
        <4>1. PICK p \in Used(g) : EdgeKey(g, p) = k /\ x = g.edges[p].slot
          BY <3>2 DEF Joined
        <4>2. p \in Used(r) /\ EdgeKey(r, p) = k /\ x = r.edges[p].slot
          BY <1>1, <1>2, <3>2, <4>1
        <4> QED BY <4>2 DEF Joined
      <3> QED BY <2>1, <3>1, <3>2
    <2>2. CASE k # EdgeKey(g, e)
      <3>1. ASSUME NEW x \in Joined(r, k) PROVE x \in Joined(g, k)
        <4>1. PICK p \in Used(r) : EdgeKey(r, p) = k /\ x = r.edges[p].slot
          BY <3>1 DEF Joined
        <4>2. p \in Used(g) /\ EdgeKey(g, p) = k /\ x = g.edges[p].slot
          BY <1>1, <4>1
        <4> QED BY <4>2 DEF Joined
      <3>2. ASSUME NEW x \in Joined(g, k) PROVE x \in Joined(r, k)
        <4>1. PICK p \in Used(g) : EdgeKey(g, p) = k /\ x = g.edges[p].slot
          BY <3>2 DEF Joined
        <4>2. p \in Used(r) /\ EdgeKey(r, p) = k /\ x = r.edges[p].slot
          BY <1>1, <2>2, <4>1
        <4> QED BY <4>2 DEF Joined
      <3> QED BY <2>2, <3>1, <3>2
    <2> QED BY <2>1, <2>2
  <1> QED BY <1>4 DEF r

LEMMA LeftAllNow ==
    ASSUME NEW g, GroupsInv(g), NEW s \in Slots
    PROVE  \A k \in GroupKeys : Joined(LeaveAll(g, s), k) = Joined(g, k) \ {s}
  <1> DEFINE l == LeaveAll(g, s)
  <1>1. /\ Used(l) = Used(g) \ Owned(g, s)
        /\ \A p \in Used(l) : /\ l.edges[p].slot = g.edges[p].slot
                              /\ EdgeKey(l, p) = EdgeKey(g, p)
    BY LeaveAllGood
  <1> HIDE DEF l
  <1>2. ASSUME NEW k \in GroupKeys PROVE Joined(l, k) = Joined(g, k) \ {s}
    <2>1. ASSUME NEW x \in Joined(l, k) PROVE x \in Joined(g, k) \ {s}
      <3>1. PICK p \in Used(l) : EdgeKey(l, p) = k /\ x = l.edges[p].slot
        BY <2>1 DEF Joined
      <3>2. p \in Used(g) /\ EdgeKey(g, p) = k /\ x = g.edges[p].slot /\ x # s
        BY <1>1, <3>1 DEF Owned
      <3> QED BY <3>2 DEF Joined
    <2>2. ASSUME NEW x \in Joined(g, k) \ {s} PROVE x \in Joined(l, k)
      <3>1. PICK p \in Used(g) : EdgeKey(g, p) = k /\ x = g.edges[p].slot
        BY <2>2 DEF Joined
      <3>2. p \in Used(l) /\ EdgeKey(l, p) = k /\ x = l.edges[p].slot
        BY <1>1, <2>2, <3>1 DEF Owned
      <3> QED BY <3>2 DEF Joined
    <2> QED BY <2>1, <2>2
  <1> QED BY <1>2 DEF l

LEMMA DirectoryStart == ManagerInv /\ Init => Directory!DirInit
  <1> SUFFICES ASSUME ManagerInv, Init PROVE Directory!DirInit
    OBVIOUS
  <1>1. InUse = {}
    BY DEF Init, SlotsInit, FreshSlots, InUse
  <1>2. RealmView = [s \in {} |-> 0]
    BY <1>1 DEF RealmView
  <1>3. PeersView = [k \in Realms \X DestIds |-> {}]
    <2>1. \A k \in Keys : DestConnections(k[1], k[2]) = {}
      BY <1>1, PeersSeen DEF ManagerInv, Bearing, PeersView, PeersRight
    <2> QED BY <2>1 DEF PeersView, Keys
  <1>4. MembersView = [k \in Realms \X GroupIds |-> {}]
    <2>1. Used(groups) = {}
      BY FreshGood DEF Init
    <2>2. \A k \in GroupKeys : GroupConnections(groups, k[1], k[2]) = {}
      BY <2>1, MembersSeen DEF ManagerInv, Joined
    <2> QED BY <2>2 DEF MembersView, GroupKeys
  <1> QED BY <1>1, <1>2, <1>3, <1>4
          DEF Directory!DirInit, RealmView, PeersView, MembersView

LEMMA RoomLeft ==
    ASSUME NEW s \in Slots \ InUse
    PROVE  Cardinality(InUse) < MaxConnections
  <1>1. InUse \in SUBSET Slots /\ IsFiniteSet(Slots)
    BY ConstantTypes DEF InUse
  <1>2. Cardinality(Slots) = MaxConnections
    <2>1. Cardinality(0 .. MaxConnections - 1) = MaxConnections
      BY SlotsAssumption, FS_Interval
    <2> QED BY <2>1 DEF Slots
  <1>3. /\ IsFiniteSet(InUse) /\ Cardinality(InUse) <= Cardinality(Slots)
        /\ Cardinality(InUse) = Cardinality(Slots) => InUse = Slots
    BY <1>1, FS_Subset
  <1>4. Cardinality(InUse) \in Nat /\ InUse # Slots
    BY <1>3, FS_CardinalityType
  <1> QED BY <1>2, <1>3, <1>4, SlotsAssumption

(* Accepting a session opens it, bound to nothing. *)
LEMMA OpensSession ==
    ASSUME ManagerInv, ManagerInv', NEW realm \in Realms, NEW cnx \in Cnx \cup {Nil},
           Accept(realm, cnx)
    PROVE  \E s \in Slots : Directory!Open(s, realm)
  <1> DEFINE s == free_head
  <1>1. /\ s \in Slots \ InUse
        /\ InUse' = InUse \cup {s}
        /\ \A t \in InUse : slots'[t].realm = slots[t].realm /\ KeyOf(t)' = KeyOf(t)
        /\ slots'[s].realm = realm
        /\ \A t \in {s} : KeyOf(t)' = <<realm, 0>>
    BY Accepted DEF ManagerInv, Accept
  <1>2. groups' = groups
    BY AcceptKeepsGroups
  <1> HIDE DEF s
  <1>3. Cardinality(InUse) < MaxConnections
    BY <1>1, RoomLeft
  <1>4. RealmView' = [t \in InUse' |-> IF t = s THEN realm ELSE RealmView[t]]
    BY <1>1 DEF RealmView
  <1>5. PeersView' = PeersView
    <2>1. PeersRight /\ PeersRight'
      BY Views
    <2>3. \A k \in Keys : k # <<realm, 0>>
      BY ConstantTypes DEF Keys
    <2>4. \A k \in Keys : Bearing(k)' = Bearing(k)
      BY <1>1, <2>3 DEF Bearing
    <2> QED BY <2>1, <2>4 DEF PeersRight
  <1>6. MembersView' = MembersView
    BY <1>2 DEF MembersView
  <1>7. Directory!Open(s, realm)
    <2>1. Directory!Open(s, realm) <=>
             /\ s \in Slots \ InUse
             /\ Cardinality(InUse) < MaxConnections
             /\ InUse' = InUse \cup {s}
             /\ RealmView' = [t \in InUse' |-> IF t = s THEN realm ELSE RealmView[t]]
             /\ UNCHANGED <<PeersView, MembersView>>
      <3>1. Directory!Cardinality(InUse) = Cardinality(InUse)
        BY DEF Directory!Cardinality, Cardinality
      <3> QED BY <3>1 DEF Directory!Open, RealmView, PeersView, MembersView
    <2> QED BY <1>1, <1>3, <1>4, <1>5, <1>6, <2>1
  <1> QED BY <1>1, <1>7

(* A close takes the session out of its identity and of all its groups.    *)
LEMMA ClosesSession ==
    ASSUME ManagerInv, ManagerInv',
           \/ \E h \in Handles : CloseSession(h)
           \/ \E cnx \in Cnx : CloseRawQuic(cnx)
    PROVE  \E s \in Slots : Directory!Close(s)
  <1>1. PICK s \in InUse : ReleaseSlot(s) /\ groups' = LeaveAll(groups, s)
    BY ClosedSomeone DEF ManagerInv
  <1>2. s \in Slots
    BY DEF InUse
  <1>3. /\ InUse' = InUse \ {s}
        /\ \A t \in InUse \ {s} : slots'[t].realm = slots[t].realm /\ KeyOf(t)' = KeyOf(t)
    BY <1>1, Closed DEF ManagerInv
  <1>4. PeersRight /\ PeersRight' /\ MembersRight /\ MembersRight'
    BY Views
  <1>5. RealmView' = [t \in InUse' |-> RealmView[t]]
    BY <1>3 DEF RealmView
  <1>6. PeersView' = [k \in DOMAIN PeersView |-> PeersView[k] \ {s}]
    <2>1. \A k \in Keys : Bearing(k)' = Bearing(k) \ {s}
      BY <1>3 DEF Bearing
    <2> QED BY <1>4, <2>1 DEF PeersRight
  <1>7. MembersView' = [k \in DOMAIN MembersView |-> MembersView[k] \ {s}]
    <2>1. \A k \in GroupKeys : Joined(groups', k) = Joined(groups, k) \ {s}
      BY <1>1, <1>2, LeftAllNow DEF ManagerInv
    <2> QED BY <1>4, <2>1 DEF MembersRight
  <1>8. Directory!Close(s) <=>
           /\ s \in InUse
           /\ InUse' = InUse \ {s}
           /\ RealmView' = [t \in InUse' |-> RealmView[t]]
           /\ PeersView' = [k \in DOMAIN PeersView |-> PeersView[k] \ {s}]
           /\ MembersView' = [k \in DOMAIN MembersView |-> MembersView[k] \ {s}]
    BY DEF Directory!Close, Directory!Without, RealmView, PeersView, MembersView
  <1> QED BY <1>1, <1>2, <1>3, <1>5, <1>6, <1>7, <1>8

(* An authentication moves the session to its new identity.                *)
LEMMA BindsSession ==
    ASSUME ManagerInv, ManagerInv', NEW h \in Handles, NEW dest \in DestIds \cup {0},
           Authenticate(h, dest)
    PROVE  \E s \in Slots : Directory!Bind(s, dest)
  <1> DEFINE s == h.slot
             key == <<RealmView[s], dest>>
  <1>1. groups' = groups /\ BindDest(h, dest)
    BY DEF Authenticate
  <1>2. /\ s \in InUse /\ InUse' = InUse
        /\ \A t \in InUse : slots'[t].realm = slots[t].realm
        /\ \A t \in InUse \ {s} : KeyOf(t)' = KeyOf(t)
        /\ KeyOf(s)' = <<slots[s].realm, dest>>
    BY <1>1, Bound DEF ManagerInv
  <1> HIDE DEF s
  <1>3. PeersRight /\ PeersRight' /\ MembersRight /\ MembersRight'
    BY Views
  <1>4. s \in Slots /\ RealmView[s] = slots[s].realm
    BY <1>2 DEF InUse, RealmView
  <1>5. RealmView' = RealmView
    BY <1>2 DEF RealmView
  <1>6. MembersView' = MembersView
    BY <1>1 DEF MembersView
  <1>7. PeersView' = [k \in Keys |-> IF k = key THEN (PeersView[k] \ {s}) \cup {s}
                                                ELSE PeersView[k] \ {s}]
    <2>1. KeyOf(s)' = key
      BY <1>2, <1>4
    <2> HIDE DEF key
    <2>2. \A k \in Keys : Bearing(k)' = IF k = key THEN (Bearing(k) \ {s}) \cup {s}
                                                   ELSE Bearing(k) \ {s}
      BY <1>2, <2>1 DEF Bearing
    <2> QED BY <1>3, <2>2 DEF PeersRight
  <1>8. Directory!Bind(s, dest) <=>
           /\ s \in InUse
           /\ UNCHANGED <<InUse, RealmView>>
           /\ PeersView' = Directory!With(Directory!Without(PeersView, s), key, s)
           /\ UNCHANGED MembersView
    BY DEF Directory!Bind, RealmView, PeersView, MembersView
  <1>9. Directory!With(Directory!Without(PeersView, s), key, s) =
           [k \in Keys |-> IF k = key THEN (PeersView[k] \ {s}) \cup {s} ELSE PeersView[k] \ {s}]
    <2>1. DOMAIN PeersView = Keys
      BY DEF PeersView
    <2>2. Directory!Without(PeersView, s) = [k \in Keys |-> PeersView[k] \ {s}]
      BY <2>1 DEF Directory!Without
    <2> HIDE DEF key
    <2> QED BY <2>2 DEF Directory!With
  <1> QED BY <1>2, <1>4, <1>5, <1>6, <1>7, <1>8, <1>9

LEMMA EntersGroup ==
    ASSUME ManagerInv, ManagerInv', NEW i, NEW h \in Handles, NEW realm, NEW group \in GroupIds,
           JoinGroup(i, h, realm, group)
    PROVE  \E s \in Slots : Directory!Enter(s, group)
  <1> DEFINE s == h.slot
             r == slots[s].realm
             key == <<RealmView[s], group>>
  <1>1. /\ s \in InUse /\ s \in Slots /\ r \in Realms
        /\ groups' = Join(groups, s, r, group)
        /\ groups.free_head # Nil
        /\ \A e \in Owned(groups, s) : EdgeKey(groups, e) # <<r, group>>
    BY Joining
  <1>2. UNCHANGED slotVars
    BY DEF JoinGroup
  <1>3. UNCHANGED <<InUse, RealmView, PeersView>>
    <2>1. InUse' = InUse
      BY <1>2 DEF slotVars, InUse
    <2>2. slots' = slots /\ dest_index' = dest_index
      BY <1>2 DEF slotVars
    <2>3. RealmView' = RealmView
      BY <2>1, <2>2 DEF RealmView
    <2>4. PeersView' = PeersView
      BY <2>2 DEF PeersView, DestConnections, NextByDest
    <2> QED BY <2>1, <2>3, <2>4
  <1>4. PeersRight /\ PeersRight' /\ MembersRight /\ MembersRight'
    BY Views
  <1>5. RealmView[s] = r
    BY <1>1 DEF RealmView
  <1> HIDE DEF s, r
  <1>6. \A k \in GroupKeys : Joined(groups', k) = IF k = key THEN Joined(groups, k) \cup {s}
                                                             ELSE Joined(groups, k)
    <2>1. \A k \in GroupKeys :
             Joined(groups', k) = IF k = <<r, group>> THEN Joined(groups, k) \cup {s}
                                                      ELSE Joined(groups, k)
      BY <1>1, JoinedNow DEF ManagerInv
    <2> QED BY <1>5, <2>1
  <1>7. MembersView' = [k \in GroupKeys |-> IF k = key THEN MembersView[k] \cup {s}
                                                       ELSE MembersView[k]]
    <2> HIDE DEF key
    <2> QED BY <1>4, <1>6 DEF MembersRight
  <1>8. Directory!Enter(s, group) <=>
           /\ s \in InUse
           /\ UNCHANGED <<InUse, RealmView>>
           /\ MembersView' = Directory!With(MembersView, key, s)
           /\ UNCHANGED PeersView
    BY DEF Directory!Enter, RealmView, PeersView, MembersView
  <1>9. Directory!With(MembersView, key, s) =
           [k \in GroupKeys |-> IF k = key THEN MembersView[k] \cup {s} ELSE MembersView[k]]
    <2>1. DOMAIN MembersView = GroupKeys
      BY DEF MembersView
    <2> HIDE DEF key
    <2> QED BY <2>1 DEF Directory!With
  <1> QED BY <1>1, <1>3, <1>7, <1>8, <1>9

LEMMA ExitsGroup ==
    ASSUME ManagerInv, ManagerInv', NEW i, NEW h \in Handles, NEW realm, NEW group \in GroupIds,
           LeaveGroup(i, h, realm, group)
    PROVE  \E s \in Slots : Directory!Exit(s, group)
  <1> DEFINE s == h.slot
             r == slots[s].realm
             key == <<RealmView[s], group>>
  <1>1. /\ s \in InUse /\ s \in Slots /\ r \in Realms
        /\ \E e \in Owned(groups, s) :
              /\ EdgeKey(groups, e) = <<r, group>>
              /\ groups' = ReleaseGroupEdge(groups, s, e)
    BY Leaving
  <1>2. UNCHANGED slotVars
    BY DEF LeaveGroup
  <1>3. UNCHANGED <<InUse, RealmView, PeersView>>
    <2>1. InUse' = InUse
      BY <1>2 DEF slotVars, InUse
    <2>2. slots' = slots /\ dest_index' = dest_index
      BY <1>2 DEF slotVars
    <2>3. RealmView' = RealmView
      BY <2>1, <2>2 DEF RealmView
    <2>4. PeersView' = PeersView
      BY <2>2 DEF PeersView, DestConnections, NextByDest
    <2> QED BY <2>1, <2>3, <2>4
  <1>4. PeersRight /\ PeersRight' /\ MembersRight /\ MembersRight'
    BY Views
  <1>5. RealmView[s] = r
    BY <1>1 DEF RealmView
  <1> HIDE DEF s, r
  <1>6. \A k \in GroupKeys : Joined(groups', k) = IF k = key THEN Joined(groups, k) \ {s}
                                                             ELSE Joined(groups, k)
    <2>1. PICK e \in Owned(groups, s) : /\ EdgeKey(groups, e) = <<r, group>>
                                        /\ groups' = ReleaseGroupEdge(groups, s, e)
      BY <1>1
    <2>2. \A k \in GroupKeys :
             Joined(groups', k) = IF k = EdgeKey(groups, e) THEN Joined(groups, k) \ {s}
                                                            ELSE Joined(groups, k)
      BY <1>1, <2>1, LeftNow DEF ManagerInv
    <2> QED BY <1>5, <2>1, <2>2
  <1>7. MembersView' = [k \in GroupKeys |-> IF k = key THEN MembersView[k] \ {s}
                                                       ELSE MembersView[k]]
    <2> HIDE DEF key
    <2> QED BY <1>4, <1>6 DEF MembersRight
  <1>8. Directory!Exit(s, group) <=>
           /\ s \in InUse
           /\ UNCHANGED <<InUse, RealmView>>
           /\ MembersView' = [MembersView EXCEPT ![key] = MembersView[key] \ {s}]
           /\ UNCHANGED PeersView
    BY DEF Directory!Exit, RealmView, PeersView, MembersView
  <1>9. [MembersView EXCEPT ![key] = MembersView[key] \ {s}] =
           [k \in GroupKeys |-> IF k = key THEN MembersView[k] \ {s} ELSE MembersView[k]]
    <2>1. MembersView = [k \in GroupKeys |-> MembersView[k]]
      BY <1>4 DEF MembersRight
    <2> HIDE DEF key
    <2> QED BY <2>1
  <1> QED BY <1>1, <1>3, <1>7, <1>8, <1>9

LEMMA Crashes ==
    ASSUME ManagerInv, ManagerInv', Crash
    PROVE  Directory!Crash
  <1>1. InUse' = {}
    BY DEF Crash, Restart, FreshSlots, InUse
  <1>2. PeersRight' /\ MembersRight'
    BY Views
  <1>3. RealmView' = [s \in {} |-> 0]
    BY <1>1 DEF RealmView
  <1>4. DOMAIN PeersView = Keys /\ DOMAIN MembersView = GroupKeys
    BY DEF PeersView, MembersView
  <1>5. PeersView' = [k \in DOMAIN PeersView |-> {}]
    <2>1. \A k \in Keys : Bearing(k)' = {}
      BY <1>1 DEF Bearing
    <2> QED BY <1>2, <1>4, <2>1 DEF PeersRight
  <1>6. MembersView' = [k \in DOMAIN MembersView |-> {}]
    <2>1. Used(groups') = {}
      BY FreshGood DEF Crash
    <2>2. \A k \in GroupKeys : Joined(groups', k) = {}
      BY <2>1 DEF Joined
    <2> QED BY <1>2, <1>4, <2>2 DEF MembersRight
  <1> QED BY <1>1, <1>3, <1>5, <1>6
          DEF Directory!Crash, RealmView, PeersView, MembersView

LEMMA DirectoryStep ==
    ManagerInv /\ ManagerInv' /\ [Next]_vars => [Directory!DirNext]_(Directory!dirVars)
  <1> SUFFICES ASSUME ManagerInv, ManagerInv', [Next]_vars
               PROVE  [Directory!DirNext]_(Directory!dirVars)
    OBVIOUS
  <1>1. CASE Crash
    BY <1>1, Crashes DEF Directory!DirNext
  <1>2. ASSUME NEW realm \in Realms, NEW cnx \in Cnx \cup {Nil}, Accept(realm, cnx)
        PROVE  Directory!DirNext
    BY <1>2, OpensSession DEF Directory!DirNext
  <1>3. CASE \/ \E h \in Handles : CloseSession(h)
             \/ \E cnx \in Cnx : CloseRawQuic(cnx)
    BY <1>3, ClosesSession DEF Directory!DirNext
  <1>4. ASSUME NEW h \in Handles, NEW dest \in DestIds \cup {0}, Authenticate(h, dest)
        PROVE  Directory!DirNext
    BY <1>4, BindsSession DEF Directory!DirNext
  <1>5. ASSUME NEW i, NEW h \in Handles, NEW realm, NEW group \in GroupIds,
               JoinGroup(i, h, realm, group) \/ LeaveGroup(i, h, realm, group)
        PROVE  Directory!DirNext
    BY <1>5, EntersGroup, ExitsGroup DEF Directory!DirNext
  <1>6. CASE UNCHANGED vars
    <2>1. groups' = groups /\ slots' = slots /\ dest_index' = dest_index
      BY <1>6 DEF vars, slotVars
    <2>2. InUse' = InUse
      BY <2>1 DEF InUse
    <2>3. RealmView' = RealmView
      BY <2>1, <2>2 DEF RealmView
    <2>4. PeersView' = PeersView
      BY <2>1 DEF PeersView, DestConnections, NextByDest
    <2>5. MembersView' = MembersView
      BY <2>1 DEF MembersView
    <2> QED BY <2>2, <2>3, <2>4, <2>5
            DEF Directory!dirVars, RealmView, PeersView, MembersView
  <1> QED BY <1>1, <1>2, <1>3, <1>4, <1>5, <1>6 DEF Next

(* The manager implements the directory its callers rely on: every accept, *)
(* close, authentication, join, leave and crash changes what fan-outs      *)
(* visit exactly as the directory's operation of that name does, for pools *)
(* of every size (connection.zig as a whole).                              *)
THEOREM ManagerImplementsDirectory == Spec => ImplementsDirectory
  <1>1. ManagerInv /\ Init => Directory!DirInit
    BY DirectoryStart
  <1>2. ManagerInv /\ ManagerInv' /\ [Next]_vars => [Directory!DirNext]_(Directory!dirVars)
    BY DirectoryStep
  <1> QED BY <1>1, <1>2, ManagerInvariant, PTL
          DEF Spec, ImplementsDirectory, Directory!DirSpec

===============================================================================
