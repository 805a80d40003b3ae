---------------------------- MODULE HandoffProofs -----------------------------
(***************************************************************************)
(* The rings between workers, for any number of workers and messages, any  *)
(* capacity and any watermark: order, backlog and wake-up are exact at     *)
(* every point where another thread may come in.                           *)
(*                                                                         *)
(* A ring is compared with what was accepted and taken by absolute         *)
(* position: message k is in slot (k - 1) % Capacity until it is taken.    *)
(* Neither the type of the quota nor its counts hold without that, since a *)
(* release is a no-op on a realm that holds nothing.                       *)
(***************************************************************************)
EXTENDS Handoff, ModularArithmetic, FiniteSetTheorems, SequenceTheorems

(* A quota that counts the messages of seq at the positions in P. *)
Counted(q, P, seq) ==
    /\ \A realm \in Tracked : q.counts[realm] = Cardinality({k \in P : seq[k].realm = realm})
    /\ q.total = Cardinality({k \in P : seq[k].realm \in Tracked})
    /\ q.active_realms = Cardinality({realm \in Tracked : q.counts[realm] > 0})

(* A ring after these were accepted and those taken. *)
RingInv(r, acc, tak) ==
    /\ Len(tak) <= Len(acc)
    /\ r.len = Len(acc) - Len(tak)
    /\ r.head = Len(tak) % Capacity
    /\ \A k \in 1 .. Len(tak) : tak[k] = acc[k]
    /\ \A k \in Len(tak) + 1 .. Len(acc) : r.items[(k - 1) % Capacity] = acc[k]
    /\ Counted(r.quota, Len(tak) + 1 .. Len(acc), acc)

RingsInv == \A w \in Workers : RingInv(ring[w], accepted[w], taken[w])

(* Who is registered, and whom a thread notifies. *)
ThreadsInv ==
    \A w \in Workers :
        /\ notifier[w] <=> pc[w] \notin {"new", "unhooked", "freed"}
        /\ running[w] => notifier[w]
        /\ pc[w] # "notifying" => target[w] = w

HandoffInv == TypeOK /\ RingsInv /\ ThreadsInv /\ NoLostWakeup

-------------------------------------------------------------------------------
(* Positions and slots *)

(* A ring has a slot, and the tracked realms are finitely many. *)
LEMMA Constants ==
    /\ Capacity \in Nat \ {0}
    /\ IsFiniteSet(Tracked)
  <1>1. MaxTrackedRealms - 1 \in Int /\ 0 \in Int
    BY QuotaAssumption
  <1>2. IsFiniteSet(Tracked)
    BY <1>1, FS_Interval DEF Tracked
  <1> QED BY <1>2, HandoffAssumption

(* Counting on from a slot is counting on from a position. *)
LEMMA SlotAfter ==
    ASSUME NEW a \in Nat, NEW d \in Nat
    PROVE  ((a % Capacity) + d) % Capacity = (a + d) % Capacity
  <1> DEFINE q == a \div Capacity
             r == (a % Capacity) + d
             b == a + d
  <1>1. r \in Nat /\ b \in Nat /\ q \in Int /\ b = Capacity * q + r
    BY Constants, DivMod
  <1>2. b % Capacity = r % Capacity
    <2> HIDE DEF q, r, b
    <2> QED BY <1>1, Constants, ModShift
  <1> QED BY <1>2

(* Less than a turn apart, two positions have two slots. *)
LEMMA SlotsApart ==
    ASSUME NEW a \in Nat, NEW b \in Nat, a < b, b - a < Capacity
    PROVE  a % Capacity # b % Capacity
  <1> DEFINE m == Capacity
  <1>1. m \in Nat \ {0}
    BY Constants
  <1> HIDE DEF m
  <1>2. a <= b /\ a # b /\ b - a < m
    BY DEF m
  <1>3. a % m # b % m
    BY <1>1, <1>2, ModEqual
  <1> QED BY <1>3 DEF m

-------------------------------------------------------------------------------
(* The quota of a ring, when its last message comes and its first one goes *)

(* A count looks at nothing but the positions it counts. *)
LEMMA CountedSame ==
    ASSUME NEW q, NEW P, NEW f, NEW g, Counted(q, P, f), \A k \in P : g[k] = f[k]
    PROVE  Counted(q, P, g)
  <1>1. \A realm \in Tracked : {k \in P : g[k].realm = realm} = {k \in P : f[k].realm = realm}
    OBVIOUS
  <1>2. {k \in P : g[k].realm \in Tracked} = {k \in P : f[k].realm \in Tracked}
    OBVIOUS
  <1> QED BY <1>1, <1>2 DEF Counted

(* acquire counts one more position. *)
LEMMA CountedAcquire ==
    ASSUME NEW q \in QuotaType, NEW P, IsFiniteSet(P), NEW x, x \notin P, NEW f, Counted(q, P, f)
    PROVE  /\ Acquire(q, f[x].realm) \in QuotaType
           /\ Counted(Acquire(q, f[x].realm), P \cup {x}, f)
  <1> DEFINE realm == f[x].realm
             n == Acquire(q, realm)
             Of(r) == {k \in P : f[k].realm = r}
             NewOf(r) == {k \in P \cup {x} : f[k].realm = r}
             All == {k \in P : f[k].realm \in Tracked}
             NewAll == {k \in P \cup {x} : f[k].realm \in Tracked}
             Active == {r \in Tracked : q.counts[r] > 0}
             NewActive == {r \in Tracked : n.counts[r] > 0}
  <1>1. n \in QuotaType
    <2>1. q.counts \in [Tracked -> Nat] /\ q.total \in Nat /\ q.active_realms \in Nat
      BY DEF QuotaType
    <2>2. CASE realm \in Tracked
      <3>1. [q.counts EXCEPT ![realm] = @ + 1] \in [Tracked -> Nat]
        BY <2>1, <2>2
      <3> QED BY <2>1, <2>2, <3>1 DEF Acquire, QuotaType
    <2>3. CASE realm \notin Tracked
      BY <2>3 DEF Acquire
    <2> QED BY <2>2, <2>3
  <1>2. /\ \A r \in Tracked : q.counts[r] = Cardinality(Of(r))
        /\ q.total = Cardinality(All)
        /\ q.active_realms = Cardinality(Active)
    BY DEF Counted
  <1>3. \A r : NewOf(r) = IF r = realm THEN Of(r) \cup {x} ELSE Of(r)
    OBVIOUS
  <1>4. /\ \A r : IsFiniteSet(Of(r)) /\ x \notin Of(r)
        /\ IsFiniteSet(All) /\ x \notin All
        /\ IsFiniteSet(Active)
    BY FS_Subset, Constants
  <1>5. \A r : Cardinality(NewOf(r)) = IF r = realm THEN Cardinality(Of(r)) + 1 ELSE Cardinality(Of(r))
    <2> HIDE DEF Of, NewOf
    <2> QED BY <1>3, <1>4, FS_AddElement
  <1>6. CASE realm \notin Tracked
    <2>1. n = q
      BY <1>6 DEF Acquire
    <2>2. NewAll = All /\ \A r \in Tracked : NewOf(r) = Of(r)
      BY <1>6
    <2> QED BY <1>1, <1>2, <2>1, <2>2 DEF Counted
  <1>7. CASE realm \in Tracked
    <2>1. /\ n.counts = [q.counts EXCEPT ![realm] = @ + 1]
          /\ n.total = q.total + 1
          /\ n.active_realms = IF q.counts[realm] = 0 THEN q.active_realms + 1 ELSE q.active_realms
      BY <1>7 DEF Acquire
    <2>2. q.counts \in [Tracked -> Nat]
      BY DEF QuotaType
    <2>3. \A r \in Tracked : n.counts[r] = Cardinality(NewOf(r))
      <3>1. \A r \in Tracked : n.counts[r] = IF r = realm THEN q.counts[r] + 1 ELSE q.counts[r]
        BY <1>7, <2>1, <2>2
      <3> HIDE DEF Of, NewOf, n
      <3> QED BY <1>2, <1>5, <3>1
    <2>4. n.total = Cardinality(NewAll)
      <3>1. NewAll = All \cup {x}
        BY <1>7
      <3> HIDE DEF All, NewAll, n
      <3>2. Cardinality(All \cup {x}) = Cardinality(All) + 1
        BY <1>4, FS_AddElement
      <3> QED BY <1>2, <2>1, <3>1, <3>2
    <2>5. n.active_realms = Cardinality(NewActive)
      <3>1. CASE q.counts[realm] = 0
        <4>1. NewActive = Active \cup {realm} /\ realm \notin Active
          BY <3>1, <1>7, <2>1, <2>2
        <4> HIDE DEF Active, NewActive, n
        <4>2. Cardinality(Active \cup {realm}) = Cardinality(Active) + 1
          BY <1>4, <4>1, FS_AddElement
        <4> QED BY <1>2, <2>1, <3>1, <4>1, <4>2
      <3>2. CASE q.counts[realm] # 0
        <4>1. NewActive = Active
          BY <3>2, <1>7, <2>1, <2>2
        <4> HIDE DEF Active, NewActive, n
        <4> QED BY <1>2, <2>1, <3>2, <4>1
      <3> QED BY <3>1, <3>2
    <2> QED BY <1>1, <2>3, <2>4, <2>5 DEF Counted
  <1> QED BY <1>6, <1>7

(* release counts one position less: it is no no-op on a tracked realm,    *)
(* since that position holds a message of it.                              *)
LEMMA CountedRelease ==
    ASSUME NEW q \in QuotaType, NEW P, IsFiniteSet(P), NEW x \in P, NEW f, Counted(q, P, f)
    PROVE  /\ Release(q, f[x].realm) \in QuotaType
           /\ Counted(Release(q, f[x].realm), P \ {x}, f)
  <1> DEFINE realm == f[x].realm
             n == Release(q, realm)
             Of(r) == {k \in P : f[k].realm = r}
             NewOf(r) == {k \in P \ {x} : f[k].realm = r}
             All == {k \in P : f[k].realm \in Tracked}
             NewAll == {k \in P \ {x} : f[k].realm \in Tracked}
             Active == {r \in Tracked : q.counts[r] > 0}
             NewActive == {r \in Tracked : n.counts[r] > 0}
  <1>1. /\ \A r \in Tracked : q.counts[r] = Cardinality(Of(r))
        /\ q.total = Cardinality(All)
        /\ q.active_realms = Cardinality(Active)
    BY DEF Counted
  <1>2. \A r : NewOf(r) = IF r = realm THEN Of(r) \ {x} ELSE Of(r)
    OBVIOUS
  <1>3. /\ \A r : IsFiniteSet(Of(r)) /\ (x \in Of(r) <=> r = realm)
        /\ IsFiniteSet(All)
        /\ IsFiniteSet(Active)
    BY FS_Subset, Constants
  <1>4. \A r : Cardinality(NewOf(r)) = IF r = realm THEN Cardinality(Of(r)) - 1 ELSE Cardinality(Of(r))
    <2> HIDE DEF Of, NewOf
    <2> QED BY <1>2, <1>3, FS_RemoveElement
  <1>5. CASE realm \notin Tracked
    <2>1. n = q
      BY <1>5 DEF Release
    <2>2. NewAll = All /\ \A r \in Tracked : NewOf(r) = Of(r)
      BY <1>5
    <2> QED BY <1>1, <2>1, <2>2 DEF Counted
  <1>6. CASE realm \in Tracked
    <2>1. q.counts \in [Tracked -> Nat] /\ q.total \in Nat /\ q.active_realms \in Nat
      BY DEF QuotaType
    <2>2. q.counts[realm] # 0
      <3> HIDE DEF Of
      <3> QED BY <1>1, <1>3, <1>6, FS_EmptySet
    <2>3. /\ n.counts = [q.counts EXCEPT ![realm] = @ - 1]
          /\ n.total = q.total - 1
          /\ n.active_realms = IF q.counts[realm] = 1 THEN q.active_realms - 1 ELSE q.active_realms
      BY <1>6, <2>2 DEF Release
    <2>4. \A r \in Tracked : n.counts[r] = Cardinality(NewOf(r))
      <3>1. \A r \in Tracked : n.counts[r] = IF r = realm THEN q.counts[r] - 1 ELSE q.counts[r]
        BY <1>6, <2>1, <2>3
      <3> HIDE DEF Of, NewOf, n
      <3> QED BY <1>1, <1>4, <3>1
    <2>5. n.total = Cardinality(NewAll) /\ q.total > 0
      <3>1. NewAll = All \ {x} /\ x \in All
        BY <1>6
      <3> HIDE DEF All, NewAll, n
      <3>2. Cardinality(All) # 0
        BY <1>3, <3>1, FS_EmptySet
      <3>3. Cardinality(All \ {x}) = Cardinality(All) - 1
        BY <1>3, <3>1, FS_RemoveElement
      <3> QED BY <1>1, <2>1, <2>3, <3>1, <3>2, <3>3
    <2>6. n.active_realms = Cardinality(NewActive) /\ q.active_realms > 0
      <3>1. realm \in Active
        BY <1>6, <2>1, <2>2
      <3>2. q.active_realms > 0
        <4> HIDE DEF Active
        <4> QED BY <1>1, <1>3, <2>1, <3>1, FS_EmptySet
      <3>3. CASE q.counts[realm] = 1
        <4>1. NewActive = Active \ {realm}
          BY <3>3, <1>6, <2>1, <2>3
        <4> HIDE DEF Active, NewActive, n
        <4> QED BY <1>1, <1>3, <2>3, <3>1, <3>2, <3>3, <4>1, FS_RemoveElement
      <3>4. CASE q.counts[realm] # 1
        <4>1. NewActive = Active
          BY <3>4, <1>6, <2>1, <2>2, <2>3
        <4> HIDE DEF Active, NewActive, n
        <4> QED BY <1>1, <2>3, <3>2, <3>4, <4>1
      <3> QED BY <3>3, <3>4
    <2>7. n \in QuotaType
      BY <1>6, <2>2, <2>5, <2>6 DEF QuotaType, Release
    <2> QED BY <2>4, <2>5, <2>6, <2>7 DEF Counted
  <1> QED BY <1>5, <1>6

-------------------------------------------------------------------------------
(* A ring, when a message is pushed and when one is popped *)

(* The positions that wait, and their slots. *)
LEMMA Waiting ==
    ASSUME NEW r \in Ring, NEW acc \in Seq(Message), NEW tak \in Seq(Message), RingInv(r, acc, tak)
    PROVE  /\ Len(acc) \in Nat /\ Len(tak) \in Nat /\ Len(tak) <= Len(acc)
           /\ r.len = Len(acc) - Len(tak) /\ r.len <= Capacity
           /\ IsFiniteSet(Len(tak) + 1 .. Len(acc))
           /\ \A k \in Nat : (r.head + k) % Capacity = (Len(tak) + k) % Capacity
  <1>1. Len(acc) \in Nat /\ Len(tak) \in Nat
    BY LenProperties
  <1>2. Len(tak) <= Len(acc) /\ r.len = Len(acc) - Len(tak) /\ r.head = Len(tak) % Capacity
    BY DEF RingInv
  <1>3. r.len <= Capacity
    BY Constants DEF Ring
  <1>4. IsFiniteSet(Len(tak) + 1 .. Len(acc))
    <2>1. Len(tak) + 1 \in Int /\ Len(acc) \in Int
      BY <1>1
    <2> QED BY <2>1, FS_Interval
  <1>5. \A k \in Nat : (r.head + k) % Capacity = (Len(tak) + k) % Capacity
    BY <1>1, <1>2, SlotAfter
  <1> QED BY <1>1, <1>2, <1>3, <1>4, <1>5

(* A message that is pushed takes the slot of its position, which is free. *)
LEMMA PushRing ==
    ASSUME NEW r \in Ring, NEW acc \in Seq(Message), NEW tak \in Seq(Message), RingInv(r, acc, tak),
           NEW message \in Message, r.len # Capacity
    PROVE  /\ Pushed(r, message) \in Ring
           /\ RingInv(Pushed(r, message), Append(acc, message), tak)
  <1> DEFINE n == Len(acc)
             t == Len(tak)
             P == t + 1 .. n
             next == Append(acc, message)
             new == Pushed(r, message)
  <1>1. /\ n \in Nat /\ t \in Nat /\ t <= n /\ r.len = n - t /\ n - t < Capacity
        /\ IsFiniteSet(P)
        /\ TailOf(r) = n % Capacity
    <2>1. /\ n \in Nat /\ t \in Nat /\ t <= n /\ r.len = n - t /\ r.len <= Capacity
          /\ IsFiniteSet(P)
          /\ \A k \in Nat : (r.head + k) % Capacity = (t + k) % Capacity
      BY Waiting
    <2>2. r.len \in Nat /\ t + r.len = n
      BY <2>1
    <2>3. TailOf(r) = (t + r.len) % Capacity
      BY <2>1, <2>2 DEF TailOf
    <2>4. n - t < Capacity
      <3>1. r.len < Capacity
        BY Constants DEF Ring
      <3>2. r.len = n - t
        BY <2>1
      <3> QED BY <3>1, <3>2
    <2> QED BY <2>1, <2>2, <2>3, <2>4
  <1>2. /\ next \in Seq(Message) /\ Len(next) = n + 1 /\ next[n + 1] = message
        /\ \A k \in 1 .. n : next[k] = acc[k]
    BY AppendProperties
  <1>3. /\ new.items = [r.items EXCEPT ![n % Capacity] = message]
        /\ new.head = r.head /\ new.len = n - t + 1
        /\ new.quota = Acquire(r.quota, message.realm)
    BY <1>1 DEF Pushed
  <1>4. n % Capacity \in 0 .. Capacity - 1
    BY <1>1, Constants, DivMod
  <1>5. /\ new.quota \in QuotaType
        /\ Counted(new.quota, t + 1 .. n + 1, next)
    <2>1. r.quota \in QuotaType /\ Counted(r.quota, P, acc)
      BY DEF Ring, RingInv
    <2>2. Counted(r.quota, P, next)
      <3>1. \A k \in P : next[k] = acc[k]
        BY <1>1, <1>2
      <3> HIDE DEF P, next
      <3> QED BY <2>1, <3>1, CountedSame
    <2>3. t + 1 .. n + 1 = P \cup {n + 1} /\ n + 1 \notin P
      BY <1>1
    <2> HIDE DEF P, next
    <2>4. /\ Acquire(r.quota, next[n + 1].realm) \in QuotaType
          /\ Counted(Acquire(r.quota, next[n + 1].realm), P \cup {n + 1}, next)
      BY <1>1, <2>1, <2>2, <2>3, CountedAcquire
    <2> QED BY <1>2, <1>3, <2>3, <2>4
  <1>6. new \in Ring
    <2>1. new.items \in [0 .. Capacity - 1 -> Message \cup {NoMessage}]
      BY <1>3, <1>4 DEF Ring
    <2>2. new.head \in 0 .. Capacity - 1 /\ new.len \in 0 .. Capacity
      BY <1>1, <1>3, Constants DEF Ring
    <2> QED BY <1>5, <2>1, <2>2 DEF Pushed, Ring
  <1>7. \A k \in t + 1 .. n + 1 : new.items[(k - 1) % Capacity] = next[k]
    <2> TAKE k \in t + 1 .. n + 1
    <2>1. r.items \in [0 .. Capacity - 1 -> Message \cup {NoMessage}]
      BY DEF Ring
    <2>2. CASE k = n + 1
      <3>1. k - 1 = n
        BY <1>1, <2>2
      <3> QED BY <1>2, <1>3, <1>4, <2>1, <2>2, <3>1
    <2>3. CASE k # n + 1
      <3>1. k \in P /\ k \in 1 .. n /\ k - 1 \in Nat /\ k - 1 < n /\ n - (k - 1) < Capacity
        <4> HIDE DEF n, t
        <4> QED BY <1>1, <2>3, Constants
      <3>2. (k - 1) % Capacity # n % Capacity
        <4> DEFINE j == k - 1
        <4>1. j \in Nat /\ j < n /\ n - j < Capacity
          BY <3>1
        <4> HIDE DEF j, n
        <4>2. j % Capacity # n % Capacity
          BY <1>1, <4>1, SlotsApart
        <4> QED BY <4>2 DEF j
      <3>3. (k - 1) % Capacity \in 0 .. Capacity - 1
        BY <3>1, Constants, DivMod
      <3>4. r.items[(k - 1) % Capacity] = acc[k]
        BY <3>1 DEF RingInv
      <3> QED BY <1>2, <1>3, <2>1, <3>1, <3>2, <3>3, <3>4
    <2> QED BY <2>2, <2>3
  <1>8. /\ t <= n + 1 /\ new.len = (n + 1) - t /\ new.head = t % Capacity
        /\ \A k \in 1 .. t : tak[k] = next[k]
    BY <1>1, <1>2, <1>3 DEF RingInv
  <1> HIDE DEF new, next, n, t
  <1>9. RingInv(new, next, tak)
    BY <1>2, <1>5, <1>7, <1>8 DEF RingInv, t
  <1> QED BY <1>6, <1>9 DEF new, next

(* What is popped is the first message that waits. *)
LEMMA PopRing ==
    ASSUME NEW r \in Ring, NEW acc \in Seq(Message), NEW tak \in Seq(Message), RingInv(r, acc, tak),
           r.len # 0
    PROVE  /\ Front(r) \in Message
           /\ Popped(r) \in Ring
           /\ RingInv(Popped(r), acc, Append(tak, Front(r)))
  <1> DEFINE n == Len(acc)
             t == Len(tak)
             P == t + 1 .. n
             next == Append(tak, Front(r))
             new == Popped(r)
  <1>1. /\ n \in Nat /\ t \in Nat /\ t < n /\ r.len = n - t /\ n - t <= Capacity
        /\ IsFiniteSet(P)
        /\ (r.head + 1) % Capacity = (t + 1) % Capacity
    <2>1. /\ n \in Nat /\ t \in Nat /\ t <= n /\ r.len = n - t /\ r.len <= Capacity
          /\ IsFiniteSet(P)
          /\ \A k \in Nat : (r.head + k) % Capacity = (t + k) % Capacity
      BY Waiting
    <2>2. 1 \in Nat
      OBVIOUS
    <2> QED BY <2>1, <2>2
  <1>2. Front(r) = acc[t + 1] /\ acc[t + 1] \in Message
    <2>1. t + 1 \in P /\ (t + 1) - 1 = t /\ t + 1 \in 1 .. n
      BY <1>1
    <2>2. r.items[((t + 1) - 1) % Capacity] = acc[t + 1]
      BY <2>1 DEF RingInv
    <2>3. r.head = t % Capacity
      BY DEF RingInv
    <2>4. acc[t + 1] \in Message
      BY <2>1, ElementOfSeq
    <2> QED BY <2>1, <2>2, <2>3, <2>4 DEF Front
  <1>3. /\ next \in Seq(Message) /\ Len(next) = t + 1 /\ next[t + 1] = acc[t + 1]
        /\ \A k \in 1 .. t : next[k] = tak[k]
    BY <1>2, AppendProperties
  <1>4. /\ new.items = r.items /\ new.head = (t + 1) % Capacity /\ new.len = n - (t + 1)
        /\ new.quota = Release(r.quota, acc[t + 1].realm)
    BY <1>1, <1>2 DEF Popped
  <1>5. /\ new.quota \in QuotaType
        /\ Counted(new.quota, (t + 1) + 1 .. n, acc)
    <2>1. r.quota \in QuotaType /\ Counted(r.quota, P, acc)
      BY DEF Ring, RingInv
    <2>2. (t + 1) + 1 .. n = P \ {t + 1} /\ t + 1 \in P
      BY <1>1
    <2> HIDE DEF P
    <2>3. /\ Release(r.quota, acc[t + 1].realm) \in QuotaType
          /\ Counted(Release(r.quota, acc[t + 1].realm), P \ {t + 1}, acc)
      BY <1>1, <2>1, <2>2, CountedRelease
    <2> QED BY <1>4, <2>2, <2>3
  <1>6. new \in Ring
    <2>1. (t + 1) % Capacity \in 0 .. Capacity - 1 /\ new.len \in 0 .. Capacity
      <3>1. t + 1 \in Nat
        BY <1>1
      <3>2. (t + 1) % Capacity \in 0 .. Capacity - 1
        BY <3>1, Constants, DivMod
      <3> QED BY <1>1, <1>4, <3>2, Constants
    <2> QED BY <1>4, <1>5, <2>1 DEF Popped, Ring
  <1>7. /\ t + 1 <= n
        /\ \A k \in 1 .. t + 1 : next[k] = acc[k]
        /\ \A k \in (t + 1) + 1 .. n : new.items[(k - 1) % Capacity] = acc[k]
    BY <1>1, <1>3, <1>4 DEF RingInv
  <1> HIDE DEF new, next, n
  <1>8. RingInv(new, acc, next)
    <2> HIDE DEF t
    <2> QED BY <1>3, <1>4, <1>5, <1>7 DEF RingInv, n
  <1> QED BY <1>2, <1>6, <1>8 DEF new, next

-------------------------------------------------------------------------------
(* What the invariant of a ring says of its contents *)

(* The messages in the ring, from its front, are those not yet taken. *)
LEMMA RingContents ==
    ASSUME NEW r \in Ring, NEW acc \in Seq(Message), NEW tak \in Seq(Message), RingInv(r, acc, tak)
    PROVE  /\ Contents(r) \in Seq(Message) /\ Len(Contents(r)) = r.len
           /\ \A i \in 1 .. r.len : Contents(r)[i] = acc[Len(tak) + i]
  <1> DEFINE n == Len(acc)
             t == Len(tak)
             c == Contents(r)
  <1>1. /\ n \in Nat /\ t \in Nat /\ t <= n /\ r.len = n - t /\ r.len \in Nat
        /\ \A k \in Nat : (r.head + k) % Capacity = (t + k) % Capacity
    <2>1. n \in Nat /\ t \in Nat /\ t <= n /\ r.len = n - t
      BY Waiting
    <2>2. \A k \in Nat : (r.head + k) % Capacity = (t + k) % Capacity
      BY Waiting
    <2> HIDE DEF n, t
    <2> QED BY <2>1, <2>2
  <1>2. \A i \in 1 .. r.len : c[i] = acc[t + i] /\ acc[t + i] \in Message
    <2> TAKE i \in 1 .. r.len
    <2> DEFINE k == t + i
    <2>1. k \in t + 1 .. n /\ k \in 1 .. n /\ i - 1 \in Nat
      BY <1>1
    <2>2. c[i] = r.items[(r.head + i - 1) % Capacity]
      BY DEF Contents
    <2>3. r.head + i - 1 = r.head + (i - 1) /\ t + (i - 1) = k - 1
      <3>1. r.head \in Int
        BY Constants DEF Ring
      <3> QED BY <1>1, <3>1
    <2>4. (r.head + (i - 1)) % Capacity = (t + (i - 1)) % Capacity
      BY <1>1, <2>1
    <2>5. r.items[(k - 1) % Capacity] = acc[k]
      BY <2>1 DEF RingInv
    <2>6. acc[k] \in Message
      BY <2>1, ElementOfSeq
    <2> HIDE DEF c
    <2> QED BY <2>2, <2>3, <2>4, <2>5, <2>6
  <1>3. c \in [1 .. r.len -> Message]
    <2>1. c = [i \in 1 .. r.len |-> c[i]]
      BY DEF Contents
    <2> HIDE DEF c
    <2> QED BY <1>2, <2>1
  <1> HIDE DEF c
  <1>4. c \in Seq(Message) /\ Len(c) = r.len
    <2> DEFINE m == r.len
    <2>1. m \in Nat /\ c \in [1 .. m -> Message]
      BY <1>1, <1>3
    <2> HIDE DEF m
    <2>2. c \in Seq(Message)
      BY <2>1, SeqDef
    <2>3. DOMAIN c = 1 .. m /\ Len(c) \in Nat /\ DOMAIN c = 1 .. Len(c)
      BY <2>1, <2>2, LenProperties
    <2>4. Len(c) = m
      BY <2>1, <2>3
    <2> QED BY <2>2, <2>4 DEF m
  <1> QED BY <1>2, <1>4 DEF c

(* Taken and waiting, one after the other, are what was accepted. *)
LEMMA RingFifo ==
    ASSUME NEW r \in Ring, NEW acc \in Seq(Message), NEW tak \in Seq(Message), RingInv(r, acc, tak)
    PROVE  acc = tak \o Contents(r)
  <1> DEFINE n == Len(acc)
             t == Len(tak)
             c == Contents(r)
             all == tak \o c
  <1>1. n \in Nat /\ t \in Nat /\ t <= n /\ r.len = n - t
    BY Waiting
  <1>2. c \in Seq(Message) /\ Len(c) = n - t /\ \A i \in 1 .. n - t : c[i] = acc[t + i]
    BY <1>1, RingContents
  <1> HIDE DEF c
  <1>3. /\ all \in Seq(Message) /\ Len(all) = t + (n - t)
        /\ \A k \in 1 .. t + (n - t) : all[k] = IF k <= t THEN tak[k] ELSE c[k - t]
    BY <1>2, ConcatProperties
  <1>4. t + (n - t) = n
    BY <1>1
  <1>5. \A k \in 1 .. n : all[k] = acc[k]
    <2> TAKE k \in 1 .. n
    <2>1. CASE k <= t
      <3>1. k \in 1 .. t /\ all[k] = tak[k]
        BY <1>1, <1>3, <1>4, <2>1
      <3> QED BY <3>1 DEF RingInv
    <2>2. CASE k > t
      <3>1. k - t \in 1 .. n - t /\ t + (k - t) = k /\ ~(k <= t)
        BY <1>1, <2>2
      <3>2. all[k] = c[k - t]
        BY <1>3, <1>4, <3>1
      <3>3. c[k - t] = acc[t + (k - t)]
        BY <1>2, <3>1
      <3> HIDE DEF all, n, t
      <3> QED BY <3>1, <3>2, <3>3
    <2>3. k \in Int /\ t \in Int
      BY <1>1
    <2> HIDE DEF all, n, t
    <2> QED BY <2>1, <2>2, <2>3
  <1> HIDE DEF all
  <1>6. acc = all
    BY <1>3, <1>4, <1>5, SeqEqual
  <1> QED BY <1>6 DEF all, c

(* A set that is moved up keeps its size. *)
LEMMA MovedUp ==
    ASSUME NEW t \in Nat, NEW S \in SUBSET Nat, IsFiniteSet(S)
    PROVE  Cardinality({t + i : i \in S}) = Cardinality(S)
  <1> DEFINE T == {t + i : i \in S}
             f == [i \in S |-> t + i]
  <1>1. f \in [S -> T] /\ \A i, j \in S : f[i] = f[j] => i = j
    OBVIOUS
  <1>2. \A k \in T : \E i \in S : f[i] = k
    OBVIOUS
  <1> HIDE DEF f, T
  <1>3. f \in Bijection(S, T)
    BY <1>1, <1>2 DEF Bijection, Injection, Surjection, IsInjective
  <1>4. ExistsBijection(S, T)
    BY <1>3 DEF ExistsBijection
  <1>5. Cardinality(T) = Cardinality(S)
    BY <1>4, FS_Bijection
  <1> QED BY <1>5 DEF T

(* A quota that is exact by position is exact by content. *)
LEMMA RingBacklog ==
    ASSUME NEW r \in Ring, NEW acc \in Seq(Message), NEW tak \in Seq(Message), RingInv(r, acc, tak)
    PROVE  LET Of(realm) == {i \in 1 .. r.len : Contents(r)[i].realm = realm}
           IN  /\ \A realm \in Tracked : r.quota.counts[realm] = Cardinality(Of(realm))
               /\ r.quota.total = Cardinality(UNION {Of(realm) : realm \in Tracked})
               /\ r.quota.active_realms = Cardinality({realm \in Tracked : Of(realm) # {}})
  <1> DEFINE Of(realm) == {i \in 1 .. r.len : Contents(r)[i].realm = realm}
             n == Len(acc)
             t == Len(tak)
             q == r.quota
             All == UNION {Of(realm) : realm \in Tracked}
             Of2(realm) == {k \in t + 1 .. n : acc[k].realm = realm}
             All2 == {k \in t + 1 .. n : acc[k].realm \in Tracked}
  <1>1. /\ n \in Nat /\ t \in Nat /\ t <= n /\ r.len = n - t /\ r.len \in Nat
        /\ \A i \in 1 .. r.len : Contents(r)[i] = acc[t + i]
    <2>1. n \in Nat /\ t \in Nat /\ t <= n /\ r.len = n - t
      BY Waiting
    <2>2. \A i \in 1 .. r.len : Contents(r)[i] = acc[t + i]
      BY RingContents
    <2> QED BY <2>1, <2>2
  <1>2. /\ \A realm \in Tracked : q.counts[realm] = Cardinality(Of2(realm))
        /\ q.total = Cardinality(All2)
        /\ q.active_realms = Cardinality({realm \in Tracked : q.counts[realm] > 0})
    <2>1. Counted(q, t + 1 .. n, acc)
      BY DEF RingInv
    <2> HIDE DEF q, n, t
    <2> QED BY <2>1 DEF Counted
  <1>3. IsFiniteSet(1 .. r.len) /\ 1 .. r.len \in SUBSET Nat
    <2>1. 1 \in Int /\ r.len \in Int
      BY <1>1
    <2>2. IsFiniteSet(1 .. r.len)
      BY <2>1, FS_Interval
    <2> QED BY <1>1, <2>2
  <1>4. /\ All \in SUBSET Nat /\ IsFiniteSet(All)
        /\ \A realm : Of(realm) \in SUBSET Nat /\ IsFiniteSet(Of(realm))
    <2>1. All \subseteq 1 .. r.len /\ \A realm : Of(realm) \subseteq 1 .. r.len
      OBVIOUS
    <2> HIDE DEF All, Of
    <2> QED BY <1>3, <2>1, FS_Subset
  <1>5. \A k \in t + 1 .. n : k - t \in 1 .. r.len /\ t + (k - t) = k
    BY <1>1
  <1>6. \A i \in 1 .. r.len : t + i \in t + 1 .. n
    BY <1>1
  <1>7. \A realm : Of2(realm) = {t + i : i \in Of(realm)}
    <2> TAKE realm
    <2>1. \A i \in Of(realm) : t + i \in Of2(realm)
      BY <1>1, <1>6
    <2>2. \A k \in Of2(realm) : k - t \in Of(realm) /\ t + (k - t) = k
      BY <1>1, <1>5
    <2> HIDE DEF Of, Of2, t
    <2> QED BY <2>1, <2>2
  <1>8. All2 = {t + i : i \in All}
    <2>1. All = {i \in 1 .. r.len : Contents(r)[i].realm \in Tracked}
      OBVIOUS
    <2>2. \A i \in All : t + i \in All2
      BY <1>1, <1>6, <2>1
    <2>3. \A k \in All2 : k - t \in All /\ t + (k - t) = k
      BY <1>1, <1>5, <2>1
    <2> HIDE DEF All, All2, t
    <2> QED BY <2>2, <2>3
  <1> HIDE DEF n, t
  <1> HIDE DEF Of, Of2, All, All2
  <1>9. \A realm : Cardinality(Of2(realm)) = Cardinality(Of(realm))
    BY <1>1, <1>4, <1>7, MovedUp
  <1>10. Cardinality(All2) = Cardinality(All)
    BY <1>1, <1>4, <1>8, MovedUp
  <1>11. \A realm \in Tracked : q.counts[realm] > 0 <=> Of(realm) # {}
    <2> TAKE realm \in Tracked
    <2>1. q.counts[realm] = Cardinality(Of(realm))
      BY <1>2, <1>9
    <2>2. Cardinality(Of(realm)) \in Nat /\ (Cardinality(Of(realm)) = 0 <=> Of(realm) = {})
      BY <1>4, FS_CardinalityType, FS_EmptySet
    <2> QED BY <2>1, <2>2
  <1>12. {realm \in Tracked : q.counts[realm] > 0} = {realm \in Tracked : Of(realm) # {}}
    BY <1>11
  <1> QED BY <1>2, <1>9, <1>10, <1>12 DEF Of, All

-------------------------------------------------------------------------------
(* The invariant holds initially *)

(* Empty rings, and workers that have not started. *)
LEMMA InitInv == Init => HandoffInv
  <1> SUFFICES ASSUME Init PROVE HandoffInv
    OBVIOUS
  <1>1. EmptyRing \in Ring
    <2>1. EmptyQuota \in QuotaType
      BY QuotaAssumption DEF EmptyQuota, QuotaType
    <2>2. 0 \in 0 .. Capacity - 1 /\ 0 \in 0 .. Capacity
      BY Constants
    <2> QED BY <2>1, <2>2 DEF EmptyRing, Ring
  <1>2. <<>> \in Seq(Message) /\ Len(<<>>) = 0
    BY EmptySeq
  <1>3. TypeOK
    BY <1>1, <1>2 DEF Init, TypeOK
  <1>4. Counted(EmptyQuota, 0 + 1 .. 0, <<>>)
    <2> DEFINE P == 0 + 1 .. 0
    <2>1. P = {}
      OBVIOUS
    <2> HIDE DEF P
    <2>2. \A realm : {k \in P : <<>>[k].realm = realm} = {}
      BY <2>1
    <2>3. {k \in P : <<>>[k].realm \in Tracked} = {}
      BY <2>1
    <2>4. /\ EmptyQuota.total = 0 /\ EmptyQuota.active_realms = 0
          /\ \A realm \in Tracked : EmptyQuota.counts[realm] = 0
      BY DEF EmptyQuota
    <2>5. {realm \in Tracked : EmptyQuota.counts[realm] > 0} = {}
      BY <2>4
    <2>6. Cardinality({}) = 0
      BY FS_EmptySet
    <2>7. Counted(EmptyQuota, P, <<>>)
      BY <2>2, <2>3, <2>4, <2>5, <2>6 DEF Counted
    <2> QED BY <2>7 DEF P
  <1>5. RingInv(EmptyRing, <<>>, <<>>)
    <2>1. 0 % Capacity = 0
      <3> DEFINE m == Capacity
      <3>1. m \in Nat \ {0}
        BY Constants
      <3> HIDE DEF m
      <3>2. /\ 0 % m \in 0 .. m - 1 /\ 0 \div m \in Int
            /\ m * 0 + 0 = m * (0 \div m) + (0 % m)
        BY <3>1, DivMod
      <3>3. 0 \in 0 .. m - 1 /\ 0 \in Int
        BY <3>1
      <3>4. 0 = 0 % m
        <4> DEFINE a == 0 % m
                   d == 0 \div m
        <4>1. a \in 0 .. m - 1 /\ d \in Int /\ m * 0 + 0 = m * d + a
          BY <3>2
        <4> HIDE DEF a, d
        <4>2. 0 = a
          BY <3>1, <3>3, <4>1, ModUnique
        <4> QED BY <4>2 DEF a
      <3> QED BY <3>4 DEF m
    <2>2. EmptyRing.len = 0 /\ EmptyRing.head = 0 /\ EmptyRing.quota = EmptyQuota
      BY DEF EmptyRing
    <2> QED BY <1>2, <1>4, <2>1, <2>2 DEF RingInv
  <1>6. RingsInv
    BY <1>5 DEF Init, RingsInv
  <1>7. ThreadsInv
    BY DEF Init, ThreadsInv
  <1>8. NoLostWakeup
    BY DEF Init, NoLostWakeup
  <1> QED BY <1>3, <1>6, <1>7, <1>8 DEF HandoffInv

-------------------------------------------------------------------------------
(* Every step preserves it *)

(* A worker that registers notifies itself of what came before. *)
LEMMA RegisterInv ==
    ASSUME HandoffInv, NEW w \in Workers, Register(w)
    PROVE  HandoffInv'
  <1> USE DEF HandoffInv
  <1>1. TypeOK'
    BY DEF TypeOK, Register, historyVars
  <1>2. RingsInv'
    BY DEF RingsInv, Register, historyVars
  <1>3. ThreadsInv'
    BY DEF ThreadsInv, TypeOK, Register
  <1>4. NoLostWakeup'
    <2> SUFFICES ASSUME NEW u \in Workers
                 PROVE  /\ (notifier[u] /\ ring[u].len # 0 /\ u \notin missed)' => Awake(u)'
                        /\ (InLoop(u) /\ running[u])' => armed[u]'
      BY DEF NoLostWakeup
    <2>1. CASE u = w
      <3>1. target[w] = w /\ pc[w] = "new"
        BY DEF ThreadsInv, Register
      <3>2. ~InLoop(w)'
        BY <3>1 DEF Register, InLoop, TypeOK
      <3>3. (ring[w].len # 0)' => (pc'[w] = "notifying" /\ target'[w] = w)
        BY <3>1 DEF Register, BacklogNotifies, TypeOK
      <3> QED BY <2>1, <3>2, <3>3 DEF Awake
    <2>2. CASE u # w
      <3>1. /\ notifier'[u] = notifier[u] /\ running'[u] = running[u] /\ pc'[u] = pc[u]
            /\ ring' = ring /\ missed' = missed /\ signal' = signal /\ armed' = armed
            /\ target' = target /\ pc[w] = "new"
            /\ \A t \in Workers : t # w => pc'[t] = pc[t]
        BY <2>2 DEF Register, TypeOK, historyVars
      <3>2. Awake(u) => Awake(u)'
        BY <3>1 DEF Awake
      <3>3. InLoop(u)' => InLoop(u)
        BY <3>1 DEF InLoop
      <3> QED BY <3>1, <3>2, <3>3 DEF NoLostWakeup
    <2> QED BY <2>1, <2>2
  <1> QED BY <1>1, <1>2, <1>3, <1>4

(* The callback is armed before anything else runs in the loop. *)
LEMMA ArmInv ==
    ASSUME HandoffInv, NEW w \in Workers, Arm(w)
    PROVE  HandoffInv'
  <1> USE DEF HandoffInv
  <1>1. TypeOK'
    BY DEF TypeOK, Arm, historyVars
  <1>2. RingsInv'
    BY DEF RingsInv, Arm, historyVars
  <1>3. ThreadsInv'
    BY DEF ThreadsInv, TypeOK, Arm
  <1>4. NoLostWakeup'
    <2> SUFFICES ASSUME NEW u \in Workers
                 PROVE  /\ (notifier[u] /\ ring[u].len # 0 /\ u \notin missed)' => Awake(u)'
                        /\ (InLoop(u) /\ running[u])' => armed[u]'
      BY DEF NoLostWakeup
    <2>1. /\ ring' = ring /\ notifier' = notifier /\ running' = running /\ missed' = missed
          /\ signal' = signal /\ target' = target /\ pc[w] = "arming"
          /\ armed' = [armed EXCEPT ![w] = TRUE]
          /\ pc'[w] = "loop" /\ \A t \in Workers : t # w => pc'[t] = pc[t]
      BY DEF Arm, TypeOK, historyVars
    <2>2. Awake(u) => Awake(u)'
      BY <2>1 DEF Awake
    <2>3. armed'[w] /\ (u # w => armed'[u] = armed[u] /\ (InLoop(u)' => InLoop(u)))
      BY <2>1 DEF InLoop, TypeOK
    <2> QED BY <2>1, <2>2, <2>3 DEF NoLostWakeup
  <1> QED BY <1>1, <1>2, <1>3, <1>4

(* The push on an empty ring is followed by its notification; the push on *)
(* another one finds it on its way.                                       *)
LEMMA DeliverInv ==
    ASSUME HandoffInv, NEW w \in Workers, NEW v \in Targets, NEW realm \in Realms,
           Deliver(w, v, realm)
    PROVE  HandoffInv'
  <1> USE DEF HandoffInv
  <1> DEFINE message == [realm |-> realm, n |-> Len(accepted[v]) + 1]
  <1>1. v \in Workers /\ accepted[v] \in Seq(Message) /\ ring[v] \in Ring /\ taken[v] \in Seq(Message)
    BY HandoffAssumption DEF TypeOK
  <1>2. message \in Message
    <2>1. Len(accepted[v]) \in Nat
      BY <1>1, LenProperties
    <2> QED BY <2>1 DEF Message
  <1>3. /\ pc[w] = "loop" /\ v # w /\ ring[v].len # Capacity
        /\ ring' = [ring EXCEPT ![v] = Pushed(ring[v], message)]
        /\ accepted' = [accepted EXCEPT ![v] = Append(accepted[v], message)]
        /\ notifier' = notifier /\ taken' = taken /\ missed' = missed
        /\ running' = running /\ armed' = armed /\ signal' = signal /\ shutdown' = shutdown
        /\ IF PushNotifies(v)
           THEN /\ pc' = [pc EXCEPT ![w] = "notifying"]
                /\ target' = [target EXCEPT ![w] = v]
           ELSE pc' = pc /\ target' = target
    BY DEF Deliver, Admits, threadVars
  <1> HIDE DEF message
  <1>4. /\ Pushed(ring[v], message) \in Ring
        /\ Append(accepted[v], message) \in Seq(Message)
        /\ RingInv(Pushed(ring[v], message), Append(accepted[v], message), taken[v])
    <2>1. RingInv(ring[v], accepted[v], taken[v])
      BY <1>1 DEF RingsInv
    <2>2. Append(accepted[v], message) \in Seq(Message)
      BY <1>1, <1>2, AppendProperties
    <2> QED BY <1>1, <1>2, <1>3, <2>1, <2>2, PushRing
  <1>5. TypeOK'
    <2>1. ring' \in [Workers -> Ring] /\ accepted' \in [Workers -> Seq(Message)]
      <3>1. ring \in [Workers -> Ring] /\ accepted \in [Workers -> Seq(Message)]
        BY DEF TypeOK
      <3>2. \A new \in Ring : [ring EXCEPT ![v] = new] \in [Workers -> Ring]
        BY <1>1, <3>1
      <3>3. \A new \in Seq(Message) : [accepted EXCEPT ![v] = new] \in [Workers -> Seq(Message)]
        BY <1>1, <3>1
      <3> QED BY <1>3, <1>4, <3>2, <3>3
    <2>2. /\ pc' \in [Workers -> {"new", "notifying", "arming", "loop", "draining", "unhooked", "freed"}]
          /\ target' \in [Workers -> Workers]
      <3>1. CASE PushNotifies(v)
        <4>1. /\ pc' = [pc EXCEPT ![w] = "notifying"]
              /\ target' = [target EXCEPT ![w] = v]
          BY <1>3, <3>1
        <4> QED BY <1>1, <4>1 DEF TypeOK
      <3>2. CASE ~PushNotifies(v)
        <4>1. pc' = pc /\ target' = target
          BY <1>3, <3>2
        <4> QED BY <4>1 DEF TypeOK
      <3> QED BY <3>1, <3>2
    <2> QED BY <1>3, <2>1, <2>2 DEF TypeOK
  <1>6. RingsInv'
    <2>1. /\ ring'[v] = Pushed(ring[v], message) /\ accepted'[v] = Append(accepted[v], message)
          /\ \A u \in Workers : u # v => ring'[u] = ring[u] /\ accepted'[u] = accepted[u]
      BY <1>1, <1>3 DEF TypeOK
    <2> QED BY <1>3, <1>4, <2>1 DEF RingsInv
  <1>7. ThreadsInv'
    <2>1. /\ \A u \in Workers : u # w => pc'[u] = pc[u] /\ target'[u] = target[u]
          /\ pc'[w] \in {"loop", "notifying"}
          /\ pc'[w] = "loop" => target'[w] = target[w]
      BY <1>3 DEF TypeOK
    <2> QED BY <1>3, <2>1 DEF ThreadsInv
  <1>8. NoLostWakeup'
    <2> SUFFICES ASSUME NEW u \in Workers
                 PROVE  /\ (notifier[u] /\ ring[u].len # 0 /\ u \notin missed)' => Awake(u)'
                        /\ (InLoop(u) /\ running[u])' => armed[u]'
      BY DEF NoLostWakeup
    <2>1. /\ u # v => ring'[u] = ring[u]
          /\ \A t \in Workers : t # w => pc'[t] = pc[t] /\ target'[t] = target[t]
          /\ pc'[w] # "draining"
          /\ PushNotifies(v) => pc'[w] = "notifying" /\ target'[w] = v
      BY <1>3 DEF TypeOK
    <2>2. Awake(u) => Awake(u)'
      BY <1>3, <2>1 DEF Awake
    <2>3. InLoop(u)' => InLoop(u)
      BY <1>3, <2>1 DEF InLoop
    <2>4. CASE u = v /\ PushNotifies(v)
      BY <1>3, <2>1, <2>3, <2>4 DEF Awake, NoLostWakeup
    <2>5. CASE u # v \/ ~PushNotifies(v)
      BY <1>3, <2>1, <2>2, <2>3, <2>5 DEF NoLostWakeup, PushNotifies
    <2> QED BY <2>4, <2>5
  <1> QED BY <1>5, <1>6, <1>7, <1>8

(* What a notification that arrives leaves behind is a signal. *)
LEMMA NotifyInv ==
    ASSUME HandoffInv, NEW w \in Workers, Notify(w)
    PROVE  HandoffInv'
  <1> USE DEF HandoffInv
  <1>1. TypeOK'
    BY DEF TypeOK, Notify, Rearms
  <1>2. RingsInv'
    BY DEF RingsInv, Notify, Rearms
  <1>3. ThreadsInv'
    BY DEF ThreadsInv, TypeOK, Notify
  <1>4. NoLostWakeup'
    <2> SUFFICES ASSUME NEW u \in Workers
                 PROVE  /\ (notifier[u] /\ ring[u].len # 0 /\ u \notin missed)' => Awake(u)'
                        /\ (InLoop(u) /\ running[u])' => armed[u]'
      BY DEF NoLostWakeup
    <2>1. /\ ring' = ring /\ notifier' = notifier /\ running' = running /\ armed' = armed
          /\ pc[w] = "notifying" /\ pc'[w] \in {"arming", "loop"} /\ target'[w] = w
          /\ pc'[w] = "loop" => target[w] # w
          /\ \A t \in Workers : t # w => pc'[t] = pc[t] /\ target'[t] = target[t]
      BY DEF Notify, TypeOK
    <2>2. /\ signal[u] => signal'[u]
          /\ u \in missed => u \in missed'
          /\ u = target[w] => signal'[u] \/ u \in missed' \/ pc[u] = "freed"
      BY DEF Notify, TypeOK
    <2>3. pc[u] = "freed" => ~notifier[u]
      BY DEF ThreadsInv
    <2>4. Awake(u) => Awake(u)' \/ u = target[w]
      BY <2>1, <2>2 DEF Awake
    <2>5. InLoop(u)' => InLoop(u)
      BY <2>1 DEF InLoop
    <2>6. signal'[u] => Awake(u)'
      BY DEF Awake
    <2> QED BY <2>1, <2>2, <2>3, <2>4, <2>5, <2>6 DEF NoLostWakeup
  <1> QED BY <1>1, <1>2, <1>3, <1>4

(* The callback takes the signal and reads the ring, or ends in an error. *)
LEMMA MessageCallbackInv ==
    ASSUME HandoffInv, NEW w \in Workers, MessageCallback(w)
    PROVE  HandoffInv'
  <1> USE DEF HandoffInv
  <1>1. TypeOK'
    BY DEF TypeOK, MessageCallback, Rearms
  <1>2. RingsInv'
    BY DEF RingsInv, MessageCallback, Rearms
  <1>3. ThreadsInv'
    BY DEF ThreadsInv, TypeOK, MessageCallback
  <1>4. NoLostWakeup'
    <2> SUFFICES ASSUME NEW u \in Workers
                 PROVE  /\ (notifier[u] /\ ring[u].len # 0 /\ u \notin missed)' => Awake(u)'
                        /\ (InLoop(u) /\ running[u])' => armed[u]'
      BY DEF NoLostWakeup
    <2>1. /\ ring' = ring /\ notifier' = notifier /\ running' = running /\ target' = target
          /\ \A t \in Workers : t # w => /\ pc'[t] = pc[t] /\ signal'[t] = signal[t]
                                        /\ armed'[t] = armed[t]
          /\ missed \subseteq missed' /\ pc[w] = "loop"
          /\ \/ pc'[w] = "draining"
             \/ pc'[w] = "loop" /\ w \in missed' /\ armed'[w] = running[w]
      BY DEF MessageCallback, TypeOK, Rearms
    <2>2. CASE u = w
      BY <2>1, <2>2 DEF Awake, InLoop
    <2>3. CASE u # w
      <3>1. Awake(u) => Awake(u)'
        BY <2>1, <2>3 DEF Awake
      <3>2. InLoop(u)' => InLoop(u)
        BY <2>1, <2>3 DEF InLoop
      <3> QED BY <2>1, <2>3, <3>1, <3>2 DEF NoLostWakeup
    <2> QED BY <2>2, <2>3
  <1> QED BY <1>1, <1>2, <1>3, <1>4

(* The callback ends, and listens again, only when the ring is empty. *)
LEMMA DrainInv ==
    ASSUME HandoffInv, NEW w \in Workers, Drain(w)
    PROVE  HandoffInv'
  <1> USE DEF HandoffInv
  <1>1. /\ ring[w] \in Ring /\ accepted[w] \in Seq(Message) /\ taken[w] \in Seq(Message)
        /\ RingInv(ring[w], accepted[w], taken[w])
    BY DEF TypeOK, RingsInv
  <1>2. /\ pc[w] = "draining"
        /\ notifier' = notifier /\ target' = target /\ running' = running /\ signal' = signal
        /\ shutdown' = shutdown /\ accepted' = accepted /\ missed' = missed
    BY DEF Drain
  <1>3. CASE /\ ring[w].len # 0
             /\ ring' = [ring EXCEPT ![w] = Popped(ring[w])]
             /\ taken' = [taken EXCEPT ![w] = Append(taken[w], Front(ring[w]))]
             /\ pc' = pc /\ armed' = armed
    <2>1. /\ Front(ring[w]) \in Message
          /\ Popped(ring[w]) \in Ring
          /\ RingInv(Popped(ring[w]), accepted[w], Append(taken[w], Front(ring[w])))
      BY <1>1, <1>3, PopRing
    <2>2. Append(taken[w], Front(ring[w])) \in Seq(Message)
      BY <1>1, <2>1, AppendProperties
    <2>3. TypeOK'
      BY <1>2, <1>3, <2>1, <2>2 DEF TypeOK
    <2>4. RingsInv'
      <3>1. /\ ring'[w] = Popped(ring[w]) /\ taken'[w] = Append(taken[w], Front(ring[w]))
            /\ \A u \in Workers : u # w => ring'[u] = ring[u] /\ taken'[u] = taken[u]
        BY <1>3 DEF TypeOK
      <3> QED BY <1>2, <2>1, <3>1 DEF RingsInv
    <2>5. ThreadsInv'
      BY <1>2, <1>3 DEF ThreadsInv
    <2>6. NoLostWakeup'
      <3>1. \A u \in Workers : u # w => ring'[u] = ring[u]
        BY <1>3 DEF TypeOK
      <3>2. \A u \in Workers : (Awake(u)' <=> Awake(u)) /\ (InLoop(u)' <=> InLoop(u))
        BY <1>2, <1>3 DEF Awake, InLoop
      <3>3. Awake(w)
        BY <1>2 DEF Awake
      <3> QED BY <1>2, <1>3, <3>1, <3>2, <3>3 DEF NoLostWakeup
    <2> QED BY <2>3, <2>4, <2>5, <2>6
  <1>4. CASE /\ ring[w].len = 0
             /\ pc' = [pc EXCEPT ![w] = "loop"]
             /\ armed' = [armed EXCEPT ![w] = Rearms(w)]
             /\ ring' = ring /\ taken' = taken
    <2>1. TypeOK'
      BY <1>2, <1>4 DEF TypeOK, Rearms
    <2>2. RingsInv'
      BY <1>2, <1>4 DEF RingsInv
    <2>3. ThreadsInv'
      BY <1>2, <1>4 DEF ThreadsInv, TypeOK
    <2>4. NoLostWakeup'
      <3>1. /\ pc'[w] = "loop" /\ armed'[w] = running[w]
            /\ \A t \in Workers : t # w => pc'[t] = pc[t] /\ armed'[t] = armed[t]
        BY <1>4 DEF TypeOK, Rearms
      <3>2. \A u \in Workers : u # w => (Awake(u) => Awake(u)') /\ (InLoop(u)' => InLoop(u))
        BY <1>2, <3>1 DEF Awake, InLoop
      <3> QED BY <1>2, <1>4, <3>1, <3>2 DEF NoLostWakeup
    <2> QED BY <2>1, <2>2, <2>3, <2>4
  <1> QED BY <1>3, <1>4 DEF Drain

(* A request changes no thread. *)
LEMMA RequestShutdownInv ==
    ASSUME HandoffInv, RequestShutdown
    PROVE  HandoffInv'
  <1> USE DEF HandoffInv, RequestShutdown, historyVars
  <1>1. TypeOK'
    BY DEF TypeOK
  <1>2. RingsInv'
    BY DEF RingsInv
  <1>3. ThreadsInv'
    BY DEF ThreadsInv
  <1>4. NoLostWakeup'
    BY DEF NoLostWakeup, Awake, InLoop
  <1> QED BY <1>1, <1>2, <1>3, <1>4

(* A worker that stops may go on listening. *)
LEMMA StopInv ==
    ASSUME HandoffInv, NEW w \in Workers, Stop(w)
    PROVE  HandoffInv'
  <1> USE DEF HandoffInv
  <1>1. TypeOK'
    BY DEF TypeOK, Stop, historyVars
  <1>2. RingsInv'
    BY DEF RingsInv, Stop, historyVars
  <1>3. ThreadsInv'
    BY DEF ThreadsInv, TypeOK, Stop
  <1>4. NoLostWakeup'
    <2> SUFFICES ASSUME NEW u \in Workers
                 PROVE  /\ (notifier[u] /\ ring[u].len # 0 /\ u \notin missed)' => Awake(u)'
                        /\ (InLoop(u) /\ running[u])' => armed[u]'
      BY DEF NoLostWakeup
    <2>1. /\ ring' = ring /\ missed' = missed /\ target' = target
          /\ \A t \in Workers :
                t # w => /\ pc'[t] = pc[t] /\ signal'[t] = signal[t] /\ armed'[t] = armed[t]
                         /\ notifier'[t] = notifier[t] /\ running'[t] = running[t]
          /\ pc'[w] = pc[w] /\ signal'[w] = signal[w] /\ notifier'[w] = notifier[w] /\ pc' = pc
          /\ running'[w] = FALSE
      BY DEF Stop, TypeOK, historyVars
    <2>2. CASE u = w
      BY <2>1, <2>2 DEF NoLostWakeup, Awake, InLoop
    <2>3. CASE u # w
      <3>1. Awake(u) => Awake(u)'
        BY <2>1, <2>3 DEF Awake
      <3>2. InLoop(u)' => InLoop(u)
        BY <2>1, <2>3 DEF InLoop
      <3> QED BY <2>1, <2>3, <3>1, <3>2 DEF NoLostWakeup
    <2> QED BY <2>2, <2>3
  <1> QED BY <1>1, <1>2, <1>3, <1>4

(* A ring that has lost its notifier owes no wake-up. *)
LEMMA UnhookInv ==
    ASSUME HandoffInv, NEW w \in Workers, Unhook(w)
    PROVE  HandoffInv'
  <1> USE DEF HandoffInv
  <1>1. TypeOK'
    BY DEF TypeOK, Unhook, threadVars, historyVars
  <1>2. RingsInv'
    BY DEF RingsInv, Unhook, threadVars, historyVars
  <1>3. ThreadsInv'
    BY DEF ThreadsInv, TypeOK, Unhook, threadVars
  <1>4. NoLostWakeup'
    <2> SUFFICES ASSUME NEW u \in Workers
                 PROVE  /\ (notifier[u] /\ ring[u].len # 0 /\ u \notin missed)' => Awake(u)'
                        /\ (InLoop(u) /\ running[u])' => armed[u]'
      BY DEF NoLostWakeup
    <2>1. /\ ring' = ring /\ missed' = missed /\ target' = target
          /\ \A t \in Workers :
                t # w => /\ pc'[t] = pc[t] /\ signal'[t] = signal[t] /\ armed'[t] = armed[t]
                         /\ notifier'[t] = notifier[t] /\ running'[t] = running[t]
          /\ pc[w] = "loop" /\ pc'[w] = "unhooked" /\ notifier'[w] = FALSE
      BY DEF Unhook, TypeOK, threadVars, historyVars
    <2>2. CASE u = w
      BY <2>1, <2>2 DEF InLoop
    <2>3. CASE u # w
      <3>1. Awake(u) => Awake(u)'
        BY <2>1, <2>3 DEF Awake
      <3>2. InLoop(u)' => InLoop(u)
        BY <2>1, <2>3 DEF InLoop
      <3> QED BY <2>1, <2>3, <3>1, <3>2 DEF NoLostWakeup
    <2> QED BY <2>2, <2>3
  <1> QED BY <1>1, <1>2, <1>3, <1>4

(* An Async is freed when nobody looks it up any more. *)
LEMMA FreeInv ==
    ASSUME HandoffInv, NEW w \in Workers, Free(w)
    PROVE  HandoffInv'
  <1> USE DEF HandoffInv
  <1>1. TypeOK'
    BY DEF TypeOK, Free, historyVars
  <1>2. RingsInv'
    BY DEF RingsInv, Free, historyVars
  <1>3. ThreadsInv'
    BY DEF ThreadsInv, TypeOK, Free
  <1>4. NoLostWakeup'
    <2> SUFFICES ASSUME NEW u \in Workers
                 PROVE  /\ (notifier[u] /\ ring[u].len # 0 /\ u \notin missed)' => Awake(u)'
                        /\ (InLoop(u) /\ running[u])' => armed[u]'
      BY DEF NoLostWakeup
    <2>1. /\ ring' = ring /\ missed' = missed /\ target' = target
          /\ \A t \in Workers :
                t # w => /\ pc'[t] = pc[t] /\ signal'[t] = signal[t] /\ armed'[t] = armed[t]
                         /\ notifier'[t] = notifier[t] /\ running'[t] = running[t]
          /\ pc[w] = "unhooked" /\ pc'[w] = "freed" /\ ~notifier'[w]
      BY DEF Free, TypeOK, ThreadsInv, historyVars
    <2>2. CASE u = w
      BY <2>1, <2>2 DEF InLoop
    <2>3. CASE u # w
      <3>1. Awake(u) => Awake(u)'
        BY <2>1, <2>3 DEF Awake
      <3>2. InLoop(u)' => InLoop(u)
        BY <2>1, <2>3 DEF InLoop
      <3> QED BY <2>1, <2>3, <3>1, <3>2 DEF NoLostWakeup
    <2> QED BY <2>2, <2>3
  <1> QED BY <1>1, <1>2, <1>3, <1>4

(* No step of any thread breaks it. *)
LEMMA StepInv == HandoffInv /\ [Next]_vars => HandoffInv'
  <1> SUFFICES ASSUME HandoffInv, [Next]_vars PROVE HandoffInv'
    OBVIOUS
  <1>1. CASE RequestShutdown
    BY <1>1, RequestShutdownInv
  <1>2. ASSUME NEW w \in Workers,
               \/ Register(w) \/ Arm(w) \/ Notify(w)
               \/ \E v \in Targets, realm \in Realms : Deliver(w, v, realm)
               \/ MessageCallback(w) \/ Drain(w)
               \/ Stop(w) \/ Unhook(w) \/ Free(w)
        PROVE  HandoffInv'
    <2>1. CASE Register(w)
      BY <2>1, RegisterInv
    <2>2. CASE Arm(w)
      BY <2>2, ArmInv
    <2>3. CASE Notify(w)
      BY <2>3, NotifyInv
    <2>4. ASSUME NEW v \in Targets, NEW realm \in Realms, Deliver(w, v, realm)
          PROVE  HandoffInv'
      BY <2>4, DeliverInv
    <2>5. CASE MessageCallback(w)
      BY <2>5, MessageCallbackInv
    <2>6. CASE Drain(w)
      BY <2>6, DrainInv
    <2>7. CASE Stop(w)
      BY <2>7, StopInv
    <2>8. CASE Unhook(w)
      BY <2>8, UnhookInv
    <2>9. CASE Free(w)
      BY <2>9, FreeInv
    <2> QED BY <1>2, <2>1, <2>2, <2>3, <2>4, <2>5, <2>6, <2>7, <2>8, <2>9
  <1>3. CASE UNCHANGED vars
    <2>1. /\ ring' = ring /\ notifier' = notifier /\ pc' = pc /\ target' = target
          /\ running' = running /\ armed' = armed /\ signal' = signal /\ shutdown' = shutdown
          /\ accepted' = accepted /\ taken' = taken /\ missed' = missed
      BY <1>3 DEF vars, threadVars, historyVars
    <2>2. TypeOK'
      BY <2>1 DEF HandoffInv, TypeOK
    <2>3. RingsInv' /\ ThreadsInv'
      BY <2>1 DEF HandoffInv, RingsInv, ThreadsInv
    <2>4. NoLostWakeup'
      BY <2>1 DEF HandoffInv, NoLostWakeup, Awake, InLoop
    <2> QED BY <2>2, <2>3, <2>4 DEF HandoffInv
  <1> QED BY <1>1, <1>2, <1>3 DEF Next

-------------------------------------------------------------------------------
(* Theorems *)

(* RingQueue and the worker's callbacks (io/handoff.zig, worker/mod.zig)   *)
(* keep the rings, the registrations and the wake-ups consistent at every  *)
(* point where a thread may be suspended.                                  *)
THEOREM HandoffInvariant == Spec => []HandoffInv
  BY InitInv, StepInv, PTL DEF Spec

(* Every field of every ring keeps its type: no index leaves the buffer    *)
(* and no counter of the quota goes below zero, in push and in pop.        *)
THEOREM RingsTyped == Spec => []TypeOK
  <1>1. HandoffInv => TypeOK
    BY DEF HandoffInv
  <1> QED BY <1>1, HandoffInvariant, PTL

(* What push accepted is what pop hands out, in the same order, each       *)
(* message once, however often head and tail wrap.                         *)
THEOREM FifoCorrect == Spec => []FifoExact
  <1>1. HandoffInv => FifoExact
    BY RingFifo DEF HandoffInv, TypeOK, RingsInv, FifoExact
  <1> QED BY <1>1, HandoffInvariant, PTL

(* acquire in push and release in pop leave the quota of a ring equal to   *)
(* the backlog of each realm.                                              *)
THEOREM BacklogCorrect == Spec => []BacklogExact
  <1>1. ASSUME HandoffInv PROVE BacklogExact
    <2> SUFFICES ASSUME NEW w \in Workers
                 PROVE  LET r == ring[w]
                            Of(realm) == {i \in 1 .. r.len : Contents(r)[i].realm = realm}
                        IN  /\ \A realm \in Tracked : r.quota.counts[realm] = Cardinality(Of(realm))
                            /\ r.quota.total = Cardinality(UNION {Of(realm) : realm \in Tracked})
                            /\ r.quota.active_realms
                                  = Cardinality({realm \in Tracked : Of(realm) # {}})
      BY DEF BacklogExact
    <2>1. /\ ring[w] \in Ring /\ accepted[w] \in Seq(Message) /\ taken[w] \in Seq(Message)
          /\ RingInv(ring[w], accepted[w], taken[w])
      BY <1>1 DEF HandoffInv, TypeOK, RingsInv
    <2> QED BY <2>1, RingBacklog
  <1> QED BY <1>1, HandoffInvariant, PTL

(* A push that finds an empty ring, the notification it sends after the    *)
(* lock, setNotifier's own one and the callback that drains until empty    *)
(* leave no message without a wake-up on its way.                          *)
THEOREM WakeupsKept == Spec => []NoLostWakeup
  <1>1. HandoffInv => NoLostWakeup
    BY DEF HandoffInv
  <1> QED BY <1>1, HandoffInvariant, PTL

===============================================================================
