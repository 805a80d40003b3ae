--------------------------- MODULE ExchangesProofs ---------------------------
(***************************************************************************)
(* Proofs about the request path, for every number of sessions, streams,   *)
(* backend connections and identities and every bound.  ExchangesInv joins *)
(* the typing, the invariant of the in-flight tables and what ties entries,*)
(* presence and the running callback to the sessions: a verdict is applied *)
(* to the session its entry names, so the types alone do not carry over a  *)
(* step unless entries name live sessions.  StreamsInv adds what is known  *)
(* of every client stream: its exchange, its input and output, and what    *)
(* waits for it in the tables.                                             *)
(***************************************************************************)
EXTENDS Exchanges, TLAPS, FiniteSetTheorems, SequenceTheorems, WellFoundedInduction

(***************************************************************************)
(* The in-flight tables, for every number of handles, every capacity,      *)
(* every set of realms, every timeout.  The invariant is typing, the exact *)
(* quotas and the deadline together: the quotas need the types, and a      *)
(* release needs the exact count to know that it is no no-op.              *)
(***************************************************************************)

LEMMA Constants ==
    /\ Nil \notin Realms /\ Nil \notin Tracked /\ Nil \notin Nat
    /\ IsFiniteSet(Handles) /\ IsFiniteSet(Tracked)
    /\ Timeout \in Nat \ {0}
  <1>1. IsFiniteSet(Tracked)
    BY FS_Interval, QuotaAssumption DEF Tracked
  <1> QED BY <1>1, InflightAssumption, QuotaAssumption DEF Nil, Tracked

-------------------------------------------------------------------------------
(* A quota that counts a set of entries, when the set gains or loses one.  *)

LEMMA CountsSame ==
    ASSUME NEW q, NEW P, NEW f, NEW g,
           CountsEntries(q, P, f),
           \A h \in P : g[h].realm = f[h].realm
    PROVE  CountsEntries(q, P, g)
  <1>1. \A r \in Tracked : {h \in P : g[h].realm = r} = {h \in P : f[h].realm = r}
    OBVIOUS
  <1>2. {h \in P : g[h].realm \in Tracked} = {h \in P : f[h].realm \in Tracked}
    OBVIOUS
  <1> QED BY <1>1, <1>2 DEF CountsEntries

LEMMA CountsAcquire ==
    ASSUME NEW q \in QuotaType, NEW P, IsFiniteSet(P), NEW x, x \notin P,
           NEW f, NEW g,
           CountsEntries(q, P, f),
           \A h \in P : g[h].realm = f[h].realm
    PROVE  /\ Acquire(q, g[x].realm) \in QuotaType
           /\ CountsEntries(Acquire(q, g[x].realm), P \cup {x}, g)
  <1> DEFINE realm == g[x].realm
             n == Acquire(q, realm)
             Of(r) == {h \in P : f[h].realm = r}
             NewOf(r) == {h \in P \cup {x} : g[h].realm = r}
             All == {h \in P : f[h].realm \in Tracked}
             NewAll == {h \in P \cup {x} : g[h].realm \in Tracked}
             Active == {r \in Tracked : q.counts[r] > 0}
             NewActive == {r \in Tracked : n.counts[r] > 0}
  <1>1. n \in QuotaType
    <2>1. q.counts \in [Tracked -> Nat] /\ q.total \in Nat /\ q.active_realms \in Nat
      BY DEF QuotaType
    <2>2. CASE realm \in Tracked
      <3>1. [q.counts EXCEPT ![realm] = @ + 1] \in [Tracked -> Nat]
        BY <2>1, <2>2
      <3> QED BY <2>1, <2>2, <3>1 DEF Acquire, QuotaType
    <2>3. CASE realm \notin Tracked
      BY <2>3 DEF Acquire
    <2> QED BY <2>2, <2>3
  <1>2. /\ \A r \in Tracked : q.counts[r] = Cardinality(Of(r))
        /\ q.total = Cardinality(All)
        /\ q.active_realms = Cardinality(Active)
    BY DEF CountsEntries
  <1>3. \A r : NewOf(r) = IF r = realm THEN Of(r) \cup {x} ELSE Of(r)
    OBVIOUS
  <1>4. /\ \A r : IsFiniteSet(Of(r)) /\ x \notin Of(r)
        /\ IsFiniteSet(All) /\ x \notin All
        /\ IsFiniteSet(Active)
    BY FS_Subset, Constants
  <1>5. \A r : Cardinality(NewOf(r)) = IF r = realm THEN Cardinality(Of(r)) + 1
                                                    ELSE Cardinality(Of(r))
    <2> HIDE DEF Of, NewOf
    <2> QED BY <1>3, <1>4, FS_AddElement
  <1>6. CASE realm \notin Tracked
    <2>1. n = q
      BY <1>6 DEF Acquire
    <2>2. NewAll = All /\ \A r \in Tracked : NewOf(r) = Of(r)
      BY <1>6
    <2> QED BY <1>1, <1>2, <2>1, <2>2 DEF CountsEntries
  <1>7. CASE realm \in Tracked
    <2>1. /\ n.counts = [q.counts EXCEPT ![realm] = @ + 1]
          /\ n.total = q.total + 1
          /\ n.active_realms = IF q.counts[realm] = 0 THEN q.active_realms + 1
                                                      ELSE q.active_realms
      BY <1>7 DEF Acquire
    <2>2. q.counts \in [Tracked -> Nat]
      BY DEF QuotaType
    <2>3. \A r \in Tracked : n.counts[r] = Cardinality(NewOf(r))
      <3>1. \A r \in Tracked : n.counts[r] =
                IF r = realm THEN q.counts[r] + 1 ELSE q.counts[r]
        BY <1>7, <2>1, <2>2
      <3> HIDE DEF Of, NewOf, n
      <3> QED BY <1>2, <1>5, <3>1
    <2>4. n.total = Cardinality(NewAll)
      <3>1. NewAll = All \cup {x}
        BY <1>7
      <3> HIDE DEF All, NewAll, n
      <3>2. Cardinality(All \cup {x}) = Cardinality(All) + 1
        BY <1>4, FS_AddElement
      <3> QED BY <1>2, <2>1, <3>1, <3>2
    <2>5. n.active_realms = Cardinality(NewActive)
      <3>1. CASE q.counts[realm] = 0
        <4>1. NewActive = Active \cup {realm} /\ realm \notin Active
          BY <3>1, <1>7, <2>1, <2>2
        <4> HIDE DEF Active, NewActive, n
        <4>2. Cardinality(Active \cup {realm}) = Cardinality(Active) + 1
          BY <1>4, <4>1, FS_AddElement
        <4> QED BY <1>2, <2>1, <3>1, <4>1, <4>2
      <3>2. CASE q.counts[realm] # 0
        <4>1. NewActive = Active
          BY <3>2, <1>7, <2>1, <2>2
        <4> HIDE DEF Active, NewActive, n
        <4> QED BY <1>2, <2>1, <3>2, <4>1
      <3> QED BY <3>1, <3>2
    <2> QED BY <1>1, <2>3, <2>4, <2>5 DEF CountsEntries
  <1> QED BY <1>6, <1>7

LEMMA CountsRelease ==
    ASSUME NEW q \in QuotaType, NEW P, IsFiniteSet(P), NEW x \in P, NEW f,
           CountsEntries(q, P, f)
    PROVE  /\ Release(q, f[x].realm) \in QuotaType
           /\ CountsEntries(Release(q, f[x].realm), P \ {x}, f)
  <1> DEFINE realm == f[x].realm
             n == Release(q, realm)
             Of(r) == {h \in P : f[h].realm = r}
             NewOf(r) == {h \in P \ {x} : f[h].realm = r}
             All == {h \in P : f[h].realm \in Tracked}
             NewAll == {h \in P \ {x} : f[h].realm \in Tracked}
             Active == {r \in Tracked : q.counts[r] > 0}
             NewActive == {r \in Tracked : n.counts[r] > 0}
  <1>1. /\ \A r \in Tracked : q.counts[r] = Cardinality(Of(r))
        /\ q.total = Cardinality(All)
        /\ q.active_realms = Cardinality(Active)
    BY DEF CountsEntries
  <1>2. \A r : NewOf(r) = IF r = realm THEN Of(r) \ {x} ELSE Of(r)
    OBVIOUS
  <1>3. /\ \A r : IsFiniteSet(Of(r)) /\ (x \in Of(r) <=> r = realm)
        /\ IsFiniteSet(All)
        /\ IsFiniteSet(Active)
    BY FS_Subset, Constants
  <1>4. \A r : Cardinality(NewOf(r)) = IF r = realm THEN Cardinality(Of(r)) - 1
                                                    ELSE Cardinality(Of(r))
    <2> HIDE DEF Of, NewOf
    <2> QED BY <1>2, <1>3, FS_RemoveElement
  <1>5. CASE realm \notin Tracked
    <2>1. n = q
      BY <1>5 DEF Release
    <2>2. NewAll = All /\ \A r \in Tracked : NewOf(r) = Of(r)
      BY <1>5
    <2> QED BY <1>1, <2>1, <2>2 DEF CountsEntries
  <1>6. CASE realm \in Tracked
    <2>1. q.counts \in [Tracked -> Nat] /\ q.total \in Nat /\ q.active_realms \in Nat
      BY DEF QuotaType
    <2>2. q.counts[realm] # 0
      <3> HIDE DEF Of
      <3> QED BY <1>1, <1>3, <1>6, FS_EmptySet
    <2>3. /\ n.counts = [q.counts EXCEPT ![realm] = @ - 1]
          /\ n.total = q.total - 1
          /\ n.active_realms = IF q.counts[realm] = 1 THEN q.active_realms - 1
                                                      ELSE q.active_realms
      BY <1>6, <2>2 DEF Release
    <2>4. \A r \in Tracked : n.counts[r] = Cardinality(NewOf(r))
      <3>1. \A r \in Tracked : n.counts[r] =
                IF r = realm THEN q.counts[r] - 1 ELSE q.counts[r]
        BY <1>6, <2>1, <2>3
      <3> HIDE DEF Of, NewOf, n
      <3> QED BY <1>1, <1>4, <3>1
    <2>5. n.total = Cardinality(NewAll) /\ q.total > 0
      <3>1. NewAll = All \ {x} /\ x \in All
        BY <1>6
      <3> HIDE DEF All, NewAll, n
      <3>2. Cardinality(All) # 0
        BY <1>3, <3>1, FS_EmptySet
      <3>3. Cardinality(All \ {x}) = Cardinality(All) - 1
        BY <1>3, <3>1, FS_RemoveElement
      <3> QED BY <1>1, <2>1, <2>3, <3>1, <3>2, <3>3
    <2>6. n.active_realms = Cardinality(NewActive) /\ q.active_realms > 0
      <3>1. realm \in Active
        BY <1>6, <2>1, <2>2
      <3>2. q.active_realms > 0
        <4> HIDE DEF Active
        <4> QED BY <1>1, <1>3, <2>1, <3>1, FS_EmptySet
      <3>3. CASE q.counts[realm] = 1
        <4>1. NewActive = Active \ {realm}
          BY <3>3, <1>6, <2>1, <2>3
        <4> HIDE DEF Active, NewActive, n
        <4> QED BY <1>1, <1>3, <2>3, <3>1, <3>2, <3>3, <4>1, FS_RemoveElement
      <3>4. CASE q.counts[realm] # 1
        <4>1. NewActive = Active
          BY <3>4, <1>6, <2>1, <2>2, <2>3
        <4> HIDE DEF Active, NewActive, n
        <4> QED BY <1>1, <2>3, <3>2, <3>4, <4>1
      <3> QED BY <3>3, <3>4
    <2>7. n \in QuotaType
      BY <1>6, <2>2, <2>5, <2>6 DEF QuotaType, Release
    <2> QED BY <2>4, <2>5, <2>6, <2>7 DEF CountsEntries
  <1> QED BY <1>5, <1>6

(* openRoute and trackAuth: an entry that is there gives its cell back     *)
(* before the new one takes its own.                                       *)
LEMMA CountsOverwrite ==
    ASSUME NEW q \in QuotaType, NEW P, IsFiniteSet(P), NEW x, NEW f, NEW g,
           CountsEntries(q, P, f),
           \A h \in P \ {x} : g[h].realm = f[h].realm
    PROVE  LET n == Acquire(IF x \in P THEN Release(q, f[x].realm) ELSE q, g[x].realm)
           IN n \in QuotaType /\ CountsEntries(n, P \cup {x}, g)
  <1>1. CASE x \in P
    <2> DEFINE m == Release(q, f[x].realm)
    <2>1. m \in QuotaType /\ CountsEntries(m, P \ {x}, f)
      BY <1>1, CountsRelease
    <2>2. IsFiniteSet(P \ {x}) /\ x \notin P \ {x} /\ (P \ {x}) \cup {x} = P \cup {x}
      BY FS_Subset
    <2> HIDE DEF m
    <2>3. /\ Acquire(m, g[x].realm) \in QuotaType
          /\ CountsEntries(Acquire(m, g[x].realm), (P \ {x}) \cup {x}, g)
      BY <2>1, <2>2, CountsAcquire
    <2> QED BY <1>1, <2>2, <2>3 DEF m
  <1>2. CASE x \notin P
    <2>1. P \ {x} = P
      BY <1>2
    <2> QED BY <1>2, <2>1, CountsAcquire
  <1> QED BY <1>1, <1>2

-------------------------------------------------------------------------------
(* The deadline of the next scan.                                          *)

LEMMA NaturalMinimum ==
    ASSUME NEW V, V \subseteq Nat, V # {}
    PROVE  \E m \in V : \A k \in V : m <= k
  <1>1. PICK m \in V : \A k \in V : ~(<<k, m>> \in OpToRel(<, Nat))
    BY NatLessThanWellFounded, WFMin
  <1>2. \A k \in V : ~(k < m)
    <2> SUFFICES ASSUME NEW k \in V, k < m PROVE FALSE
      OBVIOUS
    <2>1. <<k, m>> \in OpToRel(<, Nat)
      BY DEF OpToRel
    <2> QED BY <1>1, <2>1
  <1> QED BY <1>2

(* noteExpiry: for a new entry the deadline may only come closer. *)
LEMMA NoteIsEarly ==
    ASSUME next_expiry \in Ages \cup {Nil}
    PROVE  LET n == NoteExpiry(next_expiry, 0) IN
           /\ n \in Ages /\ n # Nil /\ n <= Timeout
           /\ next_expiry # Nil => n <= next_expiry
  BY Constants DEF NoteExpiry, Ages, Nil

(* refreshExpiryDeadline: the minimum over both tables. *)
LEMMA EarliestIsEarly ==
    ASSUME InflightTypeOK
    PROVE  /\ EarliestExpiry \in Ages \cup {Nil}
           /\ \A h \in Routed  : /\ EarliestExpiry # Nil
                                 /\ EarliestExpiry <= Timeout - routes[h].age
           /\ \A h \in Authing : /\ EarliestExpiry # Nil
                                 /\ EarliestExpiry <= Timeout - auths[h].age
  <1> DEFINE left == {Timeout - routes[h].age : h \in Routed}
                        \cup {Timeout - auths[h].age : h \in Authing}
  <1>1. \A h \in Handles : routes[h].age \in Ages /\ auths[h].age \in Ages
    BY DEF InflightTypeOK, Route, PendingAuth
  <1>2. left \subseteq Ages /\ left \subseteq Nat /\ Nil \notin Ages
    BY <1>1, Constants DEF Ages, Routed, Authing, Nil
  <1>3. EarliestExpiry = IF left = {} THEN Nil
                         ELSE CHOOSE n \in left : \A m \in left : n <= m
    BY DEF EarliestExpiry
  <1>4. CASE left = {}
    <2>1. Routed = {} /\ Authing = {}
      BY <1>4
    <2> QED BY <1>3, <1>4, <2>1
  <1>5. CASE left # {}
    <2>1. /\ \A h \in Routed : Timeout - routes[h].age \in left
          /\ \A h \in Authing : Timeout - auths[h].age \in left
      OBVIOUS
    <2> HIDE DEF left
    <2>2. \E n \in left : \A m \in left : n <= m
      BY <1>2, <1>5, NaturalMinimum
    <2>3. EarliestExpiry \in left /\ \A m \in left : EarliestExpiry <= m
      BY <1>3, <1>5, <2>2
    <2> QED BY <1>2, <2>1, <2>3
  <1> QED BY <1>4, <1>5

-------------------------------------------------------------------------------
(* The inductive invariant and its steps, one lemma per operation.         *)

InflightInv == InflightTypeOK /\ InflightQuotaExact /\ ExpiryNeverLate

LEMMA FiniteTables == IsFiniteSet(Routed) /\ IsFiniteSet(Authing)
  BY Constants, FS_Subset DEF Routed, Authing

LEMMA InitInv == InflightInit => InflightInv
  <1> SUFFICES ASSUME InflightInit PROVE InflightInv
    OBVIOUS
  <1>1. InflightTypeOK
    BY Constants, QuotaAssumption DEF InflightInit, InflightTypeOK, NoRoute, NoAuth, Route,
       PendingAuth, QuotaType, EmptyQuota, Ages
  <1>2. Routed = {} /\ Authing = {}
    BY DEF InflightInit, Routed, Authing, NoRoute, NoAuth
  <1>3. \A f : CountsEntries(EmptyQuota, {}, f)
    BY FS_EmptySet DEF CountsEntries, EmptyQuota
  <1>4. InflightQuotaExact
    BY <1>2, <1>3 DEF InflightQuotaExact, InflightInit
  <1> QED BY <1>1, <1>2, <1>4 DEF InflightInv, ExpiryNeverLate

LEMMA OpenInv ==
    ASSUME InflightInv, NEW h \in Handles, NEW route \in Route,
           route.target # "absent", route.age = 0, OpenRoute(h, route)
    PROVE  InflightInv'
  <1>1. /\ routes' \in [Handles -> Route] /\ routes'[h] = route
        /\ \A g \in Handles \ {h} : routes'[g] = routes[g]
    BY DEF InflightInv, InflightTypeOK, OpenRoute
  <1>2. Routed' = Routed \cup {h} /\ Authing' = Authing /\ Routed \subseteq Handles
    BY <1>1 DEF Routed, Authing, OpenRoute
  <1>3. route_quota' \in QuotaType /\ CountsEntries(route_quota', Routed', routes')
    <2>1. /\ route_quota \in QuotaType /\ CountsEntries(route_quota, Routed, routes)
          /\ \A g \in Routed \ {h} : routes'[g].realm = routes[g].realm
      BY <1>1, <1>2 DEF InflightInv, InflightTypeOK, InflightQuotaExact
    <2>2. route_quota' = Acquire(IF h \in Routed THEN Release(route_quota, routes[h].realm)
                                 ELSE route_quota, routes'[h].realm)
      BY <1>1 DEF OpenRoute
    <2> QED BY <1>2, <2>1, <2>2, FiniteTables, CountsOverwrite
  <1>4. /\ next_expiry' \in Ages /\ next_expiry' # Nil /\ next_expiry' <= Timeout
        /\ next_expiry # Nil => next_expiry' <= next_expiry
    BY NoteIsEarly DEF InflightInv, InflightTypeOK, OpenRoute
  <1>5. InflightTypeOK'
    BY <1>1, <1>3, <1>4 DEF InflightInv, InflightTypeOK, OpenRoute
  <1>6. InflightQuotaExact'
    BY <1>2, <1>3 DEF InflightInv, InflightQuotaExact, OpenRoute
  <1>7. ExpiryNeverLate'
    <2>1. \A g \in Handles : routes[g].age \in Nat /\ auths[g].age \in Nat
      BY DEF InflightInv, InflightTypeOK, Route, PendingAuth, Ages
    <2>2. Authing \subseteq Handles /\ next_expiry \in Int /\ next_expiry' \in Int
      BY <1>4, Constants DEF Authing, InflightInv, InflightTypeOK, Ages, Nil
    <2> QED BY <1>1, <1>2, <1>4, <2>1, <2>2, Constants
            DEF InflightInv, ExpiryNeverLate, OpenRoute
  <1> QED BY <1>5, <1>6, <1>7 DEF InflightInv

LEMMA TrackInv ==
    ASSUME InflightInv, NEW h \in Handles, NEW pending \in PendingAuth,
           pending.target # "absent", pending.age = 0, TrackAuth(h, pending)
    PROVE  InflightInv'
  <1>1. /\ auths' \in [Handles -> PendingAuth] /\ auths'[h] = pending
        /\ \A g \in Handles \ {h} : auths'[g] = auths[g]
    BY DEF InflightInv, InflightTypeOK, TrackAuth
  <1>2. Authing' = Authing \cup {h} /\ Routed' = Routed /\ Authing \subseteq Handles
    BY <1>1 DEF Routed, Authing, TrackAuth
  <1>3. auth_quota' \in QuotaType /\ CountsEntries(auth_quota', Authing', auths')
    <2>1. /\ auth_quota \in QuotaType /\ CountsEntries(auth_quota, Authing, auths)
          /\ \A g \in Authing \ {h} : auths'[g].realm = auths[g].realm
      BY <1>1, <1>2 DEF InflightInv, InflightTypeOK, InflightQuotaExact
    <2>2. auth_quota' = Acquire(IF h \in Authing THEN Release(auth_quota, auths[h].realm)
                                 ELSE auth_quota, auths'[h].realm)
      BY <1>1 DEF TrackAuth
    <2> QED BY <1>2, <2>1, <2>2, FiniteTables, CountsOverwrite
  <1>4. /\ next_expiry' \in Ages /\ next_expiry' # Nil /\ next_expiry' <= Timeout
        /\ next_expiry # Nil => next_expiry' <= next_expiry
    BY NoteIsEarly DEF InflightInv, InflightTypeOK, TrackAuth
  <1>5. InflightTypeOK'
    BY <1>1, <1>3, <1>4 DEF InflightInv, InflightTypeOK, TrackAuth
  <1>6. InflightQuotaExact'
    BY <1>2, <1>3 DEF InflightInv, InflightQuotaExact, TrackAuth
  <1>7. ExpiryNeverLate'
    <2>1. \A g \in Handles : routes[g].age \in Nat /\ auths[g].age \in Nat
      BY DEF InflightInv, InflightTypeOK, Route, PendingAuth, Ages
    <2>2. Routed \subseteq Handles /\ next_expiry \in Int /\ next_expiry' \in Int
      BY <1>4, Constants DEF Routed, InflightInv, InflightTypeOK, Ages, Nil
    <2> QED BY <1>1, <1>2, <1>4, <2>1, <2>2, Constants
            DEF InflightInv, ExpiryNeverLate, TrackAuth
  <1> QED BY <1>5, <1>6, <1>7 DEF InflightInv

LEMMA CloseInv ==
    ASSUME InflightInv, NEW h \in Handles, CloseRoute(h)
    PROVE  InflightInv'
  <1>1. /\ routes' \in [Handles -> Route] /\ routes'[h] = NoRoute
        /\ \A g \in Handles \ {h} : routes'[g] = routes[g]
    BY Constants DEF InflightInv, InflightTypeOK, CloseRoute, NoRoute, Route, Ages
  <1>2. Routed' = Routed \ {h} /\ Authing' = Authing /\ Routed \subseteq Handles
    BY <1>1 DEF Routed, Authing, CloseRoute, NoRoute
  <1>3. route_quota' \in QuotaType /\ CountsEntries(route_quota', Routed', routes)
    <2>1. CASE h \in Routed
      BY <1>2, <2>1, FiniteTables, CountsRelease
         DEF InflightInv, InflightTypeOK, InflightQuotaExact, CloseRoute
    <2>2. CASE h \notin Routed
      BY <1>2, <2>2 DEF InflightInv, InflightTypeOK, InflightQuotaExact, CloseRoute
    <2> QED BY <2>1, <2>2
  <1>4. CountsEntries(route_quota', Routed', routes')
    BY <1>1, <1>2, <1>3, CountsSame
  <1>5. InflightTypeOK'
    BY <1>1, <1>3 DEF InflightInv, InflightTypeOK, CloseRoute
  <1>6. InflightQuotaExact'
    BY <1>2, <1>4 DEF InflightInv, InflightQuotaExact, CloseRoute
  <1>7. ExpiryNeverLate'
    BY <1>1, <1>2 DEF InflightInv, ExpiryNeverLate, CloseRoute
  <1> QED BY <1>5, <1>6, <1>7 DEF InflightInv

LEMMA DropInv ==
    ASSUME InflightInv, NEW h \in Handles, DropAuth(h)
    PROVE  InflightInv'
  <1>1. /\ auths' \in [Handles -> PendingAuth] /\ auths'[h] = NoAuth
        /\ \A g \in Handles \ {h} : auths'[g] = auths[g]
    BY Constants DEF InflightInv, InflightTypeOK, DropAuth, NoAuth, PendingAuth, Ages
  <1>2. Authing' = Authing \ {h} /\ Routed' = Routed /\ Authing \subseteq Handles
    BY <1>1 DEF Routed, Authing, DropAuth, NoAuth
  <1>3. auth_quota' \in QuotaType /\ CountsEntries(auth_quota', Authing', auths)
    <2>1. CASE h \in Authing
      BY <1>2, <2>1, FiniteTables, CountsRelease
         DEF InflightInv, InflightTypeOK, InflightQuotaExact, DropAuth
    <2>2. CASE h \notin Authing
      BY <1>2, <2>2 DEF InflightInv, InflightTypeOK, InflightQuotaExact, DropAuth
    <2> QED BY <2>1, <2>2
  <1>4. CountsEntries(auth_quota', Authing', auths')
    BY <1>1, <1>2, <1>3, CountsSame
  <1>5. InflightTypeOK'
    BY <1>1, <1>3 DEF InflightInv, InflightTypeOK, DropAuth
  <1>6. InflightQuotaExact'
    BY <1>2, <1>4 DEF InflightInv, InflightQuotaExact, DropAuth
  <1>7. ExpiryNeverLate'
    BY <1>1, <1>2 DEF InflightInv, ExpiryNeverLate, DropAuth
  <1> QED BY <1>5, <1>6, <1>7 DEF InflightInv

(* The operations that move no entry in or out of a table: the same keys,  *)
(* the same realms.                                                        *)
LEMMA SameEntries ==
    ASSUME InflightInv, InflightTypeOK', ExpiryNeverLate',
           UNCHANGED <<route_quota, auth_quota>>,
           Routed' = Routed, Authing' = Authing,
           \A h \in Routed : routes'[h].realm = routes[h].realm,
           \A h \in Authing : auths'[h].realm = auths[h].realm
    PROVE  InflightInv'
  <1>1. /\ CountsEntries(route_quota, Routed, routes')
        /\ CountsEntries(auth_quota, Authing, auths')
    BY CountsSame DEF InflightInv, InflightQuotaExact
  <1> QED BY <1>1 DEF InflightInv, InflightQuotaExact

LEMMA TouchInv ==
    ASSUME InflightInv, NEW h \in Handles, TouchRoute(h)
    PROVE  InflightInv'
  <1>1. /\ routes' \in [Handles -> Route]
        /\ \A g \in Handles : /\ routes'[g].target = routes[g].target
                              /\ routes'[g].realm = routes[g].realm
                              /\ routes'[g].age <= routes[g].age
                              /\ routes'[g].age \in Ages /\ routes[g].age \in Ages
    BY Constants DEF InflightInv, InflightTypeOK, TouchRoute, Route, Ages
  <1>2. Routed' = Routed /\ Authing' = Authing
    BY <1>1 DEF Routed, Authing, TouchRoute
  <1>3. InflightTypeOK'
    BY <1>1 DEF InflightInv, InflightTypeOK, TouchRoute
  <1>4. ExpiryNeverLate'
    <2>1. next_expiry \in Int /\ Routed \subseteq Handles
      BY Constants DEF InflightInv, InflightTypeOK, Ages, Nil, Routed
    <2> QED BY <1>1, <1>2, <2>1, Constants
            DEF InflightInv, ExpiryNeverLate, TouchRoute, Ages
  <1>5. /\ \A g \in Routed : routes'[g].realm = routes[g].realm
        /\ \A g \in Authing : auths'[g].realm = auths[g].realm
        /\ UNCHANGED <<route_quota, auth_quota>>
    BY <1>1 DEF Routed, TouchRoute
  <1> QED BY <1>2, <1>3, <1>4, <1>5, SameEntries

LEMMA SuppressInv ==
    ASSUME InflightInv, NEW s \in Sessions, NEW t \in Streams, Suppress(s, t)
    PROVE  InflightInv'
  <1>1. \A g \in Handles : routes[g] \in Route /\ auths[g] \in PendingAuth
    BY DEF InflightInv, InflightTypeOK
  <1>2. \A g \in Handles :
           /\ routes'[g] \in Route
           /\ routes'[g].target = "absent" <=> routes[g].target = "absent"
           /\ routes'[g].realm = routes[g].realm
           /\ routes'[g].age = routes[g].age
    BY <1>1 DEF Suppress, SuppressedRoutes, Targets, Route
  <1>3. \A g \in Handles :
           /\ auths'[g] \in PendingAuth
           /\ auths'[g].target = auths[g].target
           /\ auths'[g].realm = auths[g].realm
           /\ auths'[g].age = auths[g].age
    BY <1>1 DEF Suppress, SuppressedAuths, Targets, PendingAuth
  <1>4. Routed' = Routed /\ Authing' = Authing
    BY <1>2, <1>3 DEF Routed, Authing
  <1>5. InflightTypeOK'
    <2>1. routes' = [g \in Handles |-> routes'[g]] /\ auths' = [g \in Handles |-> auths'[g]]
      BY DEF Suppress, SuppressedRoutes, SuppressedAuths
    <2>2. routes' \in [Handles -> Route] /\ auths' \in [Handles -> PendingAuth]
      BY <1>2, <1>3, <2>1
    <2> QED BY <2>2 DEF InflightInv, InflightTypeOK, Suppress
  <1>6. Routed \subseteq Handles /\ Authing \subseteq Handles
    BY DEF Routed, Authing
  <1>7. ExpiryNeverLate'
    BY <1>2, <1>3, <1>4, <1>6 DEF InflightInv, ExpiryNeverLate, Suppress
  <1>8. UNCHANGED <<route_quota, auth_quota>>
    BY DEF Suppress
  <1> QED BY <1>2, <1>3, <1>4, <1>5, <1>6, <1>7, <1>8, SameEntries

LEMMA AgeInv ==
    ASSUME InflightInv, Age
    PROVE  InflightInv'
  <1>1. \A g \in Handles : /\ routes[g] \in Route /\ auths[g] \in PendingAuth
                           /\ routes[g].age \in Ages /\ auths[g].age \in Ages
    BY DEF InflightInv, InflightTypeOK, Route, PendingAuth
  <1>2. \A g \in Handles :
           /\ routes'[g] \in Route
           /\ routes'[g].target = routes[g].target
           /\ routes'[g].realm = routes[g].realm
           /\ routes'[g].age = routes[g].age
                 \/ routes'[g].age = routes[g].age + 1
           /\ routes'[g].age \in Ages
    BY <1>1, Constants DEF Age, Older, Route, Ages
  <1>3. \A g \in Handles :
           /\ auths'[g] \in PendingAuth
           /\ auths'[g].target = auths[g].target
           /\ auths'[g].realm = auths[g].realm
           /\ auths'[g].age = auths[g].age
                 \/ auths'[g].age = auths[g].age + 1
           /\ auths'[g].age \in Ages
    BY <1>1, Constants DEF Age, Older, PendingAuth, Ages
  <1>4. Routed' = Routed /\ Authing' = Authing
    BY <1>2, <1>3 DEF Routed, Authing
  <1>5. /\ next_expiry \in Ages \cup {Nil} /\ next_expiry' \in Ages \cup {Nil}
        /\ next_expiry # Nil => next_expiry' # Nil
        /\ next_expiry > 0 => next_expiry' = next_expiry - 1
        /\ ~(next_expiry > 0) => next_expiry' = next_expiry
    BY Constants DEF InflightInv, InflightTypeOK, Age, Ages, Nil
  <1>6. InflightTypeOK'
    <2>1. routes' = [g \in Handles |-> routes'[g]] /\ auths' = [g \in Handles |-> auths'[g]]
      BY DEF Age
    <2>2. routes' \in [Handles -> Route] /\ auths' \in [Handles -> PendingAuth]
      BY <1>2, <1>3, <2>1
    <2> QED BY <1>5, <2>2 DEF InflightInv, InflightTypeOK, Age
  <1>7. Routed \subseteq Handles /\ Authing \subseteq Handles
    BY DEF Routed, Authing
  <1>8. ExpiryNeverLate'
    <2>1. ASSUME NEW g \in Routed
          PROVE  next_expiry' # Nil /\ next_expiry' <= Timeout - routes'[g].age
      <3>1. next_expiry # Nil /\ next_expiry <= Timeout - routes[g].age
        BY <2>1 DEF InflightInv, ExpiryNeverLate
      <3> QED BY <1>1, <1>2, <1>5, <1>7, <2>1, <3>1, Constants DEF Ages
    <2>2. ASSUME NEW g \in Authing
          PROVE  next_expiry' # Nil /\ next_expiry' <= Timeout - auths'[g].age
      <3>1. next_expiry # Nil /\ next_expiry <= Timeout - auths[g].age
        BY <2>2 DEF InflightInv, ExpiryNeverLate
      <3> QED BY <1>1, <1>3, <1>5, <1>7, <2>2, <3>1, Constants DEF Ages
    <2> QED BY <1>4, <2>1, <2>2 DEF ExpiryNeverLate
  <1>9. UNCHANGED <<route_quota, auth_quota>>
    BY DEF Age
  <1> QED BY <1>2, <1>3, <1>4, <1>6, <1>7, <1>8, <1>9, SameEntries

LEMMA RefreshInv ==
    ASSUME InflightInv, RefreshExpiryDeadline
    PROVE  InflightInv'
  <1>1. Routed' = Routed /\ Authing' = Authing
    BY DEF Routed, Authing, RefreshExpiryDeadline
  <1>2. InflightTypeOK
    BY DEF InflightInv
  <1>3. next_expiry' = EarliestExpiry
    BY DEF RefreshExpiryDeadline
  <1>4. InflightTypeOK'
    BY <1>2, <1>3, EarliestIsEarly DEF InflightTypeOK, RefreshExpiryDeadline
  <1>5. ExpiryNeverLate'
    BY <1>1, <1>2, <1>3, EarliestIsEarly DEF ExpiryNeverLate, RefreshExpiryDeadline
  <1> QED BY <1>1, <1>4, <1>5, SameEntries DEF RefreshExpiryDeadline

LEMMA NewEntries ==
    ASSUME NEW s \in Sessions, NEW t \in Streams, NEW r \in Realms
    PROVE  /\ ClientRoute(s, t, r) \in Route
           /\ ClientRoute(s, t, r).target # "absent" /\ ClientRoute(s, t, r).age = 0
           /\ WaitingAuth(s, t, r) \in PendingAuth
           /\ WaitingAuth(s, t, r).target # "absent" /\ WaitingAuth(s, t, r).age = 0
  BY Constants DEF ClientRoute, WaitingAuth, Route, PendingAuth, Ages

LEMMA NewDiscard ==
    ASSUME NEW r \in Realms
    PROVE  /\ DiscardRoute(r) \in Route
           /\ DiscardRoute(r).target # "absent" /\ DiscardRoute(r).age = 0
  BY Constants DEF DiscardRoute, Route, Ages

LEMMA StepInv == InflightInv /\ [InflightNext]_inflightVars => InflightInv'
  <1> SUFFICES ASSUME InflightInv, [InflightNext]_inflightVars PROVE InflightInv'
    OBVIOUS
  <1>1. ASSUME NEW h \in Handles, NEW s \in Sessions, NEW t \in Streams, NEW r \in Realms,
               OpenRoute(h, ClientRoute(s, t, r))
        PROVE  InflightInv'
    BY <1>1, NewEntries, OpenInv
  <1>2. ASSUME NEW h \in Handles, NEW s \in Sessions, NEW t \in Streams, NEW r \in Realms,
               TrackAuth(h, WaitingAuth(s, t, r))
        PROVE  InflightInv'
    BY <1>2, NewEntries, TrackInv
  <1>3. ASSUME NEW h \in Handles, NEW r \in Realms, OpenRoute(h, DiscardRoute(r))
        PROVE  InflightInv'
    BY <1>3, NewDiscard, OpenInv
  <1>4. CASE UNCHANGED inflightVars
    BY <1>4 DEF inflightVars, InflightInv, InflightTypeOK, InflightQuotaExact,
       ExpiryNeverLate, CountsEntries, Routed, Authing
  <1> QED BY <1>1, <1>2, <1>3, <1>4, TouchInv, CloseInv, DropInv, SuppressInv, AgeInv,
             RefreshInv DEF InflightNext

(* The in-flight tables keep their typing, their quotas and their deadline *)
(* under any order of the calls of Tables (inflight.zig).                  *)
THEOREM InflightInvariant == InflightSpec => []InflightInv
  BY InitInv, StepInv, PTL DEF InflightSpec

(* Each quota is exactly the entries of its table, realm by realm, also    *)
(* when a key is opened again while its entry is there (openRoute,         *)
(* trackAuth, takeRoute, dropAuth): no sequence of calls erodes a quota.   *)
THEOREM InflightQuotaCorrect == InflightSpec => []InflightQuotaExact
  <1>1. InflightInv => InflightQuotaExact
    BY DEF InflightInv
  <1> QED BY <1>1, InflightInvariant, PTL

(* The lazily kept deadline is never later than the age limit of any entry *)
(* (noteExpiry, touchRoute, refreshExpiryDeadline), so a scan that only    *)
(* runs when it is due expires every request in time.                      *)
THEOREM ScanNeverLate == InflightSpec => []ExpiryNeverLate
  <1>1. InflightInv => ExpiryNeverLate
    BY DEF InflightInv
  <1> QED BY <1>1, InflightInvariant, PTL

(***************************************************************************)
(* The request path.                                                       *)
(***************************************************************************)

(* A session that is there has its realm, only such a session is admitted, *)
(* and phase.who is set exactly while a close is carried out.              *)
SessionsOK ==
    /\ \A s \in Sessions : /\ session[s].status # "absent" => session[s].realm \in Realms
                           /\ session[s].authenticated => session[s].status # "absent"
    /\ IF phase.at = "close" THEN phase.who \in Sessions ELSE phase.who = Nil

(* An entry of a client names one of its streams. *)
EntriesPlaced ==
    \A h \in Handles :
        /\ routes[h].target = "client" =>
              routes[h].session \in Sessions /\ routes[h].stream \in Streams
        /\ auths[h].target = "client" =>
              auths[h].session \in Sessions /\ auths[h].stream \in Streams

(* What the gateway has to say of a session is as it is admitted: the last *)
(* event of the outbox, or what was announced when nothing is to be said.  *)
Describes(event) ==
    IF session[event.session].authenticated /\ phase.who # event.session
    THEN event.online /\ event.dest_id = session[event.session].dest_id
    ELSE ~event.online

(* An offline event takes back the identity that is announced online. *)
Follows(event) ==
    LET last == announced[event.session] IN
    ~last.missed /\ last.kind = "online" /\ ~event.online => event.dest_id = last.dest_id

OutboxOK ==
    \/ outbox = <<>>
    \/ \E e \in LifecycleEvent : outbox = <<e>> /\ Describes(e) /\ Follows(e)
    \/ \E e, f \in LifecycleEvent :
          /\ outbox = <<e, f>> /\ e.session = f.session
          /\ f.online /\ Describes(f) /\ Follows(e)

AnnouncedOK(s) ==
    ~announced[s].missed =>
        IF session[s].authenticated /\ phase.who # s
        THEN announced[s].kind = "online" /\ announced[s].dest_id = session[s].dest_id
        ELSE announced[s].kind # "online"

PresenceOK ==
    /\ OutboxOK
    /\ \A s \in Sessions : outbox = <<>> \/ Head(outbox).session # s => AnnouncedOK(s)

ExchangesInv ==
    /\ TypeOK
    /\ InflightInv
    /\ SessionsOK
    /\ EntriesPlaced
    /\ EntriesNameLiveSessions
    /\ PresenceOK

-------------------------------------------------------------------------------
(* Events and the front of the queue.                                      *)

LEMMA FrontIsEvent ==
    ASSUME TypeOK, Ready # {}
    PROVE  /\ FirstReady \in Conns
           /\ recv[FirstReady] \in Seq(Event) /\ recv[FirstReady] # <<>>
           /\ Front \in Event /\ Front.handle \in Handles
  <1>1. Ready \subseteq Nat
    BY ExchangesAssumption DEF Ready
  <1>2. \E k \in Ready : \A j \in Ready : k <= j
    BY <1>1, NaturalMinimum
  <1>3. FirstReady \in Ready
    BY <1>2 DEF FirstReady
  <1>4. FirstReady \in Conns /\ recv[FirstReady] \in Seq(Event) /\ recv[FirstReady] # <<>>
    BY <1>3 DEF Ready, TypeOK
  <1>5. Front \in Event
    BY <1>4 DEF Front
  <1> QED BY <1>4, <1>5 DEF Event

-------------------------------------------------------------------------------
(* What a step does to the in-flight tables: nothing, or one operation of  *)
(* Inflight, under its reservation, for a session that is there.           *)

TableStep ==
    \/ UNCHANGED inflightVars
    \/ \E h \in Handles : TouchRoute(h) \/ CloseRoute(h) \/ DropAuth(h)
    \/ \E h \in Handles, r \in Realms : ReserveRoute(r) /\ OpenRoute(h, DiscardRoute(r))
    \/ \E s \in Sessions, t \in Streams : Suppress(s, t)
    \/ Age
    \/ RefreshExpiryDeadline
    \/ \E h \in Handles, s \in Sessions, t \in Streams :
          /\ session[s].status # "absent"
          /\ \/ /\ ReserveRoute(session[s].realm)
                /\ OpenRoute(h, ClientRoute(s, t, session[s].realm))
             \/ /\ ReserveAuth(session[s].realm)
                /\ TrackAuth(h, WaitingAuth(s, t, session[s].realm))

LEMMA TableSteps ==
    ASSUME ExchangesInv, [Next]_vars
    PROVE  TableStep
  <1>0. /\ Fresh \subseteq Handles /\ Routed \subseteq Handles /\ Authing \subseteq Handles
        /\ \A s \in Sessions : session[s].status # "absent" => session[s].realm \in Realms
        /\ \A c \in Cells : exchanges[c].backend \in Handles \cup {Nil}
    BY DEF Fresh, Routed, Authing, ExchangesInv, SessionsOK, TypeOK, Exchange
  <1>1. CASE ClientNext
    <2> SUFFICES ASSUME NEW s \in Sessions,
                        \/ \E realm \in Realms, b \in Bindings : AcceptSession(s, realm, b)
                        \/ TransportFails(s) \/ CloseSession(s)
                        \/ \E t \in Streams : StreamNext(s, t)
                 PROVE  TableStep
      BY <1>1 DEF ClientNext
    <2>1. ASSUME NEW realm \in Realms, NEW b \in Bindings, AcceptSession(s, realm, b)
          PROVE  TableStep
      BY <2>1 DEF AcceptSession, TableStep
    <2>2. CASE TransportFails(s) \/ CloseSession(s)
      BY <2>2 DEF TransportFails, CloseSession, TableStep
    <2>3. ASSUME NEW t \in Streams, NEW dest \in Dests, NEW mode \in Modes,
                 NEW last \in BOOLEAN,
                 \/ ReceiveBadOpen(s, t, dest, mode)
                 \/ ReceiveRefusedOpen(s, t, dest, mode, last)
          PROVE  TableStep
      BY <2>3 DEF ReceiveBadOpen, ReceiveRefusedOpen, TableStep
    <2>4. ASSUME NEW t \in Streams, NEW mode \in Modes, NEW last \in BOOLEAN,
                 ReceiveServiceOpen(s, t, mode, last)
          PROVE  TableStep
      <3>1. PICK h \in Fresh : OpenRoute(h, IF mode = "required"
                                            THEN ClientRoute(s, t, session[s].realm)
                                            ELSE DiscardRoute(session[s].realm))
        BY <2>4 DEF ReceiveServiceOpen
      <3>2. session[s].status # "absent" /\ ReserveRoute(session[s].realm)
        BY <2>4 DEF ReceiveServiceOpen, OpenArrives, FrameArrives, Refuses
      <3>3. h \in Handles /\ session[s].realm \in Realms
        BY <1>0, <3>2
      <3> QED BY <3>1, <3>2, <3>3 DEF TableStep
    <2>5. ASSUME NEW t \in Streams, NEW mode \in Modes,
                 ReceiveControlOpen(s, t, mode) \/ ReceiveDisconnect(s, t) \/ ReceiveFin(s, t)
          PROVE  TableStep
      BY <2>5 DEF ReceiveControlOpen, ReceiveDisconnect, ReceiveFin, TableStep
    <2>6. ASSUME NEW t \in Streams, ReceiveAuthOpen(s, t)
          PROVE  TableStep
      <3>1. session[s].status # "absent"
        BY <2>6 DEF ReceiveAuthOpen, OpenArrives, FrameArrives
      <3> QED BY <1>0, <2>6, <3>1 DEF ReceiveAuthOpen, TableStep
    <2>7. ASSUME NEW t \in Streams, NEW last \in BOOLEAN, ReceiveData(s, t, last)
          PROVE  TableStep
      BY <1>0, <2>7 DEF ReceiveData, TableStep
    <2>8. ASSUME NEW t \in Streams, ReceiveReset(s, t)
          PROVE  TableStep
      <3>1. exchanges[<<s, t>>].backend \in Handles \cup {Nil}
        BY <1>0 DEF Cells
      <3> QED BY <2>8, <3>1 DEF ReceiveReset, TableStep
    <2>9. ASSUME NEW t \in Streams, ReceiveStop(s, t)
          PROVE  TableStep
      BY <2>9 DEF ReceiveStop, TableStep
    <2>10. "required" \in Modes /\ TRUE \in BOOLEAN /\ "gateway" \in Dests
      BY DEF Modes, Dests
    <2> QED BY <2>1, <2>2, <2>3, <2>4, <2>5, <2>6, <2>7, <2>8, <2>9, <2>10
            DEF StreamNext
  <1>2. CASE AdmissionNext
    BY <1>2 DEF AdmissionNext, AdmissionLapses, ExpireAdmission, RefreshOnline, Kick,
                TableStep
  <1>3. CASE BackendNext
    BY <1>3 DEF BackendNext, BackendResponds, BackendResets, BackendStops, ConnectionLost,
                Reconnect, TableStep
  <1>4. CASE StartPoll \/ Tick
    BY <1>4 DEF StartPoll, Tick, TableStep
  <1>5. CASE CallbackNext
    <2>1. CASE PublishEvent
      <3>1. Head(outbox) \in LifecycleEvent
        BY <2>1 DEF PublishEvent, ExchangesInv, TypeOK
      <3>2. Head(outbox).realm \in Realms
        BY <3>1 DEF LifecycleEvent
      <3> QED BY <1>0, <2>1, <3>2 DEF PublishEvent, TableStep
    <2>2. ASSUME NEW h \in Handles, Purge(h) \/ FailEntry(h) \/ Expire(h)
          PROVE  TableStep
      BY <2>2 DEF Purge, FailEntry, Expire, TableStep
    <2>3. CASE DrainControl \/ DrainAuth \/ DrainRoute \/ DrainOrphan
      <3>1. Front.handle \in Handles
        BY <2>3, FrontIsEvent DEF DrainControl, DrainAuth, DrainRoute, DrainOrphan, Draining,
           ExchangesInv
      <3> QED BY <2>3, <3>1 DEF DrainControl, DrainAuth, DrainRoute, DrainOrphan, TableStep
    <2>4. CASE RemoveSession \/ (\E k \in Conns : ReportFailure(k)) \/ DrainDone
               \/ FailDone \/ ExpireDone
      BY <2>4 DEF RemoveSession, ReportFailure, DrainDone, FailDone, ExpireDone, TableStep
    <2> QED BY <1>5, <2>1, <2>2, <2>3, <2>4 DEF CallbackNext
  <1>6. CASE UNCHANGED vars
    BY <1>6 DEF vars, TableStep
  <1> QED BY <1>1, <1>2, <1>3, <1>4, <1>5, <1>6 DEF Next

LEMMA TablesImplement ==
    ASSUME ExchangesInv, [Next]_vars
    PROVE  [InflightNext]_inflightVars
  <1>1. \A s \in Sessions : session[s].status # "absent" => session[s].realm \in Realms
    BY DEF ExchangesInv, SessionsOK
  <1> QED BY <1>1, TableSteps DEF TableStep, InflightNext

-------------------------------------------------------------------------------
(* What the operations do to the record of a session.                      *)

(* The record of a session that may be stored. *)
Sound(rec) ==
    /\ rec \in Session
    /\ rec.status # "absent" => rec.realm \in Realms
    /\ rec.authenticated => rec.status # "absent"

LEMMA NoSessionSound == Sound(NoSession)
  BY DEF Sound, NoSession, Session

LEMMA RecordMoves ==
    ASSUME NEW rec, Sound(rec), rec.status # "absent"
    PROVE  /\ Sound([rec EXCEPT !.status = "closing"])
           /\ \A t \in Streams : Sound([rec EXCEPT !.claimed = t])
           /\ \A t \in Streams : Sound([rec EXCEPT !.claimed = t, !.status = "closing"])
           /\ Sound([rec EXCEPT !.lapsed = TRUE])
  <1>1. ASSUME NEW n \in Session, n.status \in {rec.status, "closing"},
               n.realm = rec.realm, n.authenticated = rec.authenticated
        PROVE  Sound(n)
    BY <1>1 DEF Sound
  <1>2. rec \in Session
    BY DEF Sound
  <1>3. Sound([rec EXCEPT !.status = "closing"])
    BY <1>1, <1>2 DEF Session
  <1>4. ASSUME NEW t \in Streams
        PROVE  /\ Sound([rec EXCEPT !.claimed = t])
               /\ Sound([rec EXCEPT !.claimed = t, !.status = "closing"])
    <2>1. Sound([rec EXCEPT !.claimed = t])
      BY <1>1, <1>2 DEF Session
    <2>2. Sound([rec EXCEPT !.claimed = t, !.status = "closing"])
      BY <1>1, <1>2 DEF Session
    <2> QED BY <2>1, <2>2
  <1>5. Sound([rec EXCEPT !.lapsed = TRUE])
    BY <1>1, <1>2 DEF Session
  <1> QED BY <1>3, <1>4, <1>5

LEMMA RevokedSound ==
    ASSUME NEW rec, Sound(rec), NEW k \in BOOLEAN
    PROVE  /\ Sound(Revoked(rec))
           /\ Revoked(rec).realm = rec.realm /\ Revoked(rec).status = rec.status
           /\ Sound([Revoked(rec) EXCEPT !.kicked = k])
           /\ rec.status # "absent" => Sound([Revoked(rec) EXCEPT !.kicked = k,
                                                               !.status = "closing"])
  <1> DEFINE rev == Revoked(rec)
  <1>1. rec \in Session /\ (rec.status # "absent" => rec.realm \in Realms)
    BY DEF Sound
  <1>2. /\ rev \in Session /\ ~rev.authenticated
        /\ rev.realm = rec.realm /\ rev.status = rec.status
    BY <1>1 DEF Session, Revoked
  <1> HIDE DEF rev
  <1>3. Sound(rev) /\ Sound([rev EXCEPT !.kicked = k])
    BY <1>1, <1>2 DEF Sound, Session
  <1>4. rec.status # "absent" => Sound([rev EXCEPT !.kicked = k, !.status = "closing"])
    BY <1>1, <1>2 DEF Sound, Session
  <1> QED BY <1>2, <1>3, <1>4 DEF rev

LEMMA AuthenticatedSound ==
    ASSUME NEW rec, Sound(rec), rec.status # "absent", NEW dest \in DestIds \cup {0}
    PROVE  /\ Sound(Authenticated(rec, dest))
           /\ Authenticated(rec, dest).realm = rec.realm
           /\ Authenticated(rec, dest).status = rec.status
  <1> DEFINE now == Authenticated(rec, dest)
  <1>1. rec \in Session /\ rec.realm \in Realms
    BY DEF Sound
  <1>2. /\ now \in Session /\ now.realm = rec.realm /\ now.status = rec.status
    BY <1>1 DEF Session, Authenticated
  <1> HIDE DEF now
  <1>3. Sound(now)
    BY <1>1, <1>2 DEF Sound
  <1> QED BY <1>2, <1>3 DEF now

LEMMA SaidTyped ==
    ASSUME NEW s \in Sessions, Sound(session[s]), NEW dest \in DestIds \cup {0}
    PROVE  /\ Said(s) \in Seq(LifecycleEvent)
           /\ session[s].status # "absent" =>
                 OnlineSaid(s, dest) \in Seq(LifecycleEvent)
           /\ session[s].status # "absent" =>
                 Announced(s, dest) \in Seq(LifecycleEvent)
  <1>0. /\ session[s].dest_id \in DestIds \cup {0}
        /\ session[s].authenticated => session[s].status # "absent"
        /\ session[s].status # "absent" => session[s].realm \in Realms
    BY DEF Sound, Session
  <1>1. Said(s) \in Seq(LifecycleEvent)
    <2> DEFINE e == [session |-> s, realm |-> session[s].realm,
                     dest_id |-> session[s].dest_id, online |-> FALSE]
    <2>1. session[s].authenticated => e \in LifecycleEvent
      BY <1>0 DEF LifecycleEvent
    <2>2. Said(s) = IF session[s].authenticated THEN <<e>> ELSE <<>>
      BY DEF Said
    <2> HIDE DEF e
    <2> QED BY <2>1, <2>2
  <1>2. session[s].status # "absent" => OnlineSaid(s, dest) \in Seq(LifecycleEvent)
    <2> DEFINE e == [session |-> s, realm |-> session[s].realm, dest_id |-> dest,
                     online |-> TRUE]
    <2>1. session[s].status # "absent" => e \in LifecycleEvent
      BY <1>0 DEF LifecycleEvent
    <2>2. OnlineSaid(s, dest) = <<e>>
      BY DEF OnlineSaid
    <2> HIDE DEF e
    <2> QED BY <2>1, <2>2
  <1>3. session[s].status # "absent" =>
           Said(s) \o OnlineSaid(s, dest) \in Seq(LifecycleEvent)
    BY <1>1, <1>2
  <1> QED BY <1>1, <1>2, <1>3 DEF Announced

LEMMA AllSound ==
    ASSUME ExchangesInv
    PROVE  \A s \in Sessions : Sound(session[s])
  <1>1. \A s \in Sessions : session[s] \in Session
    BY DEF ExchangesInv, TypeOK
  <1> QED BY <1>1 DEF ExchangesInv, SessionsOK, Sound

-------------------------------------------------------------------------------
(* The sessions and the running callback.                                  *)

SessionsGood ==
    /\ session \in [Sessions -> Session]
    /\ SessionsOK

(* Sessions keep their realm while they are there. *)
SessionsKept ==
    \A s \in Sessions : session[s].status # "absent" =>
        session'[s].status # "absent" /\ session'[s].realm = session[s].realm

LEMMA SameSessions ==
    ASSUME ExchangesInv, UNCHANGED session,
           \/ UNCHANGED phase
           \/ phase.at # "close" /\ phase'.at # "close" /\ phase'.who = Nil
    PROVE  SessionsGood' /\ SessionsKept
  BY DEF ExchangesInv, TypeOK, SessionsGood, SessionsOK, SessionsKept

LEMMA OneSession ==
    ASSUME ExchangesInv, NEW s \in Sessions, NEW rec, Sound(rec),
           session' = [session EXCEPT ![s] = rec],
           phase.at # "close", phase'.at # "close", phase'.who = Nil,
           session[s].status # "absent" =>
              rec.status # "absent" /\ rec.realm = session[s].realm
    PROVE  SessionsGood' /\ SessionsKept
  <1>1. session' \in [Sessions -> Session] /\ session'[s] = rec
        /\ \A x \in Sessions \ {s} : session'[x] = session[x]
    BY DEF ExchangesInv, TypeOK, Sound
  <1>2. \A x \in Sessions : Sound(session'[x])
    BY <1>1, AllSound
  <1>3. SessionsOK'
    BY <1>2 DEF SessionsOK, Sound
  <1>4. SessionsKept
    BY <1>1 DEF SessionsKept
  <1> QED BY <1>1, <1>3, <1>4 DEF SessionsGood

LEMMA IdlePhase ==
    ASSUME ExchangesInv, phase.at # "close"
    PROVE  phase.who = Nil
  BY DEF ExchangesInv, SessionsOK

(* claimInboundExchange, with or without the close of a disconnect *)
LEMMA ClaimKeeps ==
    ASSUME ExchangesInv, NEW s \in Sessions, NEW t \in Streams, session[s].status # "absent",
           phase.at # "close", UNCHANGED phase,
           \/ session' = Claimed(s, t)
           \/ session' = [Claimed(s, t) EXCEPT ![s].status = "closing"]
    PROVE  SessionsGood' /\ SessionsKept
  <1> DEFINE claim == [session[s] EXCEPT !.claimed = t]
             shut == [session[s] EXCEPT !.status = "closing"]
             both == [session[s] EXCEPT !.claimed = t, !.status = "closing"]
  <1>1. Sound(session[s]) /\ session[s] \in Session
    BY AllSound DEF Sound
  <1>2. Sound(claim) /\ Sound(shut) /\ Sound(both)
    BY <1>1, RecordMoves
  <1>3. /\ claim.status # "absent" /\ claim.realm = session[s].realm
        /\ shut.status # "absent" /\ shut.realm = session[s].realm
        /\ both.status # "absent" /\ both.realm = session[s].realm
    BY <1>1 DEF Session
  <1>4. session \in [Sessions -> Session]
    BY DEF ExchangesInv, TypeOK
  <1>5. \/ session' = session
        \/ session' = [session EXCEPT ![s] = claim]
        \/ session' = [session EXCEPT ![s] = shut]
        \/ session' = [session EXCEPT ![s] = both]
    BY <1>4 DEF Claimed
  <1>6. phase'.at # "close" /\ phase'.who = Nil
    BY IdlePhase
  <1> HIDE DEF claim, shut, both
  <1> QED BY <1>2, <1>3, <1>5, <1>6, OneSession, SameSessions

LEMMA CloseKeeps ==
    ASSUME ExchangesInv, NEW s \in Sessions, session[s].status # "absent",
           phase.at # "close", phase'.at # "close", phase'.who = Nil, CloseTransport(s)
    PROVE  SessionsGood' /\ SessionsKept
  <1> DEFINE shut == [session[s] EXCEPT !.status = "closing"]
  <1>1. Sound(session[s]) /\ session[s] \in Session
    BY AllSound DEF Sound
  <1>2. Sound(shut) /\ shut.status # "absent" /\ shut.realm = session[s].realm
    BY <1>1, RecordMoves DEF Session
  <1>3. session' = [session EXCEPT ![s] = shut]
    BY DEF CloseTransport
  <1> HIDE DEF shut
  <1> QED BY <1>2, <1>3, OneSession

LEMMA SessionSteps ==
    ASSUME ExchangesInv, [Next]_vars
    PROVE  SessionsGood' /\ (SessionsKept \/ RemoveSession)
  <1>0. Idle => phase.at # "close" /\ phase.who = Nil
    BY IdlePhase DEF Idle
  <1>1. CASE ClientNext
    <2>0. PICK s \in Sessions :
             \/ \E realm \in Realms, b \in Bindings : AcceptSession(s, realm, b)
             \/ TransportFails(s) \/ CloseSession(s)
             \/ \E t \in Streams : StreamNext(s, t)
      BY <1>1 DEF ClientNext
    <2>1. ASSUME NEW realm \in Realms, NEW b \in Bindings, AcceptSession(s, realm, b)
          PROVE  SessionsGood' /\ SessionsKept
      <3> DEFINE rec == [NoSession EXCEPT !.status = "open", !.binding = b, !.realm = realm]
      <3>1. Sound(rec)
        BY DEF Sound, Session, NoSession
      <3>2. session' = [session EXCEPT ![s] = rec] /\ session[s].status = "absent"
        BY <2>1 DEF AcceptSession
      <3>3. phase.at # "close" /\ phase'.at # "close" /\ phase'.who = Nil
        BY <1>0, <2>1 DEF AcceptSession, threadVars
      <3> HIDE DEF rec
      <3> QED BY <3>1, <3>2, <3>3, OneSession
    <2>2. CASE TransportFails(s)
      <3>1. /\ phase.at # "close" /\ phase'.at # "close" /\ phase'.who = Nil
            /\ CloseTransport(s) /\ session[s].status # "absent"
        BY <1>0, <2>2 DEF TransportFails, threadVars
      <3> QED BY <3>1, CloseKeeps
    <2>3. CASE CloseSession(s)
      <3> DEFINE rec == [session[s] EXCEPT !.status = "closing"]
      <3>1. /\ session[s].status # "absent"
            /\ session' = [session EXCEPT ![s] = rec]
            /\ phase' = [Phase("close") EXCEPT !.who = s]
        BY <2>3 DEF CloseSession, CloseTransport
      <3>2. \A x \in Sessions : Sound(session[x])
        BY AllSound
      <3>3. Sound(rec) /\ rec.status = "closing" /\ rec.realm = session[s].realm
        <4>1. Sound(rec)
          BY <3>1, <3>2, RecordMoves
        <4>2. session[s] \in Session
          BY <3>2 DEF Sound
        <4> QED BY <4>1, <4>2 DEF Session
      <3>4. phase'.at = "close" /\ phase'.who = s
        BY <3>1 DEF Phase
      <3> HIDE DEF rec
      <3>5. /\ session' \in [Sessions -> Session] /\ session'[s] = rec
            /\ \A x \in Sessions \ {s} : session'[x] = session[x]
        BY <3>1, <3>3 DEF ExchangesInv, TypeOK, Sound
      <3>6. SessionsOK'
        BY <3>2, <3>3, <3>4, <3>5 DEF SessionsOK, Sound
      <3>7. SessionsKept
        BY <3>3, <3>5 DEF SessionsKept
      <3> QED BY <3>5, <3>6, <3>7 DEF SessionsGood
    <2>4. ASSUME NEW t \in Streams, NEW dest \in Dests, NEW mode \in Modes,
                 ReceiveBadOpen(s, t, dest, mode)
          PROVE  SessionsGood' /\ SessionsKept
      <3>1. /\ phase.at # "close" /\ phase'.at # "close" /\ phase'.who = Nil
            /\ CloseTransport(s) /\ session[s].status # "absent"
        BY <1>0, <2>4 DEF ReceiveBadOpen, FrameArrives, threadVars
      <3> QED BY <3>1, CloseKeeps
    <2>5. ASSUME NEW t \in Streams, NEW dest \in Dests, NEW mode \in Modes,
                 NEW last \in BOOLEAN,
                 \/ ReceiveRefusedOpen(s, t, dest, mode, last)
                 \/ ReceiveServiceOpen(s, t, mode, last)
                 \/ ReceiveControlOpen(s, t, mode)
                 \/ ReceiveDisconnect(s, t)
                 \/ ReceiveAuthOpen(s, t)
          PROVE  SessionsGood' /\ SessionsKept
      <3>1. /\ phase.at # "close" /\ UNCHANGED phase /\ session[s].status # "absent"
            /\ \/ session' = Claimed(s, t)
               \/ session' = [Claimed(s, t) EXCEPT ![s].status = "closing"]
        BY <1>0, <2>5 DEF ReceiveRefusedOpen, ReceiveServiceOpen, ReceiveControlOpen,
           ReceiveDisconnect, ReceiveAuthOpen, OpenArrives, FrameArrives, threadVars
      <3> QED BY <3>1, ClaimKeeps
    <2>6. ASSUME NEW t \in Streams, NEW last \in BOOLEAN, ReceiveData(s, t, last)
          PROVE  SessionsGood' /\ SessionsKept
      <3>1. /\ phase.at # "close" /\ UNCHANGED phase /\ phase.who = Nil
            /\ session[s].status # "absent"
            /\ UNCHANGED session \/ CloseTransport(s)
        BY <1>0, <2>6 DEF ReceiveData, FrameArrives, threadVars
      <3> QED BY <3>1, SameSessions, CloseKeeps
    <2>7. ASSUME NEW t \in Streams,
                 ReceiveFin(s, t) \/ ReceiveReset(s, t) \/ ReceiveStop(s, t)
          PROVE  SessionsGood' /\ SessionsKept
      BY <2>7, SameSessions DEF ReceiveFin, ReceiveReset, ReceiveStop, threadVars
    <2>8. "required" \in Modes /\ TRUE \in BOOLEAN /\ "gateway" \in Dests
      BY DEF Modes, Dests
    <2> QED BY <2>0, <2>1, <2>2, <2>3, <2>4, <2>5, <2>6, <2>7, <2>8
            DEF StreamNext
  <1>2. CASE AdmissionNext
    <2>0. PICK s \in Sessions :
             AdmissionLapses(s) \/ ExpireAdmission(s) \/ RefreshOnline(s) \/ Kick(s)
      BY <1>2 DEF AdmissionNext
    <2>1. phase.at # "close" /\ UNCHANGED phase /\ phase.who = Nil
      BY <1>0, <2>0, IdlePhase DEF AdmissionLapses, ExpireAdmission, RefreshOnline, Kick,
         threadVars
    <2>2. Sound(session[s]) /\ session[s] \in Session
      BY <2>1, AllSound DEF Sound
    <2>3. CASE AdmissionLapses(s)
      <3> DEFINE rec == [session[s] EXCEPT !.lapsed = TRUE]
      <3>1. session[s].status # "absent" /\ session' = [session EXCEPT ![s] = rec]
        BY <2>2, <2>3 DEF AdmissionLapses, Sound
      <3>2. Sound(rec) /\ rec.status = session[s].status /\ rec.realm = session[s].realm
        BY <2>2, <3>1, RecordMoves DEF Session
      <3> HIDE DEF rec
      <3> QED BY <2>1, <3>1, <3>2, OneSession
    <2>4. CASE ExpireAdmission(s)
      <3>1. session' = [session EXCEPT ![s] = Revoked(session[s])]
        BY <2>4 DEF ExpireAdmission
      <3>2. /\ Sound(Revoked(session[s]))
            /\ Revoked(session[s]).status = session[s].status
            /\ Revoked(session[s]).realm = session[s].realm
        BY <2>2, RevokedSound
      <3> QED BY <2>1, <3>1, <3>2, OneSession
    <2>5. CASE RefreshOnline(s)
      BY <2>5, SameSessions DEF RefreshOnline
    <2>6. CASE Kick(s)
      <3> DEFINE k == session[s].kicked \/ session[s].authenticated
                 rec == [Revoked(session[s]) EXCEPT !.kicked = k, !.status = "closing"]
      <3>1. session' = [session EXCEPT ![s] = rec] /\ session[s].status # "absent"
        BY <2>6 DEF Kick
      <3>2. k \in BOOLEAN
        OBVIOUS
      <3>3. Revoked(session[s]) \in Session /\ Revoked(session[s]).realm = session[s].realm
        BY <2>2, <3>2, RevokedSound DEF Sound
      <3> HIDE DEF k
      <3>4. Sound(rec)
        BY <2>2, <3>1, <3>2, RevokedSound
      <3>5. rec.status # "absent" /\ rec.realm = session[s].realm
        BY <3>3 DEF Session
      <3> HIDE DEF rec
      <3> QED BY <2>1, <3>1, <3>4, <3>5, OneSession
    <2> QED BY <2>0, <2>3, <2>4, <2>5, <2>6
  <1>3. CASE BackendNext
    BY <1>3, SameSessions DEF BackendNext, BackendResponds, BackendResets, BackendStops,
       ConnectionLost, Reconnect, threadVars
  <1>4. CASE StartPoll \/ Tick
    BY <1>0, <1>4, SameSessions DEF StartPoll, Tick, threadVars, Phase
  <1>5. CASE CallbackNext
    <2>1. CASE PublishEvent \/ (\E h \in Handles : Purge(h) \/ FailEntry(h) \/ Expire(h))
      BY <2>1, SameSessions DEF PublishEvent, Purge, FailEntry, Expire, threadVars
    <2>2. CASE RemoveSession
      <3>1. /\ session' = [session EXCEPT ![phase.who] = NoSession]
            /\ phase'.at # "close" /\ phase'.who = Nil /\ phase.at = "close"
        BY <2>2 DEF RemoveSession, Phase
      <3>2. phase.who \in Sessions
        BY <3>1 DEF ExchangesInv, SessionsOK
      <3>3. session' \in [Sessions -> Session]
        BY <3>1, NoSessionSound DEF Sound, ExchangesInv, TypeOK
      <3>4. \A x \in Sessions : Sound(session'[x])
        BY <3>1, <3>2, NoSessionSound, AllSound DEF ExchangesInv, TypeOK
      <3>5. SessionsOK'
        BY <3>1, <3>4 DEF SessionsOK, Sound
      <3> QED BY <2>2, <3>3, <3>5 DEF SessionsGood
    <2>3. CASE DrainControl \/ DrainRoute \/ DrainOrphan
      BY <2>3, SameSessions DEF DrainControl, DrainRoute, DrainOrphan, TakeEvent
    <2>4. CASE DrainAuth
      <3> DEFINE s == auths[Front.handle].session
      <3>1. /\ phase.at # "close" /\ UNCHANGED phase /\ phase.who = Nil
            /\ Front.handle \in Authing
        BY <2>4, IdlePhase DEF DrainAuth, Draining, TakeEvent
      <3>2. auths[Front.handle].target = "client" /\ Front.handle \in Handles
        BY <3>1 DEF Authing, ExchangesInv, TypeOK, InflightTypeOK, PendingAuth
      <3>3. s \in Sessions /\ session[s].status # "absent" /\ Sound(session[s])
        <4>1. s \in Sessions
          BY <3>2 DEF ExchangesInv, EntriesPlaced
        <4>2. session[s].status # "absent"
          BY <3>2 DEF ExchangesInv, EntriesNameLiveSessions
        <4> QED BY <3>1, <4>1, <4>2, AllSound
      <3>4. \/ UNCHANGED session
            \/ \E dest \in DestIds \cup {0} :
                  session' = [session EXCEPT ![s] = Authenticated(session[s], dest)]
            \/ CloseTransport(s)
        BY <2>4 DEF DrainAuth
      <3> HIDE DEF s
      <3>5. ASSUME NEW dest \in DestIds \cup {0},
                   session' = [session EXCEPT ![s] = Authenticated(session[s], dest)]
            PROVE  SessionsGood' /\ SessionsKept
        BY <3>1, <3>3, <3>5, AuthenticatedSound, OneSession
      <3> QED BY <3>1, <3>3, <3>4, <3>5, SameSessions, CloseKeeps
    <2>5. CASE (\E k \in Conns : ReportFailure(k)) \/ DrainDone \/ FailDone \/ ExpireDone
      <3>1. phase.at # "close" /\ phase'.at # "close" /\ phase'.who = Nil /\ UNCHANGED session
        BY <2>5 DEF ReportFailure, DrainDone, FailDone, ExpireDone, Drained, Phase
      <3> QED BY <3>1, SameSessions
    <2> QED BY <1>5, <2>1, <2>2, <2>3, <2>4, <2>5 DEF CallbackNext
  <1>6. CASE UNCHANGED vars
    BY <1>6, SameSessions DEF vars, threadVars
  <1> QED BY <1>1, <1>2, <1>3, <1>4, <1>5, <1>6 DEF Next

-------------------------------------------------------------------------------
(* The entries of the tables and the sessions they name.                   *)

LEMMA EntrySteps ==
    ASSUME ExchangesInv, [Next]_vars
    PROVE  EntriesPlaced' /\ EntriesNameLiveSessions'
  <1> DEFINE RouteKept(h) == /\ routes[h].target = "client"
                             /\ routes'[h].session = routes[h].session
                             /\ routes'[h].stream = routes[h].stream
                             /\ routes'[h].realm = routes[h].realm
             AuthKept(h) == /\ auths[h].target = "client"
                            /\ auths'[h].session = auths[h].session
                            /\ auths'[h].stream = auths[h].stream
                            /\ auths'[h].realm = auths[h].realm
             Names(e) == /\ e.session \in Sessions /\ e.stream \in Streams
                         /\ session[e.session].status # "absent"
                         /\ session[e.session].realm = e.realm
  <1>1. /\ routes \in [Handles -> Route] /\ auths \in [Handles -> PendingAuth]
        /\ \A h \in Handles : routes[h] \in Route /\ auths[h] \in PendingAuth
    BY DEF ExchangesInv, TypeOK, InflightTypeOK
  <1>2. \A h \in Handles : /\ routes'[h].target = "client" => RouteKept(h) \/ Names(routes'[h])
                           /\ auths'[h].target = "client" => AuthKept(h) \/ Names(auths'[h])
    <2>1. CASE UNCHANGED inflightVars
      BY <2>1 DEF inflightVars
    <2>2. ASSUME NEW h \in Handles, TouchRoute(h) \/ CloseRoute(h) \/ DropAuth(h)
          PROVE  <1>2!:
      BY <1>1, <2>2 DEF TouchRoute, CloseRoute, DropAuth, NoRoute, NoAuth, Route, PendingAuth
    <2>3. ASSUME NEW h \in Handles, NEW r \in Realms, OpenRoute(h, DiscardRoute(r))
          PROVE  <1>2!:
      BY <1>1, <2>3 DEF OpenRoute, DiscardRoute
    <2>4. ASSUME NEW s \in Sessions, NEW t \in Streams, Suppress(s, t)
          PROVE  <1>2!:
      <3>1. ASSUME NEW h \in Handles
            PROVE  /\ routes'[h] = routes[h] \/ routes'[h].target = "discard"
                   /\ auths'[h] = auths[h] \/ auths'[h] = [auths[h] EXCEPT !.suppressed = TRUE]
        BY <1>1, <2>4 DEF Suppress, SuppressedRoutes, SuppressedAuths, Route
      <3>2. \A h \in Handles :
               LET a == [auths[h] EXCEPT !.suppressed = TRUE] IN
               /\ a.target = auths[h].target /\ a.session = auths[h].session
               /\ a.stream = auths[h].stream /\ a.realm = auths[h].realm
        BY <1>1 DEF PendingAuth
      <3>3. ASSUME NEW h \in Handles, routes'[h].target = "client"
            PROVE  RouteKept(h)
        BY <3>1, <3>3
      <3>4. ASSUME NEW h \in Handles, auths'[h].target = "client"
            PROVE  AuthKept(h)
        BY <3>1, <3>2, <3>4
      <3> HIDE DEF Names, RouteKept, AuthKept
      <3> QED BY <3>3, <3>4
    <2>5. CASE Age
      BY <1>1, <2>5 DEF Age, Older, Route, PendingAuth
    <2>6. CASE RefreshExpiryDeadline
      BY <2>6 DEF RefreshExpiryDeadline
    <2>7. ASSUME NEW h \in Handles, NEW s \in Sessions, NEW t \in Streams,
                 session[s].status # "absent",
                 \/ OpenRoute(h, ClientRoute(s, t, session[s].realm))
                 \/ TrackAuth(h, WaitingAuth(s, t, session[s].realm))
          PROVE  <1>2!:
      BY <1>1, <2>7 DEF OpenRoute, TrackAuth, ClientRoute, WaitingAuth
    <2> QED BY <2>1, <2>2, <2>3, <2>4, <2>5, <2>6, <2>7, TableSteps DEF TableStep
  <1>3. \A h \in Handles : /\ routes[h].target = "client" => Names(routes[h])
                           /\ auths[h].target = "client" => Names(auths[h])
    BY DEF ExchangesInv, EntriesPlaced, EntriesNameLiveSessions
  <1>4. \A h \in Handles : /\ routes'[h].target = "client" => Names(routes'[h])
                           /\ auths'[h].target = "client" => Names(auths'[h])
    BY <1>2, <1>3
  <1>5. CASE SessionsKept
    BY <1>4, <1>5 DEF SessionsKept, EntriesPlaced, EntriesNameLiveSessions
  <1>6. CASE RemoveSession
    <2>1. /\ UNCHANGED inflightVars
          /\ session' = [session EXCEPT ![phase.who] = NoSession]
          /\ \A h \in Handles :
                /\ routes[h].target = "client" => routes[h].session # phase.who
                /\ auths[h].target = "client" => auths[h].session # phase.who
      BY <1>6 DEF RemoveSession, OwnedRoutes, OwnedAuths, Routed, Authing
    <2>2. \A s \in Sessions \ {phase.who} : session'[s] = session[s]
      BY <2>1 DEF ExchangesInv, TypeOK
    <2> QED BY <1>3, <2>1, <2>2 DEF EntriesPlaced, EntriesNameLiveSessions, inflightVars
  <1> QED BY <1>5, <1>6, SessionSteps

-------------------------------------------------------------------------------
(* The typing of the client streams.                                       *)

CellsTyped ==
    /\ exchanges \in [Cells -> Exchange]
    /\ input \in [Cells -> Input]
    /\ output \in [Cells -> Ends]

LEMMA OutputMoves ==
    ASSUME TypeOK, NEW c \in Cells
    PROVE  /\ \A fin \in BOOLEAN : Written(c, fin) \in Ends
           /\ Answer(c) \/ Reset(c) \/ UNCHANGED output => output' \in [Cells -> Ends]
  <1>1. output \in [Cells -> Ends] /\ output[c] \in Ends
    BY DEF TypeOK, Ends
  <1>2. \A fin \in BOOLEAN : Written(c, fin) \in Ends
    BY <1>1 DEF Written, Ends
  <1> QED BY <1>1, <1>2 DEF Answer, Reset, Ends

LEMMA EntryCells ==
    ASSUME ExchangesInv, NEW h \in Handles
    PROVE  /\ routes[h].target = "client" => CellOf(routes[h]) \in Cells
           /\ h \in Authing => CellOf(auths[h]) \in Cells
           /\ AnswerRoute(h) => output' \in [Cells -> Ends]
           /\ h \in Authing /\ AnswerAuth(h) => output' \in [Cells -> Ends]
  <1>1. h \in Authing => auths[h].target = "client"
    BY DEF Authing, ExchangesInv, TypeOK, InflightTypeOK, PendingAuth
  <1>2. /\ routes[h].target = "client" => CellOf(routes[h]) \in Cells
        /\ h \in Authing => CellOf(auths[h]) \in Cells
    BY <1>1 DEF ExchangesInv, EntriesPlaced, CellOf, Cells
  <1>3. TypeOK /\ output \in [Cells -> Ends]
    BY DEF ExchangesInv, TypeOK, Ends
  <1> QED BY <1>2, <1>3, OutputMoves DEF AnswerRoute, AnswerAuth

LEMMA CellSteps ==
    ASSUME ExchangesInv, [Next]_vars
    PROVE  CellsTyped'
  <1>0. TypeOK /\ CellsTyped /\ MaxFrames \in Nat
    BY ExchangesAssumption DEF ExchangesInv, TypeOK, CellsTyped, Ends
  <1>1. NoExchange \in Exchange /\ UnusedInput \in Input
    BY <1>0 DEF NoExchange, Exchange, UnusedInput, Input
  <1>2. CASE ClientNext
    <2>0. PICK s \in Sessions :
             \/ \E realm \in Realms, b \in Bindings : AcceptSession(s, realm, b)
             \/ TransportFails(s) \/ CloseSession(s)
             \/ \E t \in Streams : StreamNext(s, t)
      BY <1>2 DEF ClientNext
    <2>1. CASE \/ \E realm \in Realms, b \in Bindings : AcceptSession(s, realm, b)
               \/ TransportFails(s) \/ CloseSession(s)
      BY <1>0, <2>1 DEF AcceptSession, TransportFails, CloseSession, CellsTyped, clientVars
    <2>2. ASSUME NEW t \in Streams
          PROVE  /\ <<s, t>> \in Cells
                 /\ \A mode \in Modes :
                       FrameArrives(s, t) /\ input[<<s, t>>].state # "ended" =>
                          Opened(<<s, t>>, mode) \in [Cells -> Input]
                 /\ Removed(<<s, t>>) \in [Cells -> Exchange]
                 /\ \A mode \in Modes \cup {"absent"}, b \in Handles \cup {Nil},
                       done \in BOOLEAN :
                       Registered(<<s, t>>, mode, b, done) \in [Cells -> Exchange]
                 /\ Answer(<<s, t>>) \/ Reset(<<s, t>>) \/ UNCHANGED output =>
                       output' \in [Cells -> Ends]
      <3>1. <<s, t>> \in Cells
        BY DEF Cells
      <3>2. input[<<s, t>>] \in Input
        BY <1>0, <3>1 DEF CellsTyped
      <3> DEFINE i == input[<<s, t>>]
      <3>3. ASSUME NEW mode \in Modes, FrameArrives(s, t), i.state # "ended"
            PROVE  [state  |-> "open",
                    asked  |-> IF i.asked = "nothing" THEN mode ELSE i.asked,
                    frames |-> IF i.state = "idle" THEN 0 ELSE i.frames + 1] \in Input
        BY <1>0, <3>2, <3>3 DEF FrameArrives, Input, Modes
      <3>4. \A mode \in Modes :
               FrameArrives(s, t) /\ input[<<s, t>>].state # "ended" =>
                  Opened(<<s, t>>, mode) \in [Cells -> Input]
        BY <1>0, <3>1, <3>3 DEF Opened, CellsTyped
      <3>5. \A mode \in Modes \cup {"absent"}, b \in Handles \cup {Nil}, done \in BOOLEAN :
               [mode |-> mode, backend |-> b, input_complete |-> done] \in Exchange
        BY DEF Exchange, Modes
      <3>6. Removed(<<s, t>>) \in [Cells -> Exchange]
        BY <1>0, <1>1, <3>1 DEF Removed, CellsTyped
      <3>7. \A mode \in Modes \cup {"absent"}, b \in Handles \cup {Nil}, done \in BOOLEAN :
               Registered(<<s, t>>, mode, b, done) \in [Cells -> Exchange]
        BY <1>0, <3>1, <3>5 DEF Registered, CellsTyped
      <3>8. Answer(<<s, t>>) \/ Reset(<<s, t>>) \/ UNCHANGED output =>
               output' \in [Cells -> Ends]
        BY <1>0, <3>1, OutputMoves
      <3> QED BY <3>1, <3>4, <3>6, <3>7, <3>8
    <2>3. ASSUME NEW t \in Streams, NEW dest \in Dests, NEW mode \in Modes,
                 NEW last \in BOOLEAN,
                 \/ ReceiveBadOpen(s, t, dest, mode)
                 \/ ReceiveRefusedOpen(s, t, dest, mode, last)
                 \/ ReceiveControlOpen(s, t, mode)
          PROVE  CellsTyped'
      <3>1. /\ input' = Opened(<<s, t>>, mode) /\ FrameArrives(s, t)
            /\ input[<<s, t>>].state # "ended"
            /\ Answer(<<s, t>>) \/ UNCHANGED output
            /\ \/ UNCHANGED exchanges
               \/ exchanges' = Registered(<<s, t>>, mode, Nil, TRUE)
        BY <2>3 DEF ReceiveBadOpen, ReceiveRefusedOpen, ReceiveControlOpen, OpenArrives
      <3>2. exchanges' \in [Cells -> Exchange]
        <4>1. Registered(<<s, t>>, mode, Nil, TRUE) \in [Cells -> Exchange]
          BY <2>2
        <4>2. exchanges \in [Cells -> Exchange]
          BY <1>0 DEF CellsTyped
        <4> QED BY <3>1, <4>1, <4>2
      <3> QED BY <2>2, <3>1, <3>2 DEF CellsTyped
    <2>4. ASSUME NEW t \in Streams, NEW mode \in Modes, NEW last \in BOOLEAN,
                 ReceiveServiceOpen(s, t, mode, last)
          PROVE  CellsTyped'
      <3>1. /\ input' = Opened(<<s, t>>, mode) /\ FrameArrives(s, t)
            /\ input[<<s, t>>].state # "ended"
            /\ Answer(<<s, t>>) \/ UNCHANGED output
        BY <2>4 DEF ReceiveServiceOpen, OpenArrives
      <3>2. PICK h \in Fresh : exchanges' = Registered(<<s, t>>, mode, KeptHandle(h, last), last)
        BY <2>4 DEF ReceiveServiceOpen
      <3>3. KeptHandle(h, last) \in Handles \cup {Nil}
        BY DEF KeptHandle, Fresh
      <3>4. exchanges' \in [Cells -> Exchange]
        BY <2>2, <3>2, <3>3
      <3> QED BY <2>2, <3>1, <3>4 DEF CellsTyped
    <2>5. ASSUME NEW t \in Streams, ReceiveDisconnect(s, t) \/ ReceiveAuthOpen(s, t)
          PROVE  CellsTyped'
      <3>1. /\ FrameArrives(s, t) /\ input[<<s, t>>].state # "ended"
            /\ Answer(<<s, t>>) \/ UNCHANGED output
        BY <2>5 DEF ReceiveDisconnect, ReceiveAuthOpen, OpenArrives
      <3>2. PICK mode \in Modes : /\ input' = Opened(<<s, t>>, mode)
                                  /\ exchanges' = Registered(<<s, t>>, mode, Nil, TRUE)
        BY <2>5 DEF ReceiveDisconnect, ReceiveAuthOpen, Modes
      <3>3. output' \in [Cells -> Ends]
        BY <2>2, <3>1
      <3>4. input' \in [Cells -> Input]
        BY <2>2, <3>1, <3>2
      <3>5. exchanges' \in [Cells -> Exchange]
        BY <2>2, <3>2
      <3> QED BY <3>3, <3>4, <3>5 DEF CellsTyped
    <2>6. ASSUME NEW t \in Streams, NEW last \in BOOLEAN, ReceiveData(s, t, last)
          PROVE  CellsTyped'
      <3> DEFINE c == <<s, t>>
                 h == exchanges[c].backend
      <3>1. c \in Cells /\ exchanges[c] \in Exchange /\ input[c] \in Input
        BY <1>0, <2>2 DEF CellsTyped
      <3>2. /\ input' = [input EXCEPT ![c].frames = @ + 1] /\ input[c].frames < MaxFrames
        BY <2>6 DEF ReceiveData, FrameArrives
      <3>3. [input[c] EXCEPT !.frames = @ + 1] \in Input
        BY <1>0, <3>1, <3>2 DEF Input
      <3>4. input' \in [Cells -> Input]
        BY <1>0, <3>1, <3>2, <3>3 DEF CellsTyped
      <3>5. Answer(c) \/ UNCHANGED output
        BY <2>6 DEF ReceiveData
      <3>6. output' \in [Cells -> Ends]
        BY <2>2, <3>5
      <3>7. \/ UNCHANGED exchanges
            \/ exchanges' = Removed(c)
            \/ exchanges' = Registered(c, exchanges[c].mode, KeptHandle(h, last), last)
        BY <2>6 DEF ReceiveData
      <3>8. KeptHandle(h, last) \in Handles \cup {Nil}
        BY <3>1 DEF KeptHandle, Exchange
      <3>9. exchanges[c].mode \in Modes \cup {"absent"}
        BY <3>1 DEF Exchange, Modes
      <3> HIDE DEF c, h
      <3>10. exchanges' \in [Cells -> Exchange]
        <4>1. /\ Registered(c, exchanges[c].mode, KeptHandle(h, last), last)
                    \in [Cells -> Exchange]
              /\ Removed(c) \in [Cells -> Exchange]
          BY <2>2, <3>8, <3>9 DEF c
        <4>2. exchanges \in [Cells -> Exchange]
          BY <1>0 DEF CellsTyped
        <4> QED BY <3>7, <4>1, <4>2
      <3> QED BY <3>4, <3>6, <3>10 DEF CellsTyped
    <2>7. ASSUME NEW t \in Streams, ReceiveFin(s, t) \/ ReceiveReset(s, t)
          PROVE  CellsTyped'
      <3>1. /\ input' = [input EXCEPT ![<<s, t>>] = [@ EXCEPT !.state = "ended", !.frames = 0]]
            /\ exchanges' = Removed(<<s, t>>)
            /\ Answer(<<s, t>>) \/ Reset(<<s, t>>) \/ UNCHANGED output
        BY <2>7 DEF ReceiveFin, ReceiveReset
      <3>2. <<s, t>> \in Cells /\ input[<<s, t>>] \in Input
        BY <1>0, <2>2 DEF CellsTyped
      <3>3. \A i \in Input : [i EXCEPT !.state = "ended", !.frames = 0] \in Input
        <4>1. 0 \in 0 .. MaxFrames
          BY <1>0
        <4> QED BY <4>1 DEF Input
      <3>4. input' \in [Cells -> Input]
        BY <1>0, <3>1, <3>2, <3>3 DEF CellsTyped
      <3>5. output' \in [Cells -> Ends]
        BY <1>0, <3>1, <3>2, OutputMoves
      <3> QED BY <2>2, <3>1, <3>4, <3>5 DEF CellsTyped
    <2>8. ASSUME NEW t \in Streams, ReceiveStop(s, t)
          PROVE  CellsTyped'
      BY <1>0, <2>2, <2>8, OutputMoves DEF ReceiveStop, CellsTyped
    <2>9. "required" \in Modes /\ TRUE \in BOOLEAN /\ "gateway" \in Dests
      BY DEF Modes, Dests
    <2> QED BY <2>0, <2>1, <2>3, <2>4, <2>5, <2>6, <2>7, <2>8, <2>9
            DEF StreamNext
  <1>3. CASE AdmissionNext
    BY <1>0, <1>3 DEF AdmissionNext, AdmissionLapses, ExpireAdmission, RefreshOnline, Kick,
       CellsTyped, clientVars
  <1>4. CASE BackendNext
    BY <1>0, <1>4 DEF BackendNext, BackendResponds, BackendResets, BackendStops,
       ConnectionLost, Reconnect, CellsTyped, clientVars
  <1>5. CASE StartPoll \/ Tick
    BY <1>0, <1>5 DEF StartPoll, Tick, CellsTyped, clientVars
  <1>6. CASE CallbackNext
    <2>1. CASE PublishEvent \/ (\E h \in Handles : Purge(h))
               \/ (\E k \in Conns : ReportFailure(k)) \/ DrainDone \/ FailDone \/ ExpireDone
      BY <1>0, <2>1 DEF PublishEvent, Purge, ReportFailure, DrainDone, FailDone, ExpireDone,
         CellsTyped, clientVars
    <2>2. CASE RemoveSession
      BY <1>0, <1>1, <2>2 DEF RemoveSession, CellsTyped, Ends
    <2>3. ASSUME NEW h \in Handles, FailEntry(h) \/ Expire(h)
          PROVE  CellsTyped'
      <3>1. UNCHANGED <<exchanges, input>>
        BY <2>3 DEF FailEntry, Expire
      <3>2. AnswerRoute(h) \/ (h \in Authing /\ AnswerAuth(h))
        BY <2>3 DEF FailEntry, Expire, ExpiredAuths
      <3> QED BY <1>0, <3>1, <3>2, EntryCells DEF CellsTyped
    <2>4. CASE DrainControl \/ DrainAuth \/ DrainRoute \/ DrainOrphan
      <3> DEFINE h == Front.handle
      <3>1. UNCHANGED <<exchanges, input>>
        BY <2>4 DEF DrainControl, DrainAuth, DrainRoute, DrainOrphan, TakeEvent
      <3>2. h \in Handles
        BY <1>0, <2>4, FrontIsEvent DEF DrainControl, DrainAuth, DrainRoute, DrainOrphan,
           Draining
      <3>3. \/ UNCHANGED output
            \/ AnswerRoute(h)
            \/ h \in Authing /\ AnswerAuth(h)
            \/ /\ routes[h].target = "client"
               /\ \E fin \in BOOLEAN :
                     output' = [output EXCEPT ![CellOf(routes[h])] =
                                    Written(CellOf(routes[h]), fin)]
        BY <2>4 DEF DrainControl, DrainAuth, DrainRoute, DrainOrphan
      <3> HIDE DEF h
      <3>4. output' \in [Cells -> Ends]
        BY <1>0, <3>2, <3>3, EntryCells, OutputMoves DEF CellsTyped
      <3> QED BY <1>0, <3>1, <3>4 DEF CellsTyped
    <2> QED BY <1>6, <2>1, <2>2, <2>3, <2>4 DEF CallbackNext
  <1>7. CASE UNCHANGED vars
    BY <1>0, <1>7 DEF vars, clientVars, CellsTyped
  <1> QED BY <1>2, <1>3, <1>4, <1>5, <1>6, <1>7 DEF Next

-------------------------------------------------------------------------------
(* The typing of the backend streams and of the running callback.          *)

Halves == {"unused", "open", "fin", "reset", "discarded", "lost"}

Answers == [ended : BOOLEAN, frames : 0 .. MaxFrames]

BackendTyped ==
    /\ request \in [Handles -> Halves]
    /\ response \in [Handles -> Answers]
    /\ recv \in [Conns -> Seq(Event)]
    /\ up \in [Conns -> BOOLEAN]
    /\ failures \in [Conns -> SUBSET Handles]

LEMMA BackendMoves ==
    ASSUME BackendTyped, NEW h \in Handles
    PROVE  /\ Finished(h) \in Halves
           /\ \A is_fin \in BOOLEAN : StartStream(h, is_fin) => BackendTyped'
           /\ Invalidate(h) => BackendTyped'
  <1>1. Over \in Answers /\ [ended |-> FALSE, frames |-> 0] \in Answers
    BY ExchangesAssumption DEF Over, Answers
  <1>2. Finished(h) \in Halves
    BY DEF BackendTyped, Finished, Halves
  <1>3. ASSUME NEW is_fin \in BOOLEAN, StartStream(h, is_fin)
        PROVE  BackendTyped'
    BY <1>1, <1>3 DEF BackendTyped, StartStream, Halves
  <1>4. ASSUME Invalidate(h)
        PROVE  BackendTyped'
    BY <1>1, <1>4 DEF BackendTyped, Invalidate, Halves
  <1> QED BY <1>2, <1>3, <1>4

LEMMA TakeTyped ==
    ASSUME TypeOK, BackendTyped, Ready # {}, TakeEvent
    PROVE  BackendTyped'
  <1>1. FirstReady \in Conns /\ recv[FirstReady] \in Seq(Event) /\ recv[FirstReady] # <<>>
    BY FrontIsEvent
  <1>2. Tail(recv[FirstReady]) \in Seq(Event)
    BY <1>1
  <1> QED BY <1>1, <1>2 DEF BackendTyped, TakeEvent

LEMMA BackendSteps ==
    ASSUME ExchangesInv, [Next]_vars
    PROVE  BackendTyped'
  <1>0. TypeOK /\ BackendTyped /\ MaxFrames \in Nat /\ Over \in Answers
        /\ \A c \in Cells : exchanges[c].backend \in Handles \cup {Nil}
    BY ExchangesAssumption DEF ExchangesInv, TypeOK, BackendTyped, Halves, Answers, Over,
       Exchange
  <1>1. \A h \in Handles : Finished(h) \in Halves
    BY <1>0, BackendMoves
  <1>2. CASE ClientNext
    <2>0. PICK s \in Sessions :
             \/ \E realm \in Realms, b \in Bindings : AcceptSession(s, realm, b)
             \/ TransportFails(s) \/ CloseSession(s)
             \/ \E t \in Streams : StreamNext(s, t)
      BY <1>2 DEF ClientNext
    <2>1. CASE (\E realm \in Realms, b \in Bindings : AcceptSession(s, realm, b))
               \/ TransportFails(s)
      BY <1>0, <2>1 DEF AcceptSession, TransportFails, BackendTyped, backendVars
    <2>2. CASE CloseSession(s)
      <3>1. request' \in [Handles -> Halves]
        BY <1>0, <1>1, <2>2 DEF CloseSession, BackendTyped
      <3> QED BY <1>0, <2>2, <3>1 DEF CloseSession, BackendTyped
    <2>3. ASSUME NEW t \in Streams, NEW dest \in Dests, NEW mode \in Modes,
                 NEW last \in BOOLEAN,
                 \/ ReceiveBadOpen(s, t, dest, mode)
                 \/ ReceiveRefusedOpen(s, t, dest, mode, last)
                 \/ ReceiveControlOpen(s, t, mode)
                 \/ ReceiveDisconnect(s, t)
                 \/ ReceiveStop(s, t)
          PROVE  BackendTyped'
      <3>1. UNCHANGED backendVars
        BY <2>3 DEF ReceiveBadOpen, ReceiveRefusedOpen, ReceiveControlOpen,
           ReceiveDisconnect, ReceiveStop
      <3> QED BY <1>0, <3>1 DEF BackendTyped, backendVars
    <2>4. ASSUME NEW t \in Streams, NEW mode \in Modes, NEW last \in BOOLEAN,
                 ReceiveServiceOpen(s, t, mode, last) \/ ReceiveAuthOpen(s, t)
          PROVE  BackendTyped'
      <3>1. \/ UNCHANGED backendVars
            \/ \E h \in Handles : \E is_fin \in BOOLEAN : StartStream(h, is_fin)
        BY <2>4 DEF ReceiveServiceOpen, ReceiveAuthOpen, Fresh
      <3> QED BY <1>0, <3>1, BackendMoves DEF BackendTyped, backendVars
    <2>5. ASSUME NEW t \in Streams, NEW last \in BOOLEAN, ReceiveData(s, t, last)
          PROVE  BackendTyped'
      <3> DEFINE h == exchanges[<<s, t>>].backend
      <3>1. /\ UNCHANGED <<response, recv, up, failures>>
            /\ \/ UNCHANGED request
               \/ request' = [request EXCEPT ![h] = "fin"]
               \/ h \in Routed /\ request' = [request EXCEPT ![h] = Finished(h)]
        BY <2>5 DEF ReceiveData, backendVars
      <3>2. Routed \subseteq Handles
        BY DEF Routed
      <3> HIDE DEF h
      <3>3. request' \in [Handles -> Halves]
        BY <1>0, <1>1, <3>1, <3>2 DEF BackendTyped, Halves
      <3> QED BY <1>0, <3>1, <3>3 DEF BackendTyped
    <2>6. ASSUME NEW t \in Streams, ReceiveFin(s, t) \/ ReceiveReset(s, t)
          PROVE  BackendTyped'
      <3> DEFINE h == exchanges[<<s, t>>].backend
      <3>1. /\ UNCHANGED <<response, recv, up, failures>>
            /\ request' = IF h = Nil THEN request ELSE [request EXCEPT ![h] = Finished(h)]
        BY <2>6 DEF ReceiveFin, ReceiveReset
      <3>2. h \in Handles \cup {Nil}
        BY <1>0 DEF Cells
      <3> HIDE DEF h
      <3>3. request' \in [Handles -> Halves]
        BY <1>0, <1>1, <3>1, <3>2 DEF BackendTyped
      <3> QED BY <1>0, <3>1, <3>3 DEF BackendTyped
    <2>7. "required" \in Modes /\ TRUE \in BOOLEAN /\ "gateway" \in Dests
      BY DEF Modes, Dests
    <2> QED BY <2>0, <2>1, <2>2, <2>3, <2>4, <2>5, <2>6, <2>7
            DEF StreamNext
  <1>3. CASE AdmissionNext
    BY <1>0, <1>3 DEF AdmissionNext, AdmissionLapses, ExpireAdmission, RefreshOnline, Kick,
       BackendTyped, backendVars
  <1>4. CASE BackendNext
    <2>1. ASSUME NEW h \in Handles, NEW kind \in {"data", "fin", "reset", "stop"},
                 Enqueue(h, kind)
          PROVE  recv' \in [Conns -> Seq(Event)]
      <3>1. ConnOf[h] \in Conns /\ recv[ConnOf[h]] \in Seq(Event)
        BY <1>0, ExchangesAssumption DEF BackendTyped
      <3>2. Append(recv[ConnOf[h]], [handle |-> h, kind |-> kind]) \in Seq(Event)
        BY <3>1 DEF Event
      <3> QED BY <1>0, <2>1, <3>1, <3>2 DEF Enqueue, BackendTyped
    <2>2. ASSUME NEW h \in Handles, NEW kind \in {"data", "fin"}, BackendResponds(h, kind)
          PROVE  BackendTyped'
      <3>1. recv' \in [Conns -> Seq(Event)]
        BY <2>1, <2>2 DEF BackendResponds
      <3>2. response' \in [Handles -> Answers]
        <4>1. response \in [Handles -> Answers] /\ response[h] \in Answers
          BY <1>0 DEF BackendTyped
        <4>2. kind # "fin" => [response[h] EXCEPT !.frames = @ + 1] \in Answers
          BY <1>0, <2>2, <4>1 DEF BackendResponds, Answers
        <4>3. \/ kind = "fin" /\ response' = [response EXCEPT ![h] = Over]
              \/ kind # "fin" /\ response' = [response EXCEPT ![h].frames = @ + 1]
          BY <2>2 DEF BackendResponds
        <4> QED BY <1>0, <4>1, <4>2, <4>3
      <3> QED BY <1>0, <2>2, <3>1, <3>2 DEF BackendResponds, BackendTyped
    <2>3. ASSUME NEW h \in Handles, BackendResets(h)
          PROVE  BackendTyped'
      <3>1. recv' \in [Conns -> Seq(Event)]
        BY <2>1, <2>3 DEF BackendResets
      <3>2. response' \in [Handles -> Answers]
        BY <1>0, <2>3 DEF BackendResets, BackendTyped
      <3> QED BY <1>0, <2>3, <3>1, <3>2 DEF BackendResets, BackendTyped
    <2>4. ASSUME NEW h \in Handles, BackendStops(h)
          PROVE  BackendTyped'
      <3>1. recv' \in [Conns -> Seq(Event)]
        BY <2>1, <2>4 DEF BackendStops
      <3>2. request' \in [Handles -> Halves]
        BY <1>0, <2>4 DEF BackendStops, BackendTyped, Halves
      <3> QED BY <1>0, <2>4, <3>1, <3>2 DEF BackendStops, BackendTyped
    <2>5. ASSUME NEW k \in Conns, ConnectionLost(k)
          PROVE  BackendTyped'
      <3>1. request' \in [Handles -> Halves] /\ response' \in [Handles -> Answers]
        BY <1>0, <2>5 DEF ConnectionLost, BackendTyped, Halves
      <3>2. up' \in [Conns -> BOOLEAN] /\ failures' \in [Conns -> SUBSET Handles]
        BY <1>0, <2>5 DEF ConnectionLost, BackendTyped
      <3> QED BY <1>0, <2>5, <3>1, <3>2 DEF ConnectionLost, BackendTyped
    <2>6. ASSUME NEW k \in Conns, Reconnect(k)
          PROVE  BackendTyped'
      BY <1>0, <2>6 DEF Reconnect, BackendTyped
    <2> QED BY <1>4, <2>2, <2>3, <2>4, <2>5, <2>6 DEF BackendNext
  <1>5. CASE StartPoll \/ Tick
    BY <1>0, <1>5 DEF StartPoll, Tick, BackendTyped, backendVars
  <1>6. CASE CallbackNext
    <2>1. CASE PublishEvent
      <3>1. \/ UNCHANGED backendVars
            \/ \E h \in Handles : \E is_fin \in BOOLEAN : StartStream(h, is_fin)
        BY <2>1 DEF PublishEvent, Fresh
      <3> QED BY <1>0, <3>1, BackendMoves DEF BackendTyped, backendVars
    <2>2. CASE (\E h \in Handles : Purge(h) \/ FailEntry(h)) \/ RemoveSession
               \/ (\E k \in Conns : ReportFailure(k)) \/ DrainDone \/ ExpireDone
      BY <1>0, <2>2 DEF Purge, FailEntry, RemoveSession, ReportFailure, DrainDone, ExpireDone,
         BackendTyped, backendVars
    <2>3. ASSUME NEW h \in Handles, Expire(h)
          PROVE  BackendTyped'
      BY <1>0, <2>3, BackendMoves DEF Expire
    <2>4. CASE DrainControl \/ DrainAuth \/ DrainRoute \/ DrainOrphan
      BY <1>0, <2>4, TakeTyped DEF DrainControl, DrainAuth, DrainRoute, DrainOrphan, Draining
    <2>5. CASE FailDone
      BY <1>0, <2>5 DEF FailDone, BackendTyped
    <2> QED BY <1>6, <2>1, <2>2, <2>3, <2>4, <2>5 DEF CallbackNext
  <1>7. CASE UNCHANGED vars
    BY <1>0, <1>7 DEF vars, backendVars, BackendTyped
  <1> QED BY <1>2, <1>3, <1>4, <1>5, <1>6, <1>7 DEF Next

ThreadTyped ==
    /\ phase \in [at   : {"idle", "drain", "fail", "expire", "close"},
                  who  : Sessions \cup {Nil},
                  conn : Conns \cup {Nil}]
    /\ outbox \in Seq(LifecycleEvent)
    /\ announced \in [Sessions -> Announcement]

(* What lifecycle.publish makes of the first event that is due. *)
EventRecorded(e) ==
    /\ e \in LifecycleEvent /\ e.session \in Sessions
    /\ announced \in [Sessions -> Announcement]
    /\ announced' \in [Sessions -> Announcement]
    /\ \A x \in Sessions \ {e.session} : announced'[x] = announced[x]
    /\ \/ /\ announced'[e.session].missed
          /\ announced'[e.session].kind = announced[e.session].kind
          /\ announced'[e.session].dest_id = announced[e.session].dest_id
       \/ /\ announced'[e.session].kind = IF e.online THEN "online" ELSE "offline"
          /\ announced'[e.session].dest_id = e.dest_id

LEMMA EventMoves ==
    ASSUME ExchangesInv, PublishEvent
    PROVE  EventRecorded(Head(outbox))
  <1>1. PICK e : e = Head(outbox)
    OBVIOUS
  <1>2. outbox \in Seq(LifecycleEvent) /\ announced \in [Sessions -> Announcement]
    BY DEF ExchangesInv, TypeOK
  <1>3. e \in LifecycleEvent
    BY <1>1, <1>2 DEF PublishEvent
  <1>4. e.session \in Sessions /\ e.dest_id \in DestIds \cup {0}
    BY <1>3 DEF LifecycleEvent
  <1> DEFINE said == [kind |-> IF e.online THEN "online" ELSE "offline",
                      dest_id |-> e.dest_id, missed |-> FALSE]
             dropped == [announced[e.session] EXCEPT !.missed = TRUE]
  <1>5. \/ announced' = [announced EXCEPT ![e.session] = said]
        \/ announced' = [announced EXCEPT ![e.session] = dropped]
    BY <1>1 DEF PublishEvent
  <1>6. /\ said \in Announcement /\ said.dest_id = e.dest_id
        /\ said.kind = IF e.online THEN "online" ELSE "offline"
    BY <1>4 DEF Announcement
  <1>7. /\ dropped \in Announcement /\ dropped.missed
        /\ dropped.kind = announced[e.session].kind
        /\ dropped.dest_id = announced[e.session].dest_id
    <2>1. announced[e.session] \in Announcement
      BY <1>2, <1>4
    <2> QED BY <2>1 DEF Announcement
  <1> HIDE DEF said, dropped
  <1>8. EventRecorded(e)
    BY <1>2, <1>3, <1>4, <1>5, <1>6, <1>7 DEF EventRecorded
  <1> QED BY <1>1, <1>8

LEMMA ThreadSteps ==
    ASSUME ExchangesInv, [Next]_vars
    PROVE  ThreadTyped'
  <1>0. ThreadTyped /\ TypeOK
    BY DEF ExchangesInv, TypeOK, ThreadTyped
  <1>1. UNCHANGED threadVars => ThreadTyped'
    BY <1>0 DEF ThreadTyped, threadVars
  <1>2. CASE ClientNext
    <2>1. ASSUME NEW s \in Sessions, CloseSession(s)
          PROVE  ThreadTyped'
      <3>1. Sound(session[s])
        BY AllSound
      <3>2. outbox' \in Seq(LifecycleEvent) /\ UNCHANGED announced
        BY <2>1, <3>1, SaidTyped DEF CloseSession
      <3>3. phase' = [at |-> "close", who |-> s, conn |-> Nil]
        BY <2>1 DEF CloseSession, Phase
      <3> QED BY <1>0, <3>2, <3>3 DEF ThreadTyped
    <2>2. CASE UNCHANGED threadVars
      BY <1>1, <2>2
    <2>3. ASSUME NEW s \in Sessions, NEW t \in Streams, StreamNext(s, t)
          PROVE  UNCHANGED threadVars
      BY <2>3 DEF StreamNext, ReceiveBadOpen, ReceiveRefusedOpen, ReceiveServiceOpen,
         ReceiveControlOpen, ReceiveDisconnect, ReceiveAuthOpen, ReceiveData, ReceiveFin,
         ReceiveReset, ReceiveStop
    <2>4. ASSUME NEW s \in Sessions,
                 \/ \E realm \in Realms, b \in Bindings : AcceptSession(s, realm, b)
                 \/ TransportFails(s)
          PROVE  UNCHANGED threadVars
      BY <2>4 DEF AcceptSession, TransportFails
    <2> QED BY <1>2, <2>1, <2>2, <2>3, <2>4 DEF ClientNext
  <1>3. CASE AdmissionNext
    <2>0. PICK s \in Sessions :
             AdmissionLapses(s) \/ ExpireAdmission(s) \/ RefreshOnline(s) \/ Kick(s)
      BY <1>3 DEF AdmissionNext
    <2>1. Sound(session[s])
      BY AllSound
    <2>2. CASE AdmissionLapses(s)
      BY <1>1, <2>2 DEF AdmissionLapses
    <2>3. CASE ExpireAdmission(s) \/ Kick(s)
      BY <1>0, <2>1, <2>3, SaidTyped DEF ExpireAdmission, Kick, ThreadTyped
    <2>4. CASE RefreshOnline(s)
      <3>1. session[s].dest_id \in DestIds \cup {0} /\ session[s].status # "absent"
        BY <2>1, <2>4 DEF RefreshOnline, Sound, Session
      <3>2. OnlineSaid(s, session[s].dest_id) \in Seq(LifecycleEvent)
        BY <2>1, <3>1, SaidTyped
      <3> QED BY <1>0, <2>4, <3>2 DEF RefreshOnline, ThreadTyped
    <2> QED BY <2>0, <2>2, <2>3, <2>4
  <1>4. CASE BackendNext
    BY <1>1, <1>4 DEF BackendNext, BackendResponds, BackendResets, BackendStops,
       ConnectionLost, Reconnect
  <1>5. CASE StartPoll
    BY <1>0, <1>5 DEF StartPoll, Phase, ThreadTyped
  <1>6. CASE Tick
    BY <1>1, <1>6 DEF Tick
  <1>7. CASE CallbackNext
    <2>1. CASE PublishEvent
      <3>1. Tail(outbox) \in Seq(LifecycleEvent) /\ Head(outbox) \in LifecycleEvent
        BY <1>0, <2>1 DEF PublishEvent, ThreadTyped
      <3>2. announced' \in [Sessions -> Announcement]
        BY <2>1, EventMoves DEF EventRecorded
      <3> QED BY <1>0, <2>1, <3>1, <3>2 DEF PublishEvent, ThreadTyped
    <2>2. CASE \E h \in Handles : Purge(h) \/ FailEntry(h) \/ Expire(h)
      BY <1>1, <2>2 DEF Purge, FailEntry, Expire
    <2>3. CASE RemoveSession \/ DrainDone \/ FailDone \/ ExpireDone
      <3>0. announced' \in [Sessions -> Announcement]
        <4>1. NotAnnounced \in Announcement
          BY DEF NotAnnounced, Announcement
        <4>2. \/ UNCHANGED announced
              \/ announced' = [announced EXCEPT ![phase.who] = NotAnnounced]
          BY <2>3 DEF RemoveSession, DrainDone, FailDone, ExpireDone
        <4> QED BY <1>0, <4>1, <4>2 DEF ThreadTyped
      <3>1. UNCHANGED outbox /\ \E at \in {"idle", "expire"} : phase' = Phase(at)
        BY <2>3 DEF RemoveSession, DrainDone, FailDone, ExpireDone, Drained
      <3> QED BY <1>0, <3>0, <3>1 DEF ThreadTyped, Phase
    <2>4. ASSUME NEW k \in Conns, ReportFailure(k)
          PROVE  ThreadTyped'
      <3>1. UNCHANGED <<outbox, announced>> /\ phase' = [at |-> "fail", who |-> Nil, conn |-> k]
        BY <2>4 DEF ReportFailure, Phase
      <3> QED BY <1>0, <3>1 DEF ThreadTyped
    <2>5. CASE DrainControl \/ DrainRoute \/ DrainOrphan
      BY <1>0, <2>5 DEF DrainControl, DrainRoute, DrainOrphan, TakeEvent, ThreadTyped
    <2>6. CASE DrainAuth
      <3> DEFINE s == auths[Front.handle].session
      <3>1. /\ UNCHANGED <<phase, announced>>
            /\ \/ UNCHANGED outbox
               \/ \E dest \in DestIds \cup {0} : outbox' = Announced(s, dest)
        BY <2>6 DEF DrainAuth, TakeEvent, Draining
      <3>2. Front.handle \in Handles /\ auths[Front.handle].target = "client"
        BY <2>6 DEF DrainAuth, Authing, ExchangesInv, TypeOK, InflightTypeOK, PendingAuth
      <3>3. s \in Sessions /\ session[s].status # "absent"
        BY <3>2 DEF ExchangesInv, EntriesPlaced, EntriesNameLiveSessions
      <3>4. Sound(session[s])
        BY <3>3, AllSound
      <3> HIDE DEF s
      <3>5. \A dest \in DestIds \cup {0} : Announced(s, dest) \in Seq(LifecycleEvent)
        BY <3>3, <3>4, SaidTyped
      <3> QED BY <1>0, <3>1, <3>5 DEF ThreadTyped
    <2> QED BY <1>7, <2>1, <2>2, <2>3, <2>4, <2>5, <2>6 DEF CallbackNext
  <1>8. CASE UNCHANGED vars
    BY <1>1, <1>8 DEF vars
  <1> QED BY <1>2, <1>3, <1>4, <1>5, <1>6, <1>7, <1>8 DEF Next

-------------------------------------------------------------------------------
(* What the gateway has announced, against the admissions.                 *)

(* The admission of a session stays. *)
AdmissionKept(x) ==
    /\ session'[x].authenticated = session[x].authenticated
    /\ session[x].authenticated => session'[x].dest_id = session[x].dest_id

(* A step that has nothing to announce. *)
Quiet ==
    /\ UNCHANGED <<outbox, announced>> /\ phase'.who = phase.who
    /\ \A x \in Sessions : AdmissionKept(x)

(* A step that leaves session s without an admission (or takes up its      *)
(* close), or under the identity dest, and has to say so.                  *)
Speaks(s) ==
    /\ outbox = <<>> /\ UNCHANGED announced /\ phase.who = Nil
    /\ phase'.who \in {Nil, s}
    /\ \A x \in Sessions \ {s} : AdmissionKept(x)
    /\ \/ outbox' = Said(s) /\ (~session'[s].authenticated \/ phase'.who = s)
       \/ \E dest \in DestIds \cup {0} :
             /\ session'[s].authenticated /\ session'[s].dest_id = dest /\ phase'.who = Nil
             /\ session[s].status # "absent"
             /\ outbox' = OnlineSaid(s, dest) \/ outbox' = Said(s) \o OnlineSaid(s, dest)

LEMMA RecordKept ==
    ASSUME ExchangesInv, NEW s, NEW rec, session' = [session EXCEPT ![s] = rec],
           s \in Sessions => /\ rec.authenticated = session[s].authenticated
                             /\ session[s].authenticated => rec.dest_id = session[s].dest_id
    PROVE  \A x \in Sessions : AdmissionKept(x)
  BY DEF AdmissionKept, ExchangesInv, TypeOK

LEMMA OthersKept ==
    ASSUME ExchangesInv, NEW s \in Sessions, NEW rec, session' = [session EXCEPT ![s] = rec]
    PROVE  session'[s] = rec /\ \A x \in Sessions \ {s} : AdmissionKept(x)
  BY DEF AdmissionKept, ExchangesInv, TypeOK

LEMMA ShutKept ==
    ASSUME ExchangesInv, NEW s, CloseTransport(s)
    PROVE  \A x \in Sessions : AdmissionKept(x)
  <1> DEFINE rec == [session[s] EXCEPT !.status = "closing"]
  <1>1. session' = [session EXCEPT ![s] = rec]
    BY DEF CloseTransport
  <1>2. s \in Sessions => /\ rec.authenticated = session[s].authenticated
                          /\ rec.dest_id = session[s].dest_id
    BY DEF ExchangesInv, TypeOK, Session
  <1> HIDE DEF rec
  <1> QED BY <1>1, <1>2, RecordKept

LEMMA ClaimKept ==
    ASSUME ExchangesInv, NEW s \in Sessions, NEW t,
           \/ session' = Claimed(s, t)
           \/ session' = [Claimed(s, t) EXCEPT ![s].status = "closing"]
    PROVE  \A x \in Sessions : AdmissionKept(x)
  <1> DEFINE claim == [session[s] EXCEPT !.claimed = t]
             shut == [session[s] EXCEPT !.status = "closing"]
             both == [session[s] EXCEPT !.claimed = t, !.status = "closing"]
  <1>0. session \in [Sessions -> Session] /\ session[s] \in Session
    BY DEF ExchangesInv, TypeOK
  <1>1. \/ session' = session
        \/ session' = [session EXCEPT ![s] = claim]
        \/ session' = [session EXCEPT ![s] = shut]
        \/ session' = [session EXCEPT ![s] = both]
    BY <1>0 DEF Claimed
  <1>2. /\ claim.authenticated = session[s].authenticated
        /\ claim.dest_id = session[s].dest_id
        /\ shut.authenticated = session[s].authenticated
        /\ shut.dest_id = session[s].dest_id
        /\ both.authenticated = session[s].authenticated
        /\ both.dest_id = session[s].dest_id
    BY <1>0 DEF Session
  <1> HIDE DEF claim, shut, both
  <1>3. session' = session => \A x \in Sessions : AdmissionKept(x)
    BY DEF AdmissionKept
  <1> QED BY <1>1, <1>2, <1>3, RecordKept

LEMMA AnnouncementSteps ==
    ASSUME ExchangesInv, [Next]_vars
    PROVE  Quiet \/ (\E s \in Sessions : Speaks(s)) \/ PublishEvent \/ RemoveSession
  <1>0. /\ Idle => phase.who = Nil /\ outbox = <<>>
        /\ session \in [Sessions -> Session]
        /\ \A x \in Sessions : session[x].authenticated => session[x].status # "absent"
    BY IdlePhase DEF Idle, ExchangesInv, TypeOK, SessionsOK
  <1>1. UNCHANGED <<session, threadVars>> => Quiet
    BY DEF Quiet, AdmissionKept, threadVars
  <1>2. CASE ClientNext
    <2>0. PICK s \in Sessions :
             \/ \E realm \in Realms, b \in Bindings : AcceptSession(s, realm, b)
             \/ TransportFails(s) \/ CloseSession(s)
             \/ \E t \in Streams : StreamNext(s, t)
      BY <1>2 DEF ClientNext
    <2>1. ASSUME NEW realm \in Realms, NEW b \in Bindings, AcceptSession(s, realm, b)
          PROVE  Quiet
      <3> DEFINE rec == [NoSession EXCEPT !.status = "open", !.binding = b, !.realm = realm]
      <3>1. session' = [session EXCEPT ![s] = rec] /\ session[s].status = "absent"
        BY <2>1 DEF AcceptSession
      <3>2. rec.authenticated = FALSE
        BY DEF NoSession
      <3> HIDE DEF rec
      <3>3. session[s].authenticated = FALSE
        BY <1>0, <3>1 DEF Session
      <3>4. \A x \in Sessions : AdmissionKept(x)
        BY <3>1, <3>2, <3>3, RecordKept
      <3> QED BY <2>1, <3>4 DEF Quiet, AcceptSession, threadVars
    <2>2. CASE TransportFails(s)
      BY <2>2, ShutKept DEF TransportFails, Quiet, threadVars
    <2>3. CASE CloseSession(s)
      <3>1. \A x \in Sessions : AdmissionKept(x)
        BY <2>3, ShutKept DEF CloseSession
      <3>2. phase'.who = s
        BY <2>3 DEF CloseSession, Phase
      <3>3. Speaks(s)
        BY <1>0, <2>3, <3>1, <3>2 DEF CloseSession, Speaks
      <3> QED BY <3>3
    <2>4. ASSUME NEW t \in Streams, StreamNext(s, t)
          PROVE  Quiet
      <3>1. \/ UNCHANGED session
            \/ CloseTransport(s)
            \/ session' = Claimed(s, t)
            \/ session' = [Claimed(s, t) EXCEPT ![s].status = "closing"]
        BY <2>4 DEF StreamNext, ReceiveBadOpen, ReceiveRefusedOpen, ReceiveServiceOpen,
           ReceiveControlOpen, ReceiveDisconnect, ReceiveAuthOpen, ReceiveData, ReceiveFin,
           ReceiveReset, ReceiveStop
      <3>2. UNCHANGED threadVars
        BY <2>4 DEF StreamNext, ReceiveBadOpen, ReceiveRefusedOpen, ReceiveServiceOpen,
           ReceiveControlOpen, ReceiveDisconnect, ReceiveAuthOpen, ReceiveData, ReceiveFin,
           ReceiveReset, ReceiveStop
      <3>3. \A x \in Sessions : AdmissionKept(x)
        <4>1. UNCHANGED session => \A x \in Sessions : AdmissionKept(x)
          BY DEF AdmissionKept
        <4> QED BY <3>1, <4>1, ShutKept, ClaimKept
      <3> QED BY <3>2, <3>3 DEF Quiet, threadVars
    <2> QED BY <2>0, <2>1, <2>2, <2>3, <2>4
  <1>3. CASE AdmissionNext
    <2>0. PICK s \in Sessions :
             AdmissionLapses(s) \/ ExpireAdmission(s) \/ RefreshOnline(s) \/ Kick(s)
      BY <1>3 DEF AdmissionNext
    <2>1. session[s] \in Session /\ Sound(session[s])
      BY <1>0, AllSound
    <2>2. phase'.who = phase.who /\ phase.who = Nil
      BY <1>0, <2>0, IdlePhase
         DEF AdmissionLapses, ExpireAdmission, RefreshOnline, Kick, threadVars
    <2>3. CASE AdmissionLapses(s)
      <3> DEFINE rec == [session[s] EXCEPT !.lapsed = TRUE]
      <3>1. session' = [session EXCEPT ![s] = rec]
        BY <2>3 DEF AdmissionLapses
      <3>2. rec.authenticated = session[s].authenticated /\ rec.dest_id = session[s].dest_id
        BY <2>1 DEF Session
      <3> HIDE DEF rec
      <3>3. \A x \in Sessions : AdmissionKept(x)
        BY <3>1, <3>2, RecordKept
      <3> QED BY <2>2, <2>3, <3>3 DEF AdmissionLapses, Quiet, threadVars
    <2>4. CASE ExpireAdmission(s)
      <3>1. session' = [session EXCEPT ![s] = Revoked(session[s])]
        BY <2>4 DEF ExpireAdmission
      <3>2. ~Revoked(session[s]).authenticated
        BY <2>1 DEF Revoked, Session
      <3>3. ~session'[s].authenticated /\ \A x \in Sessions \ {s} : AdmissionKept(x)
        BY <3>1, <3>2, OthersKept
      <3>4. outbox = <<>> /\ UNCHANGED announced /\ outbox' = Said(s)
        BY <1>0, <2>4 DEF ExpireAdmission
      <3>5. Speaks(s)
        BY <2>2, <3>3, <3>4 DEF Speaks
      <3> QED BY <3>5
    <2>5. CASE RefreshOnline(s)
      <3>1. /\ outbox = <<>> /\ UNCHANGED announced /\ UNCHANGED session
            /\ session[s].authenticated /\ outbox' = OnlineSaid(s, session[s].dest_id)
        BY <1>0, <2>5 DEF RefreshOnline
      <3>2. session[s].dest_id \in DestIds \cup {0} /\ session[s].status # "absent"
        BY <2>1, <3>1 DEF Session, Sound
      <3>3. \A x \in Sessions : AdmissionKept(x)
        BY <3>1 DEF AdmissionKept
      <3>4. Speaks(s)
        BY <2>2, <3>1, <3>2, <3>3 DEF Speaks
      <3> QED BY <3>4
    <2>6. CASE Kick(s)
      <3> DEFINE k == session[s].kicked \/ session[s].authenticated
                 rec == [Revoked(session[s]) EXCEPT !.kicked = k, !.status = "closing"]
      <3>1. session' = [session EXCEPT ![s] = rec]
        BY <2>6 DEF Kick
      <3>2. ~rec.authenticated
        BY <2>1 DEF Revoked, Session
      <3> HIDE DEF rec, k
      <3>3. ~session'[s].authenticated /\ \A x \in Sessions \ {s} : AdmissionKept(x)
        BY <3>1, <3>2, OthersKept
      <3>4. outbox = <<>> /\ UNCHANGED announced /\ outbox' = Said(s)
        BY <2>6 DEF Kick
      <3>5. Speaks(s)
        BY <2>2, <3>3, <3>4 DEF Speaks
      <3> QED BY <3>5
    <2> QED BY <2>0, <2>3, <2>4, <2>5, <2>6
  <1>4. CASE BackendNext \/ Tick
    BY <1>1, <1>4 DEF BackendNext, BackendResponds, BackendResets, BackendStops,
       ConnectionLost, Reconnect, Tick
  <1>5. CASE StartPoll
    <2>1. UNCHANGED <<session, outbox, announced>> /\ phase.who = Nil /\ phase'.who = Nil
      BY <1>0, <1>5 DEF StartPoll, Phase
    <2> QED BY <2>1 DEF Quiet, AdmissionKept
  <1>6. CASE CallbackNext
    <2>1. CASE \E h \in Handles : Purge(h) \/ FailEntry(h) \/ Expire(h)
      BY <1>1, <2>1 DEF Purge, FailEntry, Expire
    <2>2. CASE DrainControl \/ DrainRoute \/ DrainOrphan
      BY <1>1, <2>2 DEF DrainControl, DrainRoute, DrainOrphan, TakeEvent, threadVars
    <2>3. CASE (\E k \in Conns : ReportFailure(k)) \/ DrainDone \/ FailDone \/ ExpireDone
      <3>1. UNCHANGED <<session, outbox, announced>> /\ phase.at # "close" /\ phase'.who = Nil
        BY <2>3 DEF ReportFailure, DrainDone, FailDone, ExpireDone, Drained, Phase
      <3> QED BY <3>1, IdlePhase DEF Quiet, AdmissionKept
    <2>4. CASE DrainAuth
      <3> DEFINE s == auths[Front.handle].session
      <3>1. /\ phase.at # "close" /\ UNCHANGED <<phase, announced>> /\ phase.who = Nil
            /\ outbox = <<>> /\ Front.handle \in Authing
        BY <2>4, IdlePhase DEF DrainAuth, Draining, TakeEvent
      <3>2. auths[Front.handle].target = "client" /\ Front.handle \in Handles
        BY <3>1 DEF Authing, ExchangesInv, TypeOK, InflightTypeOK, PendingAuth
      <3>3. s \in Sessions /\ session[s].status # "absent"
        BY <3>2 DEF ExchangesInv, EntriesPlaced, EntriesNameLiveSessions
      <3>4. \/ UNCHANGED <<session, outbox>>
            \/ \E dest \in DestIds \cup {0} :
                  /\ session' = [session EXCEPT ![s] = Authenticated(session[s], dest)]
                  /\ outbox' = Announced(s, dest)
            \/ CloseTransport(s) /\ UNCHANGED outbox
        BY <2>4 DEF DrainAuth
      <3> HIDE DEF s
      <3>5. CASE UNCHANGED <<session, outbox>>
        BY <3>1, <3>5 DEF Quiet, AdmissionKept
      <3>6. CASE CloseTransport(s) /\ UNCHANGED outbox
        BY <3>1, <3>6, ShutKept DEF Quiet
      <3>7. ASSUME NEW dest \in DestIds \cup {0},
                   session' = [session EXCEPT ![s] = Authenticated(session[s], dest)],
                   outbox' = Announced(s, dest)
            PROVE  Quiet \/ Speaks(s)
        <4>1. session[s] \in Session
          BY <1>0, <3>3
        <4>2. /\ Authenticated(session[s], dest).authenticated = TRUE
              /\ Authenticated(session[s], dest).dest_id = dest
          BY <4>1 DEF Authenticated, Session
        <4>3. CASE session[s].authenticated /\ session[s].dest_id = dest
          <5>1. session[s].authenticated = TRUE
            BY <4>1, <4>3 DEF Session
          <5>2. \A x \in Sessions : AdmissionKept(x)
            BY <3>7, <4>2, <4>3, <5>1, RecordKept
          <5> QED BY <3>1, <3>7, <4>3, <5>2 DEF Quiet, Announced
        <4>4. CASE ~(session[s].authenticated /\ session[s].dest_id = dest)
          <5>1. /\ session'[s].authenticated /\ session'[s].dest_id = dest
                /\ \A x \in Sessions \ {s} : AdmissionKept(x)
            BY <3>3, <3>7, <4>2, OthersKept
          <5>2. outbox' = Said(s) \o OnlineSaid(s, dest)
            BY <3>7, <4>4 DEF Announced
          <5>3. phase'.who = Nil
            BY <3>1
          <5> QED BY <3>1, <3>3, <5>1, <5>2, <5>3 DEF Speaks
        <4> QED BY <4>3, <4>4
      <3> QED BY <3>3, <3>4, <3>5, <3>6, <3>7
    <2> QED BY <1>6, <2>1, <2>2, <2>3, <2>4 DEF CallbackNext
  <1>7. CASE UNCHANGED vars
    BY <1>1, <1>7 DEF vars
  <1> QED BY <1>2, <1>3, <1>4, <1>5, <1>6, <1>7 DEF Next

LEMMA QuietPresence ==
    ASSUME ExchangesInv, Quiet
    PROVE  PresenceOK'
  <1>0. PresenceOK /\ \A e \in LifecycleEvent : e.session \in Sessions
    BY DEF ExchangesInv, LifecycleEvent
  <1>1. \A e \in LifecycleEvent : (Describes(e) => Describes(e)') /\ (Follows(e) => Follows(e)')
    BY <1>0 DEF Describes, Follows, Quiet, AdmissionKept
  <1>2. OutboxOK'
    BY <1>0, <1>1 DEF PresenceOK, OutboxOK, Quiet
  <1>3. \A s \in Sessions : AnnouncedOK(s) => AnnouncedOK(s)'
    BY DEF AnnouncedOK, Quiet, AdmissionKept
  <1> QED BY <1>0, <1>2, <1>3 DEF PresenceOK, Quiet

LEMMA PairJoined ==
    ASSUME NEW S, NEW e \in S, NEW f \in S
    PROVE  <<e>> \o <<f>> = <<e, f>>
  <1>1. <<e>> \in Seq(S) /\ <<f>> \in Seq(S) /\ <<e, f>> \in Seq(S)
    OBVIOUS
  <1>2. /\ <<e>> \o <<f>> \in Seq(S) /\ Len(<<e>> \o <<f>>) = 2
        /\ (<<e>> \o <<f>>)[1] = e /\ (<<e>> \o <<f>>)[2] = f
    BY <1>1
  <1>3. Len(<<e, f>>) = 2 /\ <<e, f>>[1] = e /\ <<e, f>>[2] = f
    OBVIOUS
  <1>4. \A i \in 1 .. 2 : (<<e>> \o <<f>>)[i] = <<e, f>>[i]
    <2>1. \A i \in 1 .. 2 : i = 1 \/ i = 2
      OBVIOUS
    <2> QED BY <1>2, <1>3, <2>1
  <1> QED BY <1>1, <1>2, <1>3, <1>4, SeqEqual

LEMMA SpokenPresence ==
    ASSUME ExchangesInv, NEW s \in Sessions, Speaks(s)
    PROVE  PresenceOK'
  <1>0. /\ \A x \in Sessions : AnnouncedOK(x)
        /\ session[s] \in Session /\ Sound(session[s]) /\ Nil \notin Sessions
    BY AllSound, InflightAssumption DEF ExchangesInv, PresenceOK, Speaks, TypeOK
  <1>1. \A x \in Sessions \ {s} : AnnouncedOK(x)'
    BY <1>0 DEF AnnouncedOK, Speaks, AdmissionKept
  <1>2. announced' = announced /\ outbox = <<>> /\ phase.who = Nil
    BY DEF Speaks
  <1>3. CASE outbox' = Said(s) /\ (~session'[s].authenticated \/ phase'.who = s)
    <2>1. CASE session[s].authenticated
      <3>1. PICK e : e = [session |-> s, realm |-> session[s].realm,
                          dest_id |-> session[s].dest_id, online |-> FALSE]
        OBVIOUS
      <3>2. outbox' = <<e>>
        BY <1>3, <2>1, <3>1 DEF Said
      <3>3. /\ e \in LifecycleEvent
            /\ e.session = s /\ ~e.online /\ e.dest_id = session[s].dest_id
        BY <1>0, <2>1, <3>1 DEF LifecycleEvent, Sound, Session
      <3>4. Describes(e)'
        BY <1>3, <3>3 DEF Describes
      <3>5. Follows(e)'
        BY <1>0, <1>2, <2>1, <3>3 DEF Follows, AnnouncedOK
      <3>6. OutboxOK'
        BY <3>2, <3>3, <3>4, <3>5 DEF OutboxOK
      <3>7. outbox' # <<>> /\ Head(outbox') = e
        BY <3>2
      <3>8. Head(outbox').session = s
        BY <3>3, <3>7
      <3> QED BY <1>1, <3>6, <3>7, <3>8 DEF PresenceOK
    <2>2. CASE ~session[s].authenticated
      <3>1. outbox' = <<>>
        BY <1>3, <2>2 DEF Said
      <3>2. AnnouncedOK(s)'
        BY <1>0, <1>2, <1>3, <2>2 DEF AnnouncedOK
      <3> QED BY <1>1, <3>1, <3>2 DEF PresenceOK, OutboxOK
    <2> QED BY <2>1, <2>2
  <1>4. ASSUME NEW dest \in DestIds \cup {0},
               session'[s].authenticated, session'[s].dest_id = dest, phase'.who = Nil,
               session[s].status # "absent",
               outbox' = OnlineSaid(s, dest) \/ outbox' = Said(s) \o OnlineSaid(s, dest)
        PROVE  PresenceOK'
    <2>1. PICK f : f = [session |-> s, realm |-> session[s].realm, dest_id |-> dest,
                        online |-> TRUE]
      OBVIOUS
    <2>2. PICK e : e = [session |-> s, realm |-> session[s].realm,
                        dest_id |-> session[s].dest_id, online |-> FALSE]
      OBVIOUS
    <2>3. /\ f \in LifecycleEvent
          /\ f.session = s /\ f.online /\ f.dest_id = dest
          /\ e \in LifecycleEvent
          /\ e.session = s /\ ~e.online /\ e.dest_id = session[s].dest_id
      BY <1>0, <1>4, <2>1, <2>2 DEF LifecycleEvent, Sound, Session
    <2>4. \/ outbox' = <<f>>
          \/ outbox' = <<e, f>> /\ session[s].authenticated
      <3>1. OnlineSaid(s, dest) = <<f>>
        BY <2>1 DEF OnlineSaid
      <3>2. Said(s) = IF session[s].authenticated THEN <<e>> ELSE <<>>
        BY <2>2 DEF Said
      <3>3. <<e>> \o <<f>> = <<e, f>>
        BY <2>3, PairJoined
      <3>4. <<>> \o <<f>> = <<f>>
        BY <2>3
      <3> QED BY <1>4, <3>1, <3>2, <3>3, <3>4
    <2>5. Describes(f)'
      BY <1>0, <1>4, <2>3 DEF Describes
    <2>6. Follows(f)'
      BY <2>3 DEF Follows
    <2>7. session[s].authenticated => Follows(e)'
      BY <1>0, <1>2, <2>3 DEF Follows, AnnouncedOK
    <2>8. OutboxOK'
      BY <2>3, <2>4, <2>5, <2>6, <2>7 DEF OutboxOK
    <2>9. outbox' # <<>> /\ (Head(outbox') = f \/ Head(outbox') = e)
      BY <2>4
    <2>10. Head(outbox').session = s
      BY <2>3, <2>9
    <2> QED BY <1>1, <2>8, <2>9, <2>10 DEF PresenceOK
  <1> QED BY <1>3, <1>4 DEF Speaks

LEMMA PublishedPresence ==
    ASSUME ExchangesInv, PublishEvent
    PROVE  PresenceOK'
  <1>0. /\ announced \in [Sessions -> Announcement]
        /\ \A e \in LifecycleEvent : e.session \in Sessions
        /\ PresenceOK
    BY DEF ExchangesInv, TypeOK, LifecycleEvent
  <1>1. PICK e \in LifecycleEvent :
           /\ Follows(e)
           /\ \/ outbox = <<e>> /\ Describes(e)
              \/ \E f \in LifecycleEvent : /\ outbox = <<e, f>> /\ e.session = f.session
                                           /\ f.online /\ Describes(f)
    BY <1>0 DEF PublishEvent, PresenceOK, OutboxOK
  <1>2. Head(outbox) = e /\ outbox' = Tail(outbox) /\ UNCHANGED <<session, phase>>
    BY <1>1 DEF PublishEvent
  <1>3. EventRecorded(e)
    BY <1>2, EventMoves
  <1>4. \A x \in Sessions \ {e.session} : AnnouncedOK(x)'
    BY <1>0, <1>1, <1>2, <1>3 DEF PresenceOK, AnnouncedOK, EventRecorded
  <1>5. CASE outbox = <<e>> /\ Describes(e)
    <2>1. outbox' = <<>>
      BY <1>2, <1>5
    <2>2. AnnouncedOK(e.session)'
      BY <1>2, <1>3, <1>5 DEF AnnouncedOK, Describes, EventRecorded
    <2> QED BY <1>4, <2>1, <2>2 DEF PresenceOK, OutboxOK
  <1>6. ASSUME NEW f \in LifecycleEvent, outbox = <<e, f>>, e.session = f.session,
               f.online, Describes(f)
        PROVE  PresenceOK'
    <2>1. outbox' = <<f>> /\ Head(outbox').session = e.session
      BY <1>2, <1>6
    <2>2. Describes(f)' /\ Follows(f)'
      BY <1>2, <1>6 DEF Describes, Follows
    <2>3. OutboxOK'
      BY <2>1, <2>2 DEF OutboxOK
    <2> QED BY <1>4, <2>1, <2>3 DEF PresenceOK
  <1> QED BY <1>1, <1>5, <1>6

LEMMA PresenceSteps ==
    ASSUME ExchangesInv, [Next]_vars
    PROVE  PresenceOK'
  <1>1. CASE RemoveSession
    <2>0. /\ session \in [Sessions -> Session] /\ announced \in [Sessions -> Announcement]
          /\ phase.who \in Sessions /\ Nil \notin Sessions
          /\ \A x \in Sessions : AnnouncedOK(x)
      BY <1>1, InflightAssumption
         DEF RemoveSession, ExchangesInv, TypeOK, SessionsOK, PresenceOK
    <2>1. /\ outbox' = <<>> /\ phase'.who = Nil
          /\ session' = [session EXCEPT ![phase.who] = NoSession]
          /\ announced' = [announced EXCEPT ![phase.who] = NotAnnounced]
      BY <1>1 DEF RemoveSession, Phase
    <2>2. \A x \in Sessions \ {phase.who} : AnnouncedOK(x)'
      BY <2>0, <2>1 DEF AnnouncedOK
    <2>3. ASSUME NEW x \in Sessions, x = phase.who
          PROVE  AnnouncedOK(x)'
      <3>1. announced'[x] = NotAnnounced
        BY <2>0, <2>1, <2>3
      <3>2. announced'[x].kind # "online" /\ ~session'[x].authenticated
        BY <2>0, <2>1, <2>3, <3>1 DEF NoSession, NotAnnounced
      <3> QED BY <3>2 DEF AnnouncedOK
    <2>4. \A x \in Sessions : AnnouncedOK(x)'
      BY <2>2, <2>3
    <2> QED BY <2>1, <2>4 DEF PresenceOK, OutboxOK
  <1> QED BY <1>1, AnnouncementSteps, QuietPresence, SpokenPresence, PublishedPresence

-------------------------------------------------------------------------------
(* The theorems.                                                           *)

LEMMA ExchangesInit == Init => ExchangesInv
  <1> SUFFICES ASSUME Init PROVE ExchangesInv
    OBVIOUS
  <1>1. InflightInv
    BY InitInv DEF Init
  <1>2. NoSession \in Session /\ NoExchange \in Exchange /\ UnusedInput \in Input
        /\ Over \in Answers
    BY ExchangesAssumption DEF NoSession, Session, NoExchange, Exchange, UnusedInput, Input,
       Over, Answers
  <1>3. CellsTyped /\ session \in [Sessions -> Session]
    BY <1>2 DEF Init, CellsTyped, Ends
  <1>4. BackendTyped
    BY <1>2 DEF Init, BackendTyped, Halves
  <1>5. ThreadTyped
    BY DEF Init, ThreadTyped, Phase, NotAnnounced, Announcement
  <1>6. TypeOK
    BY <1>1, <1>3, <1>4, <1>5 DEF TypeOK, InflightInv, CellsTyped, BackendTyped, ThreadTyped,
       Ends, Halves, Answers
  <1>7. SessionsOK /\ PresenceOK
    BY DEF Init, SessionsOK, PresenceOK, OutboxOK, AnnouncedOK, NoSession, NotAnnounced, Phase
  <1>8. EntriesPlaced /\ EntriesNameLiveSessions
    BY DEF Init, InflightInit, NoRoute, NoAuth, EntriesPlaced, EntriesNameLiveSessions
  <1> QED BY <1>1, <1>6, <1>7, <1>8 DEF ExchangesInv

LEMMA ExchangesStep == ExchangesInv /\ [Next]_vars => ExchangesInv'
  <1> SUFFICES ASSUME ExchangesInv, [Next]_vars PROVE ExchangesInv'
    OBVIOUS
  <1>1. InflightInv'
    BY TablesImplement, StepInv DEF ExchangesInv
  <1>2. TypeOK'
    BY <1>1, SessionSteps, CellSteps, BackendSteps, ThreadSteps
       DEF TypeOK, InflightInv, SessionsGood, CellsTyped, BackendTyped, ThreadTyped, Ends,
           Halves, Answers
  <1> QED BY <1>1, <1>2, SessionSteps, EntrySteps, PresenceSteps DEF ExchangesInv, SessionsGood

(* The inductive invariant of the request path (ingress.zig, worker.zig,   *)
(* auth.zig and lifecycle.zig on the tables of inflight.zig).              *)
THEOREM ExchangesInvariant == Spec => []ExchangesInv
  BY ExchangesInit, ExchangesStep, PTL DEF Spec

(* The typing of the request path, every queue and every callback phase    *)
(* included.                                                               *)
THEOREM ExchangesTyped == Spec => []TypeOK
  <1>1. ExchangesInv => TypeOK
    BY DEF ExchangesInv
  <1> QED BY <1>1, ExchangesInvariant, PTL

(* No entry outlives its session: whatever is in flight names a registered *)
(* session of the entry's realm, so a late answer never reaches the next   *)
(* client of a slot (closeClientSession purges before removeSession).      *)
THEOREM EntriesAlive == Spec => []EntriesNameLiveSessions
  <1>1. ExchangesInv => EntriesNameLiveSessions
    BY DEF ExchangesInv
  <1> QED BY <1>1, ExchangesInvariant, PTL

(* What was announced of a connection is what holds: completeAuth,         *)
(* revokeAdmission, kickOne and closeClientSession keep the events that    *)
(* went out equal to the admission of the session, whenever no callback is *)
(* under way and the last event of the session was not dropped.            *)
THEOREM PresenceCorrect == Spec => []PresenceMatchesAdmission
  <1>1. ExchangesInv => PresenceMatchesAdmission
    BY DEF ExchangesInv, PresenceOK, AnnouncedOK, PresenceMatchesAdmission
  <1> QED BY <1>1, ExchangesInvariant, PTL

(* An offline event names the identity that was online: revokeAdmission    *)
(* and completeAuth publish it before they clear or replace dest_id.       *)
THEOREM OfflineCorrect == Spec => OfflineNamesTheIdentity
  <1>1. ExchangesInv /\ [Next]_vars =>
           \A s \in Sessions :
              /\ announced[s].kind = "online" /\ ~announced[s].missed
              /\ announced'[s].kind = "offline"
              => announced'[s].dest_id = announced[s].dest_id
    <2> SUFFICES ASSUME ExchangesInv, [Next]_vars, NEW s \in Sessions,
                        announced[s].kind = "online", ~announced[s].missed,
                        announced'[s].kind = "offline"
                 PROVE  announced'[s].dest_id = announced[s].dest_id
      OBVIOUS
    <2>1. announced \in [Sessions -> Announcement]
      BY DEF ExchangesInv, TypeOK
    <2>2. PublishEvent
      <3>1. ~ RemoveSession
        BY <2>1 DEF RemoveSession, NotAnnounced
      <3> QED BY <3>1, AnnouncementSteps DEF Quiet, Speaks
    <2>3. PICK e \in LifecycleEvent : Head(outbox) = e /\ Follows(e)
      BY <2>2 DEF PublishEvent, ExchangesInv, PresenceOK, OutboxOK
    <2>4. EventRecorded(e)
      BY <2>2, <2>3, EventMoves
    <2>5. CASE e.session # s
      BY <2>4, <2>5 DEF EventRecorded
    <2>6. CASE e.session = s
      BY <2>3, <2>4, <2>6 DEF EventRecorded, Follows
    <2> QED BY <2>5, <2>6
  <1> QED BY <1>1, ExchangesInvariant, PTL DEF Spec, OfflineNamesTheIdentity

(* The handlers use the in-flight tables as Tables promises: every step of *)
(* a handler is one operation of Inflight under its reservation, or none.  *)
THEOREM ExchangesImplementInflight == Spec => InflightSpec
  <1>1. Init => InflightInit
    BY DEF Init
  <1>2. ExchangesInv /\ [Next]_vars => [InflightNext]_inflightVars
    BY TablesImplement
  <1> QED BY <1>1, <1>2, ExchangesInvariant, PTL DEF Spec, InflightSpec

(* On the whole request path the quotas of the tables are exact and the    *)
(* scan is never late, however responses, failures, purges, suppressions   *)
(* and expiry interleave.                                                  *)
THEOREM TablesCorrect == Spec => [](InflightQuotaExact /\ ExpiryNeverLate)
  BY ExchangesImplementInflight, InflightQuotaCorrect, ScanNeverLate, PTL

-------------------------------------------------------------------------------
(* The streams: what may still answer a client stream, against what the    *)
(* gateway knows of its input and has written to its output.               *)

RoutesAt(c) == {h \in Handles : Targets(routes[h], c[1], c[2])}

AuthsAt(c) == {h \in Handles : Targets(auths[h], c[1], c[2])}

(* the authentications whose verdict is written to the stream *)
HeardAt(c) == {h \in AuthsAt(c) : ~auths[h].suppressed}

WaitsAt(c) == RoutesAt(c) \cup AuthsAt(c)

Claimable(c) == ClaimInboundExchange(c[1], c[2])

(* A client stream of a session that is not there is untouched. *)
Untouched(c) ==
    session[c[1]].status = "absent" =>
        exchanges[c] = NoExchange /\ input[c] = UnusedInput /\ output[c] = "open"

(* An exchange that holds a backend stream is there and has more to send,  *)
(* and whatever waits for its client stream is the route of that stream.   *)
BackendHeld(c) ==
    exchanges[c].backend # Nil =>
        /\ exchanges[c].mode # "absent" /\ ~exchanges[c].input_complete
        /\ RoutesAt(c) \subseteq {exchanges[c].backend} /\ AuthsAt(c) = {}

(* What waits for a client stream has an exchange that wants a response,   *)
(* or one whose input has ended since; and there is one at most, a route   *)
(* or an authentication.                                                   *)
WaitsPlaced(c) ==
    /\ WaitsAt(c) # {} =>
          \/ exchanges[c].mode = "required"
          \/ exchanges[c].mode = "absent" /\ input[c].state = "ended"
    /\ \A g, h \in WaitsAt(c) : g = h
    /\ RoutesAt(c) \cap AuthsAt(c) = {}

(* A verdict is suppressed once the stream it would be written to was      *)
(* reset.                                                                  *)
SuppressedIsReset(c) == AuthsAt(c) # HeardAt(c) => output[c] # "open"

(* A FIN has been written to the client, be it after a RESET. *)
Finned(c) == output[c] \in {"fin", "late fin"}

(* Over WSS, where nothing else keeps a second FIN off the wire, whatever  *)
(* may still answer a stream finds it without one, and a stream id that    *)
(* may still be claimed has nothing behind it.                             *)
Answerable(c) ==
    \/ exchanges[c].mode = "none" /\ ~exchanges[c].input_complete
    \/ exchanges[c].backend \in Routed
    \/ RoutesAt(c) # {} \/ HeardAt(c) # {}
    \/ Claimable(c)

WssAnswers(c) ==
    IsWss(c[1]) =>
        /\ Answerable(c) => ~Finned(c)
        /\ Claimable(c) => exchanges[c].mode = "absent" /\ WaitsAt(c) = {}

Remembered(c) ==
    session[c[1]].status = "open" /\ input[c].asked = "required" =>
        output[c] # "open" \/ WaitsAt(c) # {}

StreamGood(c) ==
    /\ Untouched(c)
    /\ BackendHeld(c)
    /\ WaitsPlaced(c)
    /\ SuppressedIsReset(c)
    /\ WssAnswers(c)
    /\ output[c] # "twice"
    /\ Remembered(c)

(* A session whose close is carried out is not open. *)
ClosingMarked == phase.at = "close" => session[phase.who].status = "closing"

StreamsInv ==
    /\ ExchangesInv
    /\ ClosingMarked
    /\ RequestsEndOnce
    /\ \A c \in Cells : StreamGood(c)

LEMMA CellTypes ==
    ASSUME ExchangesInv, NEW c \in Cells
    PROVE  /\ c = <<c[1], c[2]>> /\ c[1] \in Sessions /\ c[2] \in Streams
           /\ session[c[1]] \in Session /\ exchanges[c] \in Exchange
           /\ input[c] \in Input /\ output[c] \in Ends
           /\ Nil \notin Routed /\ Nil \notin Handles
           /\ RoutesAt(c) \subseteq Routed /\ AuthsAt(c) \subseteq Authing
           /\ HeardAt(c) \subseteq AuthsAt(c)
  <1>1. c = <<c[1], c[2]>> /\ c[1] \in Sessions /\ c[2] \in Streams
    BY DEF Cells
  <1>2. /\ session[c[1]] \in Session /\ exchanges[c] \in Exchange
        /\ input[c] \in Input /\ output[c] \in Ends
    BY <1>1 DEF ExchangesInv, TypeOK, Ends
  <1> QED BY <1>1, <1>2, InflightAssumption DEF Routed, RoutesAt, AuthsAt, HeardAt, Authing, Targets

-------------------------------------------------------------------------------
(* The operations of the tables, as one client stream sees them.           *)

SameTables(c) ==
    /\ RoutesAt(c)' = RoutesAt(c) /\ AuthsAt(c)' = AuthsAt(c)
    /\ HeardAt(c)' = HeardAt(c)

LEMMA TablesQuiet ==
    ASSUME InflightTypeOK, NEW c \in Cells,
           UNCHANGED inflightVars \/ Age \/ RefreshExpiryDeadline
              \/ \E h \in Handles : TouchRoute(h)
    PROVE  SameTables(c) /\ Routed' = Routed
  <1>1. /\ \A h \in Handles : /\ routes'[h].target = routes[h].target
                              /\ routes'[h].session = routes[h].session
                              /\ routes'[h].stream = routes[h].stream
        /\ \A h \in Handles : /\ auths'[h].target = auths[h].target
                              /\ auths'[h].session = auths[h].session
                              /\ auths'[h].stream = auths[h].stream
                              /\ auths'[h].suppressed = auths[h].suppressed
    <2>0. routes \in [Handles -> Route] /\ auths \in [Handles -> PendingAuth]
      BY DEF InflightTypeOK
    <2>1. CASE UNCHANGED inflightVars \/ RefreshExpiryDeadline
      BY <2>1 DEF inflightVars, RefreshExpiryDeadline
    <2>2. CASE Age
      BY <2>0, <2>2 DEF Age, Older, Route, PendingAuth
    <2>3. ASSUME NEW h \in Handles, TouchRoute(h)
          PROVE  <1>1!1 /\ <1>1!2
      BY <2>0, <2>3 DEF TouchRoute, Route
    <2> QED BY <2>1, <2>2, <2>3
  <1> QED BY <1>1 DEF SameTables, RoutesAt, AuthsAt, HeardAt, Targets, Routed

LEMMA DiscardSeen ==
    ASSUME InflightTypeOK, NEW c \in Cells, NEW g \in Handles, g \notin Routed, NEW r,
           OpenRoute(g, DiscardRoute(r))
    PROVE  SameTables(c) /\ Routed' = Routed \cup {g}
  BY DEF InflightTypeOK, OpenRoute, DiscardRoute, SameTables, RoutesAt, AuthsAt, HeardAt,
         Targets, Routed

LEMMA ClientSeen ==
    ASSUME InflightTypeOK, NEW c \in Cells, NEW g \in Handles, g \notin Routed, NEW r,
           NEW s, NEW t, OpenRoute(g, ClientRoute(s, t, r))
    PROVE  /\ AuthsAt(c)' = AuthsAt(c) /\ HeardAt(c)' = HeardAt(c)
           /\ RoutesAt(c)' = IF c[1] = s /\ c[2] = t THEN RoutesAt(c) \cup {g}
                                                     ELSE RoutesAt(c)
           /\ Routed' = Routed \cup {g}
  BY DEF InflightTypeOK, OpenRoute, ClientRoute, RoutesAt, AuthsAt, HeardAt, Targets, Routed

LEMMA AuthSeen ==
    ASSUME InflightTypeOK, NEW c \in Cells, NEW g \in Handles, g \notin Authing, NEW r,
           NEW s, NEW t, TrackAuth(g, WaitingAuth(s, t, r))
    PROVE  /\ RoutesAt(c)' = RoutesAt(c) /\ Routed' = Routed
           /\ AuthsAt(c)' = IF c[1] = s /\ c[2] = t THEN AuthsAt(c) \cup {g} ELSE AuthsAt(c)
           /\ HeardAt(c)' = IF c[1] = s /\ c[2] = t THEN HeardAt(c) \cup {g} ELSE HeardAt(c)
  BY DEF InflightTypeOK, TrackAuth, WaitingAuth, RoutesAt, AuthsAt, HeardAt, Targets, Routed,
         Authing

LEMMA CloseSeen ==
    ASSUME InflightTypeOK, NEW c \in Cells, NEW g \in Handles, CloseRoute(g)
    PROVE  /\ AuthsAt(c)' = AuthsAt(c) /\ HeardAt(c)' = HeardAt(c)
           /\ RoutesAt(c)' = RoutesAt(c) \ {g}
           /\ Routed' = Routed \ {g}
  BY DEF InflightTypeOK, CloseRoute, NoRoute, RoutesAt, AuthsAt, HeardAt, Targets, Routed

LEMMA DropSeen ==
    ASSUME InflightTypeOK, NEW c \in Cells, NEW g \in Handles, DropAuth(g)
    PROVE  /\ RoutesAt(c)' = RoutesAt(c) /\ Routed' = Routed
           /\ AuthsAt(c)' = AuthsAt(c) \ {g}
           /\ HeardAt(c)' = HeardAt(c) \ {g}
  BY DEF InflightTypeOK, DropAuth, NoAuth, RoutesAt, AuthsAt, HeardAt, Targets, Routed

LEMMA SuppressSeen ==
    ASSUME InflightTypeOK, NEW c \in Cells, NEW s, NEW t, Suppress(s, t)
    PROVE  /\ Routed' = Routed /\ AuthsAt(c)' = AuthsAt(c)
           /\ IF c[1] = s /\ c[2] = t
              THEN RoutesAt(c)' = {} /\ HeardAt(c)' = {}
              ELSE SameTables(c)
  <1>1. /\ routes' = SuppressedRoutes(s, t) /\ auths' = SuppressedAuths(s, t)
        /\ routes \in [Handles -> Route] /\ auths \in [Handles -> PendingAuth]
    BY DEF Suppress, InflightTypeOK
  <1>2. \A h \in Handles :
           /\ IF Targets(routes[h], s, t)
              THEN routes'[h].target = "discard"
              ELSE routes'[h] = routes[h]
           /\ auths'[h].target = auths[h].target
           /\ auths'[h].session = auths[h].session
           /\ auths'[h].stream = auths[h].stream
           /\ auths'[h].suppressed <=> Targets(auths[h], s, t) \/ auths[h].suppressed
    BY <1>1 DEF SuppressedRoutes, SuppressedAuths, Route, PendingAuth
  <1>3. Routed' = Routed
    BY <1>2 DEF Routed, Targets
  <1>4. AuthsAt(c)' = AuthsAt(c)
    BY <1>2 DEF AuthsAt, Targets
  <1>5. CASE c[1] = s /\ c[2] = t
    <2>1. RoutesAt(c)' = {}
      BY <1>2, <1>5 DEF RoutesAt, Targets
    <2>2. HeardAt(c)' = {}
      BY <1>2, <1>5 DEF AuthsAt, HeardAt, Targets
    <2> QED BY <1>3, <1>4, <1>5, <2>1, <2>2
  <1>6. CASE ~(c[1] = s /\ c[2] = t)
    <2>1. RoutesAt(c)' = RoutesAt(c)
      BY <1>2, <1>6 DEF RoutesAt, Targets
    <2>2. HeardAt(c)' = HeardAt(c)
      BY <1>2, <1>6 DEF AuthsAt, HeardAt, Targets
    <2> QED BY <1>3, <1>4, <1>6, <2>1, <2>2 DEF SameTables
  <1> QED BY <1>5, <1>6

-------------------------------------------------------------------------------
(* A step that leaves a client stream alone, and one that takes away what  *)
(* waits for it.                                                           *)

SessionSeen(c) ==
    /\ session'[c[1]].status = "absent" <=> session[c[1]].status = "absent"
    /\ session'[c[1]].status = "open" => session[c[1]].status = "open"
    /\ IsWss(c[1])' <=> IsWss(c[1])
    /\ IsWss(c[1]) /\ Claimable(c)' => Claimable(c)

CellSame(c) == exchanges'[c] = exchanges[c] /\ input'[c] = input[c]

LEMMA SessionsUnchanged ==
    ASSUME NEW c \in Cells, UNCHANGED session
    PROVE  SessionSeen(c)
  BY DEF SessionSeen, IsWss, Claimable, ClaimInboundExchange

(* The client sees no end it has not seen before. *)
EndKept(c) ==
    /\ output'[c] = "open" <=> output[c] = "open"
    /\ output'[c] = "twice" => output[c] = "twice"
    /\ Finned(c)' => Finned(c)

LEMMA QuietStream ==
    ASSUME NEW c \in Cells, StreamGood(c), SessionSeen(c),
           CellSame(c), output'[c] = output[c] \/ EndKept(c), SameTables(c),
           exchanges[c].backend \in Routed' => exchanges[c].backend \in Routed
    PROVE  StreamGood(c)'
  <1>0. EndKept(c)
    BY DEF EndKept, Finned
  <1>1. WaitsAt(c)' = WaitsAt(c)
    BY DEF WaitsAt, SameTables
  <1>2. Untouched(c)' /\ Remembered(c)'
    BY <1>0, <1>1 DEF StreamGood, Untouched, Remembered, SessionSeen, CellSame, EndKept
  <1>3. BackendHeld(c)' /\ WaitsPlaced(c)' /\ SuppressedIsReset(c)'
    BY <1>0, <1>1 DEF StreamGood, BackendHeld, WaitsPlaced, SuppressedIsReset, CellSame,
       SameTables, EndKept
  <1>4. WssAnswers(c)'
    BY <1>0, <1>1 DEF StreamGood, WssAnswers, Answerable, SessionSeen, CellSame, SameTables,
       EndKept
  <1> QED BY <1>0, <1>2, <1>3, <1>4 DEF StreamGood, EndKept

(* what a write with FIN leaves of an output that may be answered *)
LEMMA EndedOnce ==
    ASSUME ExchangesInv, NEW c \in Cells, output[c] # "twice",
           IsWss(c[1]) => ~Finned(c)
    PROVE  /\ Written(c, TRUE) # "twice"
           /\ session[c[1]].status = "open" => Written(c, TRUE) # "open"
           /\ session[c[1]].status # "open" => Written(c, TRUE) = output[c]
           /\ output[c] # "open" => Written(c, TRUE) # "open"
           /\ output' = [output EXCEPT ![c] = Written(c, FALSE)] => EndKept(c)
  <1>1. output[c] \in Ends /\ output \in [Cells -> Ends]
    BY CellTypes DEF ExchangesInv, TypeOK
  <1>2. /\ Written(c, TRUE) # "twice"
        /\ session[c[1]].status = "open" => Written(c, TRUE) # "open"
        /\ session[c[1]].status # "open" => Written(c, TRUE) = output[c]
        /\ output[c] # "open" => Written(c, TRUE) # "open"
    BY <1>1 DEF Written, Ends, Finned
  <1>3. /\ Written(c, FALSE) = "open" <=> output[c] = "open"
        /\ Written(c, FALSE) # "twice"
        /\ Written(c, FALSE) \in {"fin", "late fin"} => output[c] \in {"fin", "late fin"}
    BY <1>1 DEF Written, Ends, Finned
  <1>4. output' = [output EXCEPT ![c] = Written(c, FALSE)] => output'[c] = Written(c, FALSE)
    BY <1>1
  <1> QED BY <1>2, <1>3, <1>4 DEF EndKept, Finned

LEMMA TakenStream ==
    ASSUME ExchangesInv, NEW c \in Cells, StreamGood(c), SessionSeen(c), CellSame(c),
           NEW g \in WaitsAt(c),
           \/ /\ RoutesAt(c)' = RoutesAt(c) \ {g} /\ Routed' = Routed \ {g}
              /\ AuthsAt(c)' = AuthsAt(c) /\ HeardAt(c)' = HeardAt(c)
              /\ g \in RoutesAt(c)
           \/ /\ RoutesAt(c)' = RoutesAt(c) /\ Routed' = Routed
              /\ AuthsAt(c)' = AuthsAt(c) \ {g} /\ HeardAt(c)' = HeardAt(c) \ {g}
              /\ g \in AuthsAt(c),
           \/ /\ output'[c] = output[c]
              /\ session[c[1]].status # "open" \/ output[c] # "open"
           \/ output'[c] = Written(c, TRUE) /\ g \in RoutesAt(c) \cup HeardAt(c)
    PROVE  StreamGood(c)'
  <1>0. /\ HeardAt(c) \subseteq AuthsAt(c) /\ exchanges[c] \in Exchange
        /\ Nil \notin Routed /\ Nil \notin Routed'
    BY CellTypes, InflightAssumption DEF Routed
  <1>1. WaitsAt(c)' = {} /\ RoutesAt(c)' = {} /\ AuthsAt(c)' = {} /\ HeardAt(c)' = {}
    <2>1. WaitsAt(c) = {g} /\ RoutesAt(c) \cap AuthsAt(c) = {}
      BY DEF StreamGood, WaitsPlaced
    <2> QED BY <1>0, <2>1 DEF WaitsAt
  <1>2. IsWss(c[1]) => ~Claimable(c)
    BY DEF StreamGood, WssAnswers
  <1>3. g \in RoutesAt(c) \cup HeardAt(c) /\ IsWss(c[1]) => ~Finned(c)
    BY DEF StreamGood, WssAnswers, Answerable
  <1>4. /\ output'[c] # "twice"
        /\ session[c[1]].status = "open" => output'[c] # "open"
        /\ session[c[1]].status = "absent" => output'[c] = output[c]
        /\ output'[c] # output[c] => g \in RoutesAt(c) \cup HeardAt(c)
    BY <1>3, EndedOnce DEF StreamGood
  <1>5. Untouched(c)' /\ Remembered(c)'
    BY <1>4 DEF StreamGood, Untouched, Remembered, SessionSeen, CellSame
  <1>6. BackendHeld(c)' /\ WaitsPlaced(c)' /\ SuppressedIsReset(c)'
    BY <1>1 DEF StreamGood, BackendHeld, WaitsPlaced, SuppressedIsReset, CellSame
  <1>7. WssAnswers(c)'
    <2>1. \/ exchanges[c].mode = "required"
          \/ exchanges[c].mode = "absent" /\ input[c].state = "ended"
      BY DEF StreamGood, WaitsPlaced
    <2>2. exchanges[c].backend \notin Routed'
      <3>1. CASE exchanges[c].backend = Nil
        BY <1>0, <3>1
      <3>2. CASE exchanges[c].backend # Nil
        <4>1. AuthsAt(c) = {} /\ RoutesAt(c) \subseteq {exchanges[c].backend}
          BY <3>2 DEF StreamGood, BackendHeld
        <4> QED BY <4>1
      <3> QED BY <3>1, <3>2
    <2> QED BY <1>1, <1>2, <2>1, <2>2 DEF WssAnswers, Answerable, SessionSeen, CellSame
  <1> QED BY <1>4, <1>5, <1>6, <1>7 DEF StreamGood

(* a route leaves, and whoever waits for it is answered *)
LEMMA RouteAnswered ==
    ASSUME ExchangesInv, NEW c \in Cells, StreamGood(c), SessionSeen(c), CellSame(c),
           NEW h \in Routed, CloseRoute(h),
           \/ AnswerRoute(h)
           \/ /\ UNCHANGED output
              /\ h \in RoutesAt(c) => session[c[1]].status # "open" \/ output[c] # "open"
    PROVE  StreamGood(c)'
  <1>0. h \in Handles /\ InflightTypeOK /\ output \in [Cells -> Ends]
    BY DEF Routed, ExchangesInv, TypeOK, Ends
  <1>1. /\ AuthsAt(c)' = AuthsAt(c) /\ HeardAt(c)' = HeardAt(c)
        /\ RoutesAt(c)' = RoutesAt(c) \ {h} /\ Routed' = Routed \ {h}
    BY <1>0, CloseSeen
  <1>2. h \in RoutesAt(c) <=> routes[h].target = "client" /\ CellOf(routes[h]) = c
    BY <1>0, CellTypes DEF RoutesAt, Targets, CellOf
  <1>3. CASE h \in RoutesAt(c)
    <2>1. \/ output'[c] = Written(c, TRUE)
          \/ /\ output'[c] = output[c]
             /\ session[c[1]].status # "open" \/ output[c] # "open"
      BY <1>0, <1>2, <1>3 DEF AnswerRoute, Answer
    <2>2. h \in WaitsAt(c) /\ h \in RoutesAt(c) \cup HeardAt(c)
      BY <1>3 DEF WaitsAt
    <2> QED BY <1>1, <1>3, <2>1, <2>2, TakenStream
  <1>4. CASE h \notin RoutesAt(c)
    <2>1. output'[c] = output[c]
      BY <1>0, <1>2, <1>4 DEF AnswerRoute, Answer
    <2>2. SameTables(c)
      BY <1>1, <1>4 DEF SameTables
    <2> QED BY <1>1, <2>1, <2>2, QuietStream
  <1> QED BY <1>3, <1>4

(* an authentication ends, and its client is answered unless suppressed *)
LEMMA AuthAnswered ==
    ASSUME ExchangesInv, NEW c \in Cells, StreamGood(c), SessionSeen(c), CellSame(c),
           NEW h \in Authing, DropAuth(h),
           \/ AnswerAuth(h)
           \/ /\ UNCHANGED output
              /\ h \in AuthsAt(c) => session[c[1]].status # "open"
    PROVE  StreamGood(c)'
  <1>0. h \in Handles /\ InflightTypeOK /\ output \in [Cells -> Ends]
    BY DEF Authing, ExchangesInv, TypeOK, Ends
  <1>1. /\ RoutesAt(c)' = RoutesAt(c) /\ Routed' = Routed
        /\ AuthsAt(c)' = AuthsAt(c) \ {h} /\ HeardAt(c)' = HeardAt(c) \ {h}
    BY <1>0, DropSeen
  <1>2. h \in AuthsAt(c) <=> auths[h].target = "client" /\ CellOf(auths[h]) = c
    BY <1>0, CellTypes DEF AuthsAt, Targets, CellOf
  <1>3. auths[h].target = "client"
    BY <1>0 DEF Authing, InflightTypeOK, PendingAuth
  <1>4. HeardAt(c) \subseteq AuthsAt(c)
    BY DEF HeardAt
  <1>5. CASE h \in AuthsAt(c)
    <2>1. \/ output'[c] = Written(c, TRUE) /\ h \in HeardAt(c)
          \/ /\ output'[c] = output[c]
             /\ session[c[1]].status # "open" \/ output[c] # "open"
      <3>1. CASE AnswerAuth(h) /\ ~auths[h].suppressed
        BY <1>0, <1>2, <1>5, <3>1 DEF AnswerAuth, Answer, HeardAt
      <3>2. CASE AnswerAuth(h) /\ auths[h].suppressed
        <4>1. h \notin HeardAt(c) /\ output' = output
          BY <3>2 DEF HeardAt, AnswerAuth
        <4>2. output[c] # "open"
          BY <1>5, <4>1 DEF StreamGood, SuppressedIsReset
        <4> QED BY <4>1, <4>2
      <3>3. CASE ~AnswerAuth(h)
        BY <1>5, <3>3
      <3> QED BY <3>1, <3>2, <3>3
    <2>2. h \in WaitsAt(c)
      BY <1>5 DEF WaitsAt
    <2> QED BY <1>1, <1>5, <2>1, <2>2, TakenStream
  <1>6. CASE h \notin AuthsAt(c)
    <2>1. output'[c] = output[c]
      BY <1>0, <1>2, <1>3, <1>6 DEF AnswerAuth, Answer
    <2>2. SameTables(c)
      BY <1>1, <1>4, <1>6 DEF SameTables
    <2> QED BY <1>1, <2>1, <2>2, QuietStream
  <1> QED BY <1>5, <1>6

-------------------------------------------------------------------------------
(* What a step does to the sessions, as one client stream sees it.         *)

LEMMA RecordSeen ==
    ASSUME ExchangesInv, NEW c \in Cells, NEW s, NEW rec,
           session' = [session EXCEPT ![s] = rec],
           s \in Sessions => /\ rec.status = "absent" <=> session[s].status = "absent"
                             /\ rec.status = "open" => session[s].status = "open"
                             /\ rec.binding = session[s].binding
                             /\ rec.claimed = session[s].claimed
    PROVE  SessionSeen(c)
  <1>1. session \in [Sessions -> Session] /\ c[1] \in Sessions
    BY CellTypes DEF ExchangesInv, TypeOK
  <1>2. /\ session'[c[1]].status = "absent" <=> session[c[1]].status = "absent"
        /\ session'[c[1]].status = "open" => session[c[1]].status = "open"
        /\ session'[c[1]].binding = session[c[1]].binding
        /\ session'[c[1]].claimed = session[c[1]].claimed
    BY <1>1
  <1> QED BY <1>2 DEF SessionSeen, IsWss, Claimable, ClaimInboundExchange

LEMMA ShutSeen ==
    ASSUME ExchangesInv, NEW c \in Cells, NEW s, s \in Sessions => session[s].status # "absent",
           CloseTransport(s)
    PROVE  SessionSeen(c)
  <1> DEFINE rec == [session[s] EXCEPT !.status = "closing"]
  <1>1. session' = [session EXCEPT ![s] = rec]
    BY DEF CloseTransport
  <1>2. s \in Sessions => session[s] \in Session
    BY DEF ExchangesInv, TypeOK
  <1>3. s \in Sessions => /\ rec.status = "closing" /\ rec.binding = session[s].binding
                          /\ rec.claimed = session[s].claimed
    BY <1>2 DEF Session
  <1> HIDE DEF rec
  <1> QED BY <1>1, <1>3, RecordSeen

LEMMA ClaimSeen ==
    ASSUME ExchangesInv, NEW c \in Cells, NEW s \in Sessions, NEW t \in Streams,
           session[s].status = "open", ClaimInboundExchange(s, t),
           \/ session' = Claimed(s, t)
           \/ session' = [Claimed(s, t) EXCEPT ![s].status = "closing"]
    PROVE  /\ SessionSeen(c)
           /\ c = <<s, t>> /\ IsWss(c[1]) => ~Claimable(c)'
  <1>0. /\ session \in [Sessions -> Session] /\ c[1] \in Sessions /\ c[2] \in Streams
        /\ Streams \subseteq Nat /\ Nil \notin Nat
    BY CellTypes, InflightAssumption DEF ExchangesInv, TypeOK, Nil
  <1>1. /\ \A x \in Sessions \ {s} : session'[x] = session[x]
        /\ session'[s].status \in {"open", "closing"}
        /\ session'[s].binding = session[s].binding
        /\ session'[s].claimed = IF IsWss(s) THEN t ELSE session[s].claimed
    <2>1. session[s] \in Session
      BY <1>0
    <2>2. CASE session' = Claimed(s, t)
      BY <1>0, <2>1, <2>2 DEF Claimed, Session
    <2>3. CASE session' = [Claimed(s, t) EXCEPT ![s].status = "closing"]
      BY <1>0, <2>1, <2>3 DEF Claimed, Session
    <2> QED BY <2>2, <2>3
  <1>2. CASE c[1] # s
    <2>1. session'[c[1]] = session[c[1]]
      BY <1>0, <1>1, <1>2
    <2> QED BY <1>2, <2>1 DEF SessionSeen, IsWss, Claimable, ClaimInboundExchange
  <1>3. CASE c[1] = s
    <2>1. IsWss(s)' <=> IsWss(s)
      BY <1>1 DEF IsWss
    <2>2. IsWss(s) => (Claimable(c)' <=> c[2] > t)
      BY <1>0, <1>1, <1>3, <2>1 DEF Claimable, ClaimInboundExchange
    <2>3. IsWss(s) => session[s].claimed = Nil \/ t > session[s].claimed
      BY DEF ClaimInboundExchange
    <2>4. session[s].claimed \in Streams \cup {Nil}
      BY <1>0 DEF Session
    <2>5. IsWss(s) /\ Claimable(c)' => Claimable(c)
      BY <1>0, <1>3, <2>2, <2>3, <2>4 DEF Claimable, ClaimInboundExchange
    <2>6. c = <<s, t>> => ~(c[2] > t)
      BY <1>0
    <2> QED BY <1>1, <1>3, <2>1, <2>2, <2>5, <2>6 DEF SessionSeen
  <1> QED BY <1>2, <1>3

-------------------------------------------------------------------------------
(* The OPEN of a client stream, whatever becomes of it.                    *)

LEMMA OpenedStream ==
    ASSUME ExchangesInv, NEW c \in Cells, StreamGood(c), SessionSeen(c),
           session[c[1]].status = "open", input[c].state # "ended",
           exchanges[c].mode = "absent", Claimable(c),
           IsWss(c[1]) => ~Claimable(c)',
           NEW mode \in Modes, NEW g,
           exchanges'[c] \in Exchange,
           input'[c].asked = IF input[c].asked = "nothing" THEN mode ELSE input[c].asked,
           WaitsAt(c)' \subseteq {g}, (RoutesAt(c) \cap AuthsAt(c))' = {},
           AuthsAt(c)' = HeardAt(c)',
           WaitsAt(c)' # {} => exchanges'[c].mode = "required",
           exchanges'[c].backend # Nil =>
              /\ exchanges'[c].mode # "absent" /\ ~exchanges'[c].input_complete
              /\ RoutesAt(c)' \subseteq {exchanges'[c].backend} /\ AuthsAt(c)' = {},
           \/ /\ output'[c] = output[c]
              /\ WaitsAt(c)' # {} \/ mode = "none" \/ session'[c[1]].status # "open"
           \/ /\ output'[c] = Written(c, TRUE)
              /\ exchanges'[c].mode # "none" \/ exchanges'[c].input_complete
              /\ exchanges'[c].backend = Nil
              /\ WaitsAt(c)' = {}
    PROVE  StreamGood(c)'
  <1>1. WaitsAt(c) = {}
    BY DEF StreamGood, WaitsPlaced
  <1>2. output[c] # "twice" /\ (IsWss(c[1]) => ~Finned(c))
    BY DEF StreamGood, WssAnswers, Answerable
  <1>3. Written(c, TRUE) \notin {"twice", "open"}
    BY <1>2, EndedOnce
  <1>4. input[c].asked = "required" => output[c] # "open"
    BY <1>1 DEF StreamGood, Remembered
  <1>5. Untouched(c)' /\ Remembered(c)' /\ output'[c] # "twice"
    <2>1. output[c] # "open" => output'[c] # "open"
      BY <1>3
    <2>2. Remembered(c)'
      BY <1>3, <1>4, <2>1 DEF Remembered
    <2> QED BY <1>2, <1>3, <2>2 DEF Untouched, SessionSeen
  <1>6. BackendHeld(c)' /\ WaitsPlaced(c)' /\ SuppressedIsReset(c)'
    BY DEF BackendHeld, WaitsPlaced, SuppressedIsReset
  <1>7. WssAnswers(c)'
    <2>1. Nil \notin Routed'
      BY InflightAssumption DEF Routed
    <2>2. CASE output'[c] = output[c]
      BY <1>2, <2>2 DEF WssAnswers, SessionSeen, Finned
    <2>3. CASE output'[c] # output[c]
      <3>1. RoutesAt(c)' = {} /\ HeardAt(c)' = {}
        BY <2>3 DEF WaitsAt
      <3> QED BY <2>1, <2>3, <3>1 DEF WssAnswers, Answerable, SessionSeen
    <2> QED BY <2>2, <2>3
  <1> QED BY <1>5, <1>6, <1>7 DEF StreamGood

LEMMA FreshUnused ==
    ASSUME NEW g \in Fresh
    PROVE  /\ g \in Handles /\ g \notin Routed /\ g \notin Authing
           /\ \A c \in Cells : exchanges[c].backend # g
           /\ routes[g].target = "absent" /\ auths[g].target = "absent"
  BY DEF Fresh, Mentioned, Routed, Authing

LEMMA OpenSeen ==
    ASSUME StreamsInv, NEW s \in Sessions, NEW t \in Streams, NEW dest,
           OpenArrives(s, t, dest), NEW c \in Cells, NEW mode, input' = Opened(<<s, t>>, mode),
           \/ session' = Claimed(s, t)
           \/ session' = [Claimed(s, t) EXCEPT ![s].status = "closing"]
    PROVE  /\ SessionSeen(c)
           /\ c # <<s, t>> => input'[c] = input[c]
           /\ c = <<s, t>> =>
                 /\ session[c[1]].status = "open" /\ input[c].state # "ended"
                 /\ exchanges[c].mode = "absent" /\ exchanges[c].backend = Nil
                 /\ Claimable(c)
                 /\ IsWss(c[1]) => ~Claimable(c)'
                 /\ RoutesAt(c) = {} /\ AuthsAt(c) = {} /\ HeardAt(c) = {}
                 /\ input'[c].asked = IF input[c].asked = "nothing" THEN mode
                                                                    ELSE input[c].asked
  <1>0. ExchangesInv /\ input \in [Cells -> Input] /\ <<s, t>> \in Cells /\ StreamGood(c)
    BY DEF StreamsInv, ExchangesInv, TypeOK, Cells
  <1>1. session[s].status = "open" /\ ClaimInboundExchange(s, t)
        /\ exchanges[<<s, t>>].mode = "absent" /\ input[<<s, t>>].state # "ended"
    BY DEF OpenArrives, OpenViolates, FrameArrives
  <1>2. SessionSeen(c) /\ (c = <<s, t>> /\ IsWss(c[1]) => ~Claimable(c)')
    BY <1>0, <1>1, ClaimSeen
  <1>3. c # <<s, t>> => input'[c] = input[c]
    BY <1>0 DEF Opened
  <1>4. ASSUME c = <<s, t>>
        PROVE  /\ session[c[1]].status = "open" /\ input[c].state # "ended"
               /\ exchanges[c].mode = "absent" /\ exchanges[c].backend = Nil
               /\ Claimable(c)
               /\ RoutesAt(c) = {} /\ AuthsAt(c) = {} /\ HeardAt(c) = {}
               /\ input'[c].asked = IF input[c].asked = "nothing" THEN mode
                                                                  ELSE input[c].asked
    <2>1. session[c[1]].status = "open" /\ input[c].state # "ended" /\ Claimable(c)
          /\ exchanges[c].mode = "absent"
      BY <1>1, <1>4 DEF Claimable
    <2>2. WaitsAt(c) = {}
      BY <1>0, <2>1 DEF StreamGood, WaitsPlaced
    <2>3. exchanges[c].backend = Nil
      BY <1>0, <2>1 DEF StreamGood, BackendHeld
    <2>4. input'[c].asked = IF input[c].asked = "nothing" THEN mode ELSE input[c].asked
      BY <1>0, <1>4 DEF Opened
    <2> QED BY <1>0, <2>1, <2>2, <2>3, <2>4, CellTypes DEF WaitsAt
  <1> QED BY <1>2, <1>3, <1>4

LEMMA BadOpenStream ==
    ASSUME StreamsInv, NEW c \in Cells, NEW s \in Sessions, NEW t \in Streams, NEW dest,
           NEW mode \in Modes, ReceiveBadOpen(s, t, dest, mode)
    PROVE  StreamGood(c)'
  <1>0. ExchangesInv /\ InflightTypeOK /\ StreamGood(c) /\ input \in [Cells -> Input]
    BY DEF StreamsInv, ExchangesInv, TypeOK
  <1>1. /\ session[s].status = "open" /\ input[<<s, t>>].state # "ended"
        /\ CloseTransport(s) /\ input' = Opened(<<s, t>>, mode)
        /\ UNCHANGED <<inflightVars, exchanges, output>>
    BY DEF ReceiveBadOpen, FrameArrives
  <1>2. SessionSeen(c)
    BY <1>0, <1>1, ShutSeen
  <1>3. SameTables(c) /\ Routed' = Routed
    BY <1>0, <1>1, TablesQuiet
  <1>4. CASE c # <<s, t>>
    BY <1>0, <1>1, <1>2, <1>3, <1>4, QuietStream DEF Opened, CellSame
  <1>5. CASE c = <<s, t>>
    <2>1. WaitsAt(c)' = WaitsAt(c)
      BY <1>3 DEF WaitsAt, SameTables
    <2>2. Untouched(c)' /\ Remembered(c)'
      <3>1. session'[c[1]].status = "closing"
        BY <1>0, <1>1, <1>5 DEF CloseTransport, ExchangesInv, TypeOK, Session
      <3> QED BY <3>1 DEF Untouched, Remembered
    <2>3. BackendHeld(c)' /\ WaitsPlaced(c)' /\ SuppressedIsReset(c)'
      BY <1>0, <1>1, <1>3, <1>5, <2>1
         DEF StreamGood, BackendHeld, WaitsPlaced, SuppressedIsReset, SameTables
    <2>4. WssAnswers(c)'
      BY <1>0, <1>1, <1>2, <1>3, <2>1
         DEF StreamGood, WssAnswers, Answerable, SessionSeen, SameTables, Finned
    <2> QED BY <1>0, <1>1, <2>2, <2>3, <2>4 DEF StreamGood
  <1> QED BY <1>4, <1>5

(* an OPEN that is refused or answered on the spot, or a disconnect *)
LEMMA LocalOpenStream ==
    ASSUME StreamsInv, NEW c \in Cells, NEW s \in Sessions, NEW t \in Streams,
           NEW mode \in Modes,
           \/ \E dest, last : ReceiveRefusedOpen(s, t, dest, mode, last)
           \/ ReceiveControlOpen(s, t, mode)
           \/ ReceiveDisconnect(s, t) /\ mode = "none"
    PROVE  StreamGood(c)'
  <1> DEFINE o == <<s, t>>
  <1>0. /\ ExchangesInv /\ InflightTypeOK /\ StreamGood(c) /\ o \in Cells
        /\ exchanges \in [Cells -> Exchange] /\ output \in [Cells -> Ends]
        /\ session \in [Sessions -> Session]
    BY DEF StreamsInv, ExchangesInv, TypeOK, Cells, Ends
  <1>1. /\ input' = Opened(o, mode) /\ UNCHANGED inflightVars
        /\ \E dest : OpenArrives(s, t, dest)
        /\ \/ session' = Claimed(s, t)
           \/ session' = [Claimed(s, t) EXCEPT ![s].status = "closing"]
        /\ \/ exchanges' = exchanges /\ Answer(o)
           \/ exchanges' = Registered(o, mode, Nil, TRUE) /\ Answer(o)
           \/ /\ exchanges' = Registered(o, mode, Nil, TRUE) /\ output' = output
              /\ session' = [Claimed(s, t) EXCEPT ![s].status = "closing"]
    BY DEF ReceiveRefusedOpen, ReceiveControlOpen, ReceiveDisconnect
  <1>2. /\ SessionSeen(c)
        /\ c # o => input'[c] = input[c]
        /\ c = o =>
              /\ session[c[1]].status = "open" /\ input[c].state # "ended"
              /\ exchanges[c].mode = "absent" /\ exchanges[c].backend = Nil
              /\ Claimable(c)
              /\ IsWss(c[1]) => ~Claimable(c)'
              /\ RoutesAt(c) = {} /\ AuthsAt(c) = {} /\ HeardAt(c) = {}
              /\ input'[c].asked = IF input[c].asked = "nothing" THEN mode ELSE input[c].asked
    BY <1>1, OpenSeen
  <1>3. SameTables(c) /\ Routed' = Routed
    BY <1>0, <1>1, TablesQuiet
  <1>4. c # o => exchanges'[c] = exchanges[c] /\ output'[c] = output[c]
    BY <1>0, <1>1 DEF Registered, Answer
  <1>5. CASE c # o
    <2>1. CellSame(c) /\ output'[c] = output[c]
      BY <1>2, <1>4, <1>5 DEF CellSame
    <2> QED BY <1>0, <1>2, <1>3, <2>1, QuietStream
  <1>6. CASE c = o
    <2>1. RoutesAt(c)' = {} /\ AuthsAt(c)' = {} /\ HeardAt(c)' = {} /\ WaitsAt(c)' = {}
      BY <1>2, <1>3, <1>6 DEF SameTables, WaitsAt
    <2>2. /\ exchanges'[c] = exchanges[c] \/ exchanges'[c] = [mode |-> mode, backend |-> Nil, input_complete |-> TRUE]
          /\ exchanges'[c].backend = Nil
          /\ exchanges'[c].mode # "none" \/ exchanges'[c].input_complete
      BY <1>0, <1>1, <1>2, <1>6 DEF Registered
    <2>3. exchanges'[c] \in Exchange
      <3>1. [mode |-> mode, backend |-> Nil, input_complete |-> TRUE] \in Exchange
        BY DEF Exchange, Modes
      <3>2. exchanges[c] \in Exchange
        BY <1>0
      <3> QED BY <2>2, <3>1, <3>2
    <2>4. \/ output'[c] = Written(c, TRUE)
          \/ output'[c] = output[c] /\ session'[c[1]].status # "open"
      <3>1. CASE Answer(o)
        BY <1>0, <1>6, <3>1 DEF Answer
      <3>2. CASE ~Answer(o)
        <4>1. /\ output' = output
              /\ session' = [Claimed(s, t) EXCEPT ![s].status = "closing"]
          BY <1>1, <3>2
        <4>2. Claimed(s, t) \in [Sessions -> Session]
          BY <1>0 DEF Claimed, Session
        <4>3. session'[s].status = "closing"
          BY <4>1, <4>2 DEF Session
        <4> QED BY <1>6, <4>1, <4>3
      <3> QED BY <3>1, <3>2
    <2>5. (RoutesAt(c) \cap AuthsAt(c))' = {}
      BY <2>1
    <2> HIDE DEF o
    <2> QED BY <1>0, <1>2, <1>6, <2>1, <2>2, <2>3, <2>4, <2>5, OpenedStream
  <1> QED BY <1>5, <1>6

LEMMA ServiceOpenStream ==
    ASSUME StreamsInv, NEW c \in Cells, NEW s \in Sessions, NEW t \in Streams,
           NEW mode \in Modes, NEW last \in BOOLEAN, ReceiveServiceOpen(s, t, mode, last)
    PROVE  StreamGood(c)'
  <1> DEFINE o == <<s, t>>
  <1>0. /\ ExchangesInv /\ InflightTypeOK /\ StreamGood(c) /\ o \in Cells
        /\ exchanges \in [Cells -> Exchange] /\ output \in [Cells -> Ends]
    BY DEF StreamsInv, ExchangesInv, TypeOK, Cells, Ends
  <1>1. /\ input' = Opened(o, mode) /\ OpenArrives(s, t, "service")
        /\ session' = Claimed(s, t)
        /\ IF last /\ mode = "none" THEN Answer(o) ELSE UNCHANGED output
    BY DEF ReceiveServiceOpen
  <1>2. PICK g \in Fresh :
           /\ OpenRoute(g, IF mode = "required" THEN ClientRoute(s, t, session[s].realm)
                                                ELSE DiscardRoute(session[s].realm))
           /\ exchanges' = Registered(o, mode, KeptHandle(g, last), last)
    BY DEF ReceiveServiceOpen
  <1>3. /\ SessionSeen(c)
        /\ c # o => input'[c] = input[c]
        /\ c = o =>
              /\ session[c[1]].status = "open" /\ input[c].state # "ended"
              /\ exchanges[c].mode = "absent" /\ exchanges[c].backend = Nil
              /\ Claimable(c)
              /\ IsWss(c[1]) => ~Claimable(c)'
              /\ RoutesAt(c) = {} /\ AuthsAt(c) = {} /\ HeardAt(c) = {}
              /\ input'[c].asked = IF input[c].asked = "nothing" THEN mode ELSE input[c].asked
    BY <1>1, OpenSeen
  <1>4. g \in Handles /\ g \notin Routed /\ exchanges[c].backend # g
    BY FreshUnused
  <1>5. /\ AuthsAt(c)' = AuthsAt(c) /\ HeardAt(c)' = HeardAt(c)
        /\ RoutesAt(c)' = IF c = o /\ mode = "required" THEN RoutesAt(c) \cup {g} ELSE RoutesAt(c)
        /\ Routed' = Routed \cup {g}
    <2>1. c = o <=> c[1] = s /\ c[2] = t
      BY <1>0, CellTypes
    <2>2. CASE mode = "required"
      BY <1>0, <1>2, <1>4, <2>1, <2>2, ClientSeen
    <2>3. CASE mode # "required"
      BY <1>0, <1>2, <1>4, <2>3, DiscardSeen DEF SameTables
    <2> QED BY <2>2, <2>3
  <1>6. CASE c # o
    <2>1. CellSame(c) /\ output'[c] = output[c]
      BY <1>0, <1>1, <1>2, <1>3, <1>6 DEF CellSame, Registered, Answer
    <2>2. SameTables(c)
      BY <1>5, <1>6 DEF SameTables
    <2> QED BY <1>0, <1>3, <1>4, <1>5, <2>1, <2>2, QuietStream
  <1>7. CASE c = o
    <2>1. exchanges'[c] = [mode |-> mode, backend |-> KeptHandle(g, last), input_complete |-> last]
      BY <1>0, <1>2, <1>7 DEF Registered
    <2>2. KeptHandle(g, last) = IF last THEN Nil ELSE g
      BY DEF KeptHandle
    <2>3. exchanges'[c] \in Exchange
      BY <1>4, <2>1, <2>2 DEF Exchange, Modes
    <2>4. /\ AuthsAt(c)' = {} /\ HeardAt(c)' = {}
          /\ RoutesAt(c)' = IF mode = "required" THEN {g} ELSE {}
          /\ WaitsAt(c)' = IF mode = "required" THEN {g} ELSE {}
      BY <1>3, <1>5, <1>7 DEF WaitsAt
    <2>5. output'[c] = IF last /\ mode = "none" THEN Written(c, TRUE) ELSE output[c]
      BY <1>0, <1>1, <1>7 DEF Answer
    <2>6. mode \in {"required", "none"}
      BY DEF Modes
    <2>7. (RoutesAt(c) \cap AuthsAt(c))' = {}
      BY <2>4
    <2>8. \/ /\ output'[c] = output[c]
             /\ WaitsAt(c)' # {} \/ mode = "none" \/ session'[c[1]].status # "open"
          \/ /\ output'[c] = Written(c, TRUE)
             /\ exchanges'[c].mode # "none" \/ exchanges'[c].input_complete
             /\ exchanges'[c].backend = Nil
             /\ WaitsAt(c)' = {}
      <3>1. CASE last /\ mode = "none"
        BY <2>1, <2>2, <2>4, <2>5, <3>1
      <3>2. CASE ~(last /\ mode = "none")
        <4>1. output'[c] = output[c]
          BY <2>5, <3>2
        <4> QED BY <2>4, <2>6, <4>1
      <3> QED BY <3>1, <3>2
    <2>9. /\ WaitsAt(c)' \subseteq {g}
          /\ WaitsAt(c)' # {} => exchanges'[c].mode = "required"
          /\ exchanges'[c].backend # Nil =>
                /\ exchanges'[c].mode # "absent" /\ ~exchanges'[c].input_complete
                /\ RoutesAt(c)' \subseteq {exchanges'[c].backend} /\ AuthsAt(c)' = {}
          /\ AuthsAt(c)' = HeardAt(c)'
      BY <2>1, <2>2, <2>4, <2>6
    <2> HIDE DEF o
    <2> QED BY <1>0, <1>3, <1>7, <2>3, <2>7, <2>8, <2>9, OpenedStream
  <1> QED BY <1>6, <1>7

LEMMA AuthOpenStream ==
    ASSUME StreamsInv, NEW c \in Cells, NEW s \in Sessions, NEW t \in Streams,
           ReceiveAuthOpen(s, t)
    PROVE  StreamGood(c)'
  <1> DEFINE o == <<s, t>>
  <1>0. /\ ExchangesInv /\ InflightTypeOK /\ StreamGood(c) /\ o \in Cells
        /\ exchanges \in [Cells -> Exchange] /\ output \in [Cells -> Ends]
        /\ "required" \in Modes
    BY DEF StreamsInv, ExchangesInv, TypeOK, Cells, Ends, Modes
  <1>1. /\ input' = Opened(o, "required") /\ OpenArrives(s, t, "gateway")
        /\ session' = Claimed(s, t)
        /\ exchanges' = Registered(o, "required", Nil, TRUE)
        /\ \/ /\ \E g \in Fresh : TrackAuth(g, WaitingAuth(s, t, session[s].realm))
              /\ UNCHANGED output
           \/ Answer(o) /\ UNCHANGED inflightVars
    BY DEF ReceiveAuthOpen
  <1>2. /\ SessionSeen(c)
        /\ c # o => input'[c] = input[c]
        /\ c = o =>
              /\ session[c[1]].status = "open" /\ input[c].state # "ended"
              /\ exchanges[c].mode = "absent" /\ exchanges[c].backend = Nil
              /\ Claimable(c)
              /\ IsWss(c[1]) => ~Claimable(c)'
              /\ RoutesAt(c) = {} /\ AuthsAt(c) = {} /\ HeardAt(c) = {}
              /\ input'[c].asked =
                    IF input[c].asked = "nothing" THEN "required" ELSE input[c].asked
    BY <1>1, OpenSeen
  <1>3. \/ \E g \in Handles :
              /\ RoutesAt(c)' = RoutesAt(c)
              /\ AuthsAt(c)' = IF c = o THEN AuthsAt(c) \cup {g} ELSE AuthsAt(c)
              /\ HeardAt(c)' = IF c = o THEN HeardAt(c) \cup {g} ELSE HeardAt(c)
              /\ Routed' = Routed /\ output' = output
        \/ SameTables(c) /\ Routed' = Routed /\ Answer(o)
    <2>1. c = o <=> c[1] = s /\ c[2] = t
      BY <1>0, CellTypes
    <2>2. CASE UNCHANGED inflightVars /\ Answer(o)
      BY <1>0, <2>2, TablesQuiet
    <2>3. ASSUME NEW g \in Fresh, TrackAuth(g, WaitingAuth(s, t, session[s].realm)),
                 UNCHANGED output
          PROVE  \E x \in Handles :
                    /\ RoutesAt(c)' = RoutesAt(c)
                    /\ AuthsAt(c)' = IF c = o THEN AuthsAt(c) \cup {x} ELSE AuthsAt(c)
                    /\ HeardAt(c)' = IF c = o THEN HeardAt(c) \cup {x} ELSE HeardAt(c)
                    /\ Routed' = Routed /\ output' = output
      <3>1. g \in Handles /\ g \notin Authing
        BY FreshUnused
      <3>2. /\ RoutesAt(c)' = RoutesAt(c) /\ Routed' = Routed
            /\ AuthsAt(c)' = IF c = o THEN AuthsAt(c) \cup {g} ELSE AuthsAt(c)
            /\ HeardAt(c)' = IF c = o THEN HeardAt(c) \cup {g} ELSE HeardAt(c)
        BY <1>0, <2>1, <2>3, <3>1, AuthSeen
      <3> QED BY <2>3, <3>1, <3>2
    <2> QED BY <1>1, <2>2, <2>3
  <1>4. CASE c # o
    <2>1. CellSame(c) /\ output'[c] = output[c]
      BY <1>0, <1>1, <1>2, <1>3, <1>4 DEF CellSame, Registered, Answer
    <2>2. SameTables(c) /\ Routed' = Routed
      BY <1>3, <1>4 DEF SameTables
    <2> QED BY <1>0, <1>2, <2>1, <2>2, QuietStream
  <1>5. CASE c = o
    <2>1. exchanges'[c] = [mode |-> "required", backend |-> Nil, input_complete |-> TRUE]
      BY <1>0, <1>1, <1>5 DEF Registered
    <2>2. exchanges'[c] \in Exchange
      BY <2>1 DEF Exchange
    <2>3. \E g \in Handles \cup {Nil} :
             /\ RoutesAt(c)' = {} /\ AuthsAt(c)' = HeardAt(c)' /\ WaitsAt(c)' \subseteq {g}
             /\ \/ WaitsAt(c)' # {} /\ output'[c] = output[c]
                \/ WaitsAt(c)' = {} /\ output'[c] = Written(c, TRUE)
      <3>1. CASE SameTables(c) /\ Answer(o)
        <4>1. RoutesAt(c)' = {} /\ AuthsAt(c)' = {} /\ HeardAt(c)' = {}
          BY <1>2, <1>5, <3>1 DEF SameTables
        <4>2. output'[c] = Written(c, TRUE)
          BY <1>0, <1>5, <3>1 DEF Answer
        <4>3. WaitsAt(c)' = {}
          BY <4>1 DEF WaitsAt
        <4> QED BY <4>1, <4>2, <4>3
      <3>2. CASE ~(SameTables(c) /\ Answer(o))
        <4>1. PICK g \in Handles :
                 /\ RoutesAt(c)' = {} /\ AuthsAt(c)' = {g} /\ HeardAt(c)' = {g}
                 /\ output' = output
          BY <1>2, <1>3, <1>5, <3>2
        <4>2. WaitsAt(c)' = {g}
          BY <4>1 DEF WaitsAt
        <4> QED BY <4>1, <4>2
      <3> QED BY <3>1, <3>2
    <2>4. (RoutesAt(c) \cap AuthsAt(c))' = {}
      BY <2>3
    <2>5. PICK g \in Handles \cup {Nil} :
             /\ RoutesAt(c)' = {} /\ AuthsAt(c)' = HeardAt(c)' /\ WaitsAt(c)' \subseteq {g}
             /\ \/ WaitsAt(c)' # {} /\ output'[c] = output[c]
                \/ WaitsAt(c)' = {} /\ output'[c] = Written(c, TRUE)
      BY <2>3
    <2>6. exchanges'[c].mode = "required" /\ exchanges'[c].backend = Nil
      BY <2>1
    <2> HIDE DEF o
    <2> QED BY <1>0, <1>2, <1>5, <2>2, <2>4, <2>5, <2>6, OpenedStream
  <1> QED BY <1>4, <1>5

-------------------------------------------------------------------------------
(* DATA, FIN, RESET and STOP of a client stream.                           *)

LEMMA HeldElsewhere ==
    ASSUME StreamsInv, Idle, NEW o \in Cells, NEW c \in Cells, c # o,
           exchanges[o].backend # Nil
    PROVE  /\ exchanges[o].backend \notin RoutesAt(c)
           /\ exchanges[c].backend # exchanges[o].backend
  <1>1. phase.who # o[1] /\ o[1] \in Sessions
    BY CellTypes, IdlePhase, InflightAssumption DEF StreamsInv, Idle
  <1>2. /\ \A d \in Cells \ {o} : exchanges[d].backend # exchanges[o].backend
        /\ routes[exchanges[o].backend].target = "client" =>
              CellOf(routes[exchanges[o].backend]) = o
    BY <1>1 DEF StreamsInv, RequestsEndOnce
  <1>3. \A h \in RoutesAt(c) : routes[h].target = "client" /\ CellOf(routes[h]) = c
    BY CellTypes DEF StreamsInv, RoutesAt, Targets, CellOf
  <1> QED BY <1>2, <1>3

LEMMA DataElsewhere ==
    ASSUME StreamsInv, Idle, NEW o \in Cells, NEW c \in Cells, c # o,
           SessionSeen(c), CellSame(c), output'[c] = output[c],
           \/ UNCHANGED inflightVars
           \/ \E h \in Handles : TouchRoute(h)
           \/ exchanges[o].backend \in Handles /\ CloseRoute(exchanges[o].backend)
    PROVE  StreamGood(c)'
  <1>0. ExchangesInv /\ InflightTypeOK /\ StreamGood(c) /\ Nil \notin Handles
    BY InflightAssumption DEF StreamsInv, ExchangesInv, TypeOK
  <1>1. SameTables(c) /\ Routed' \subseteq Routed
    <2>1. CASE UNCHANGED inflightVars \/ (\E h \in Handles : TouchRoute(h))
      BY <1>0, <2>1, TablesQuiet
    <2>2. CASE exchanges[o].backend \in Handles /\ CloseRoute(exchanges[o].backend)
      <3>1. exchanges[o].backend \notin RoutesAt(c)
        BY <1>0, <2>2, HeldElsewhere
      <3>2. /\ AuthsAt(c)' = AuthsAt(c) /\ HeardAt(c)' = HeardAt(c)
            /\ RoutesAt(c)' = RoutesAt(c) \ {exchanges[o].backend}
            /\ Routed' = Routed \ {exchanges[o].backend}
        BY <1>0, <2>2, CloseSeen
      <3> QED BY <3>1, <3>2 DEF SameTables
    <2> QED BY <2>1, <2>2
  <1> QED BY <1>0, <1>1, QuietStream

(* what the exchange of a stream with an open input tells of it *)
LEMMA OpenInput ==
    ASSUME StreamsInv, NEW o \in Cells, session[o[1]].status = "open",
           input[o].state = "open"
    PROVE  /\ exchanges[o].mode \in {"absent", "required", "none"}
           /\ exchanges[o].mode # "required" => WaitsAt(o) = {}
           /\ IsWss(o[1]) /\ exchanges[o].mode # "absent" => ~Claimable(o)
           /\ output[o] # "twice"
           /\ exchanges[o].backend \notin Routed => RoutesAt(o) = {} \/ exchanges[o].backend = Nil
           /\ exchanges[o].backend # Nil =>
                 /\ exchanges[o].mode # "absent" /\ ~exchanges[o].input_complete
                 /\ RoutesAt(o) \subseteq {exchanges[o].backend} /\ AuthsAt(o) = {}
           /\ IsWss(o[1]) /\ (\/ exchanges[o].mode = "none" /\ ~exchanges[o].input_complete
                              \/ exchanges[o].backend \in Routed)
                 => ~Finned(o)
  <1>0. ExchangesInv /\ StreamGood(o) /\ exchanges[o] \in Exchange
    BY CellTypes DEF StreamsInv
  <1>1. exchanges[o].mode # "required" => WaitsAt(o) = {}
    BY <1>0 DEF StreamGood, WaitsPlaced
  <1>2. BackendHeld(o) /\ WssAnswers(o) /\ output[o] # "twice"
    BY <1>0 DEF StreamGood
  <1>3. exchanges[o].mode \in {"absent", "required", "none"}
    BY <1>0 DEF Exchange
  <1>4. RoutesAt(o) \subseteq Routed
    BY <1>0, CellTypes
  <1>5. IsWss(o[1]) /\ exchanges[o].mode # "absent" => ~Claimable(o)
    BY <1>2 DEF WssAnswers
  <1>6. exchanges[o].backend # Nil =>
           /\ exchanges[o].mode # "absent" /\ ~exchanges[o].input_complete
           /\ RoutesAt(o) \subseteq {exchanges[o].backend} /\ AuthsAt(o) = {}
    BY <1>2 DEF BackendHeld
  <1>7. IsWss(o[1]) /\ (\/ exchanges[o].mode = "none" /\ ~exchanges[o].input_complete
                        \/ exchanges[o].backend \in Routed)
           => ~Finned(o)
    BY <1>2 DEF WssAnswers, Answerable
  <1> QED BY <1>1, <1>2, <1>3, <1>4, <1>5, <1>6, <1>7

(* nothing waits for the stream any more *)
LEMMA NothingWaits ==
    ASSUME ExchangesInv, NEW c \in Cells, StreamGood(c), SessionSeen(c),
           session[c[1]].status = "open", WaitsAt(c)' = {},
           input'[c].asked = input[c].asked,
           exchanges'[c].backend # Nil =>
              exchanges'[c].mode # "absent" /\ ~exchanges'[c].input_complete,
           output'[c] # "twice",
           output'[c] = "open" => output[c] = "open" /\ WaitsAt(c) = {},
           IsWss(c[1]) /\ Claimable(c)' => exchanges'[c].mode = "absent",
           IsWss(c[1]) /\ Finned(c)' =>
              /\ exchanges'[c].mode = "none" => exchanges'[c].input_complete
              /\ exchanges'[c].backend \notin Routed'
              /\ ~Claimable(c)'
    PROVE  StreamGood(c)'
  <1>1. RoutesAt(c)' = {} /\ AuthsAt(c)' = {} /\ HeardAt(c)' = {}
    BY DEF WaitsAt, HeardAt
  <1>2. Untouched(c)' /\ BackendHeld(c)' /\ WaitsPlaced(c)' /\ SuppressedIsReset(c)'
    BY <1>1 DEF Untouched, SessionSeen, BackendHeld, WaitsPlaced, SuppressedIsReset
  <1>3. Remembered(c)'
    BY DEF StreamGood, Remembered
  <1>4. WssAnswers(c)'
    BY <1>1 DEF WssAnswers, Answerable, SessionSeen
  <1> QED BY <1>2, <1>3, <1>4 DEF StreamGood

(* what waits for the stream still does, and the exchange ends or gets its *)
(* last frame                                                              *)
LEMMA StillWaits ==
    ASSUME ExchangesInv, NEW c \in Cells, StreamGood(c), SessionSeen(c),
           session[c[1]].status = "open", SameTables(c), Routed' = Routed,
           input'[c].asked = input[c].asked,
           \/ /\ exchanges'[c].mode = exchanges[c].mode
              /\ input'[c].state = input[c].state
              /\ exchanges'[c].backend \in {exchanges[c].backend, Nil}
              /\ exchanges[c].input_complete => exchanges'[c].input_complete
              /\ exchanges'[c].backend # Nil => ~exchanges'[c].input_complete
           \/ exchanges'[c] = NoExchange /\ input'[c].state = "ended",
           \/ output'[c] = output[c]
           \/ output[c] = "open" /\ output'[c] = "reset"
    PROVE  StreamGood(c)'
  <1>0. /\ Nil \notin Routed /\ NoExchange.backend = Nil /\ NoExchange.mode = "absent"
        /\ WaitsAt(c)' = WaitsAt(c)
    BY InflightAssumption DEF Routed, NoExchange, WaitsAt, SameTables
  <1>1. Untouched(c)' /\ output'[c] # "twice"
    BY DEF Untouched, SessionSeen, StreamGood
  <1>2. BackendHeld(c)' /\ WaitsPlaced(c)'
    BY <1>0 DEF StreamGood, BackendHeld, WaitsPlaced, SameTables
  <1>3. SuppressedIsReset(c)' /\ Remembered(c)'
    BY <1>0 DEF StreamGood, SuppressedIsReset, Remembered, SameTables, SessionSeen
  <1>4. Finned(c)' => Finned(c)
    BY DEF Finned
  <1>5. WssAnswers(c)'
    BY <1>0, <1>4 DEF StreamGood, WssAnswers, Answerable, SessionSeen, SameTables
  <1> QED BY <1>1, <1>2, <1>3, <1>5 DEF StreamGood

LEMMA DataStream ==
    ASSUME StreamsInv, NEW c \in Cells, NEW s \in Sessions, NEW t \in Streams,
           NEW last \in BOOLEAN, ReceiveData(s, t, last)
    PROVE  StreamGood(c)'
  <1> DEFINE o == <<s, t>>
             h == exchanges[o].backend
  <1>0. /\ ExchangesInv /\ InflightTypeOK /\ StreamGood(c) /\ o \in Cells
        /\ exchanges \in [Cells -> Exchange] /\ output \in [Cells -> Ends]
        /\ input \in [Cells -> Input] /\ Nil \notin Routed /\ Nil \notin Handles
        /\ Routed \subseteq Handles
    BY InflightAssumption DEF StreamsInv, ExchangesInv, TypeOK, Cells, Ends, Routed
  <1>1. /\ Idle /\ session[s].status = "open" /\ input[o].state = "open"
        /\ input' = [input EXCEPT ![o].frames = @ + 1]
        /\ \/ /\ exchanges[o].mode = "absent"
              /\ UNCHANGED <<inflightVars, session, exchanges, output>>
           \/ /\ CloseTransport(s)
              /\ UNCHANGED <<inflightVars, exchanges, output>>
           \/ /\ h # Nil /\ h \notin Routed /\ exchanges' = Removed(o)
              /\ UNCHANGED <<inflightVars, session, output>>
           \/ /\ h # Nil /\ h \in Routed /\ TouchRoute(h)
              /\ exchanges' = Registered(o, exchanges[o].mode, KeptHandle(h, last), last)
              /\ IF last /\ exchanges[o].mode = "none" THEN Answer(o) ELSE UNCHANGED output
              /\ UNCHANGED session
           \/ /\ h # Nil /\ h \in Routed /\ CloseRoute(h)
              /\ exchanges' = Removed(o) /\ Answer(o)
              /\ UNCHANGED session
    BY DEF ReceiveData, FrameArrives
  <1>2. SessionSeen(c)
    <2>1. CASE UNCHANGED session
      BY <2>1, SessionsUnchanged
    <2>2. CASE CloseTransport(s)
      BY <1>0, <1>1, <2>2, ShutSeen
    <2> QED BY <1>1, <2>1, <2>2
  <1>3. CASE c # o
    <2>1. CellSame(c) /\ output'[c] = output[c]
      BY <1>0, <1>1, <1>3 DEF CellSame, Removed, Registered, Answer
    <2>2. \/ UNCHANGED inflightVars
          \/ \E x \in Handles : TouchRoute(x)
          \/ h \in Handles /\ CloseRoute(h)
      BY <1>0, <1>1
    <2> QED BY <1>0, <1>1, <1>2, <1>3, <2>1, <2>2, DataElsewhere
  <1>4. CASE c = o
    <2>0. /\ session[c[1]].status = "open" /\ input[c].state = "open"
          /\ input'[c].asked = input[c].asked /\ input'[c].state = input[c].state
          /\ exchanges[c] \in Exchange
      BY <1>0, <1>1, <1>4 DEF Input
    <2>1. /\ exchanges[c].mode # "required" => WaitsAt(c) = {}
          /\ IsWss(c[1]) /\ exchanges[c].mode # "absent" => ~Claimable(c)
          /\ output[c] # "twice"
          /\ h \notin Routed => RoutesAt(c) = {} \/ h = Nil
          /\ h # Nil =>
                /\ exchanges[c].mode # "absent" /\ ~exchanges[c].input_complete
                /\ RoutesAt(c) \subseteq {h} /\ AuthsAt(c) = {}
          /\ IsWss(c[1]) /\ (\/ exchanges[c].mode = "none" /\ ~exchanges[c].input_complete
                             \/ h \in Routed)
                => ~Finned(c)
      BY <1>4, <2>0, OpenInput
    <2>2. IsWss(c[1]) /\ Claimable(c)' => Claimable(c)
      BY <1>2 DEF SessionSeen
    <2>3. Answer(o) => output'[c] = Written(c, TRUE)
      BY <1>0, <1>4 DEF Answer
    <2>4. (IsWss(c[1]) => ~Finned(c)) => Written(c, TRUE) \notin {"twice", "open"}
      BY <1>0, <2>0, <2>1, EndedOnce
    <2>5. BackendHeld(c)
      BY <1>0 DEF StreamGood
    <2>6. CASE UNCHANGED <<inflightVars, exchanges, output>>
      <3>1. SameTables(c) /\ Routed' = Routed
        BY <1>0, <2>6, TablesQuiet
      <3> QED BY <1>0, <1>2, <2>0, <2>1, <2>5, <2>6, <3>1, StillWaits DEF BackendHeld
    <2>7. CASE /\ h # Nil /\ h \notin Routed /\ exchanges' = Removed(o)
               /\ UNCHANGED <<inflightVars, session, output>>
      <3>1. SameTables(c) /\ Routed' = Routed
        BY <1>0, <2>7, TablesQuiet
      <3>2. WaitsAt(c) = {} /\ WaitsAt(c)' = {}
        BY <2>1, <2>7, <3>1 DEF WaitsAt, SameTables
      <3>3. exchanges'[c] = NoExchange
        BY <1>0, <1>4, <2>7 DEF Removed
      <3> QED BY <1>0, <1>2, <1>4, <2>0, <2>1, <2>2, <2>7, <3>1, <3>2, <3>3, NothingWaits
              DEF NoExchange
    <2>8. CASE /\ h # Nil /\ h \in Routed /\ TouchRoute(h)
               /\ exchanges' = Registered(o, exchanges[o].mode, KeptHandle(h, last), last)
               /\ IF last /\ exchanges[o].mode = "none" THEN Answer(o) ELSE UNCHANGED output
      <3>1. SameTables(c) /\ Routed' = Routed
        BY <1>0, <2>8, TablesQuiet
      <3>2. /\ exchanges'[c].mode = exchanges[c].mode
            /\ exchanges'[c].backend = IF last THEN Nil ELSE exchanges[c].backend
            /\ exchanges'[c].input_complete = last
        BY <1>0, <1>4, <2>8 DEF Registered, KeptHandle
      <3>3. CASE last /\ exchanges[o].mode = "none"
        <4>1. WaitsAt(c) = {} /\ WaitsAt(c)' = {}
          BY <1>4, <2>1, <3>1, <3>3 DEF WaitsAt, SameTables
        <4>2. output'[c] \notin {"twice", "open"}
          BY <1>4, <2>1, <2>3, <2>4, <2>8, <3>3
        <4>3. IsWss(c[1]) => ~Claimable(c)'
          BY <2>1, <2>2, <2>8, <1>4
        <4> QED BY <1>0, <1>2, <2>0, <3>1, <3>2, <3>3, <4>1, <4>2, <4>3, NothingWaits
      <3>4. CASE ~(last /\ exchanges[o].mode = "none")
        <4>1. output'[c] = output[c]
          BY <2>8, <3>4
        <4>2. ~exchanges[c].input_complete
          BY <1>4, <2>1, <2>8
        <4>3. CASE last
          BY <1>0, <1>2, <2>0, <3>1, <3>2, <4>1, <4>2, <4>3, StillWaits
        <4>4. CASE ~last
          BY <1>0, <1>2, <2>0, <3>1, <3>2, <4>1, <4>2, <4>4, StillWaits
        <4> QED BY <4>3, <4>4
      <3> QED BY <3>3, <3>4
    <2>9. CASE /\ h # Nil /\ h \in Routed /\ CloseRoute(h)
               /\ exchanges' = Removed(o) /\ Answer(o)
      <3>1. AuthsAt(c)' = {} /\ RoutesAt(c)' = {} /\ Routed' = Routed \ {h}
        <4>1. AuthsAt(c)' = AuthsAt(c) /\ RoutesAt(c)' = RoutesAt(c) \ {h}
              /\ Routed' = Routed \ {h}
          BY <1>0, <2>9, CloseSeen
        <4> QED BY <2>1, <2>9, <4>1
      <3>2. WaitsAt(c)' = {}
        BY <3>1 DEF WaitsAt
      <3>3. exchanges'[c] = NoExchange /\ Nil \notin Routed'
        BY <1>0, <1>4, <2>9, <3>1 DEF Removed
      <3>4. output'[c] \notin {"twice", "open"}
        BY <2>1, <2>3, <2>4, <2>9
      <3>5. IsWss(c[1]) => ~Claimable(c)'
        BY <2>1, <2>2, <2>9, <1>4
      <3>6. exchanges'[c].backend = Nil /\ exchanges'[c].mode = "absent"
        BY <3>3 DEF NoExchange
      <3>7. input'[c].asked = input[c].asked /\ session[c[1]].status = "open"
        BY <2>0
      <3> QED BY <1>0, <1>2, <3>2, <3>3, <3>4, <3>5, <3>6, <3>7, NothingWaits
    <2> QED BY <1>1, <2>6, <2>7, <2>8, <2>9
  <1> QED BY <1>3, <1>4

LEMMA EndStream ==
    ASSUME StreamsInv, NEW c \in Cells, NEW s \in Sessions, NEW t \in Streams,
           ReceiveFin(s, t) \/ ReceiveReset(s, t)
    PROVE  StreamGood(c)'
  <1> DEFINE o == <<s, t>>
             h == exchanges[o].backend
  <1>0. /\ ExchangesInv /\ InflightTypeOK /\ StreamGood(c) /\ o \in Cells
        /\ exchanges \in [Cells -> Exchange] /\ output \in [Cells -> Ends]
        /\ input \in [Cells -> Input] /\ Nil \notin Routed /\ Nil \notin Handles
    BY InflightAssumption DEF StreamsInv, ExchangesInv, TypeOK, Cells, Ends, Routed
  <1>1. /\ Idle /\ session[s].status = "open" /\ input[o].state = "open"
        /\ input' = [input EXCEPT ![o] = [@ EXCEPT !.state = "ended", !.frames = 0]]
        /\ exchanges' = Removed(o)
        /\ UNCHANGED session
        /\ \/ /\ UNCHANGED inflightVars
              /\ \/ ClosesOutput(exchanges[o]) /\ Answer(o)
                 \/ UNCHANGED output
                 \/ Reset(o)
           \/ /\ h # Nil /\ CloseRoute(h)
              /\ IF exchanges[o].input_complete THEN UNCHANGED output ELSE Reset(o)
    BY DEF ReceiveFin, ReceiveReset
  <1>2. SessionSeen(c)
    BY <1>1, SessionsUnchanged
  <1>3. h # Nil => h \in Handles
    <2>1. exchanges[o] \in Exchange
      BY <1>0
    <2> QED BY <2>1 DEF Exchange
  <1>4. CASE c # o
    <2>1. CellSame(c) /\ output'[c] = output[c]
      BY <1>0, <1>1, <1>4 DEF CellSame, Removed, Answer, Reset
    <2> QED BY <1>0, <1>1, <1>2, <1>3, <1>4, <2>1, DataElsewhere
  <1>5. CASE c = o
    <2>0. /\ session[c[1]].status = "open" /\ input[c].state = "open"
          /\ input'[c].asked = input[c].asked /\ input'[c].state = "ended"
          /\ exchanges[c] \in Exchange /\ exchanges'[c] = NoExchange
      BY <1>0, <1>1, <1>5 DEF Input, Removed
    <2>1. /\ exchanges[c].mode # "required" => WaitsAt(c) = {}
          /\ IsWss(c[1]) /\ exchanges[c].mode # "absent" => ~Claimable(c)
          /\ output[c] # "twice"
          /\ h # Nil =>
                /\ exchanges[c].mode # "absent" /\ ~exchanges[c].input_complete
                /\ RoutesAt(c) \subseteq {h} /\ AuthsAt(c) = {}
          /\ IsWss(c[1]) /\ exchanges[c].mode = "none" /\ ~exchanges[c].input_complete
                => ~Finned(c)
      BY <1>5, <2>0, OpenInput
    <2>2. IsWss(c[1]) /\ Claimable(c)' => Claimable(c)
      BY <1>2 DEF SessionSeen
    <2>3. Reset(o) => output'[c] = IF output[c] = "open" THEN "reset" ELSE output[c]
      BY <1>0, <1>5, <2>0 DEF Reset
    <2>4. NoExchange.backend = Nil /\ NoExchange.mode = "absent"
      BY DEF NoExchange
    <2>5. CASE UNCHANGED inflightVars
      <3>1. SameTables(c) /\ Routed' = Routed
        BY <1>0, <2>5, TablesQuiet
      <3>2. CASE UNCHANGED output \/ Reset(o)
        <4>1. \/ output'[c] = output[c]
              \/ output[c] = "open" /\ output'[c] = "reset"
          BY <2>3, <3>2
        <4> QED BY <1>0, <1>2, <2>0, <3>1, <4>1, StillWaits
      <3>3. CASE ClosesOutput(exchanges[o]) /\ Answer(o)
        <4>1. exchanges[c].mode = "none" /\ ~exchanges[c].input_complete
          BY <1>5, <3>3 DEF ClosesOutput
        <4>2. WaitsAt(c) = {} /\ WaitsAt(c)' = {}
          BY <2>1, <3>1, <4>1 DEF WaitsAt, SameTables
        <4>3. output'[c] = Written(c, TRUE)
          BY <1>0, <1>5, <3>3 DEF Answer
        <4>4. output'[c] \notin {"twice", "open"}
          BY <1>0, <2>0, <2>1, <4>1, <4>3, EndedOnce
        <4>5. IsWss(c[1]) => ~Claimable(c)'
          BY <2>1, <2>2, <4>1
        <4>6. exchanges'[c].backend = Nil /\ exchanges'[c].mode = "absent"
          BY <2>0, <2>4
        <4> QED BY <1>0, <1>2, <2>0, <3>1, <4>2, <4>4, <4>5, <4>6, NothingWaits
      <3> QED BY <1>1, <1>0, <1>3, <2>5, <3>2, <3>3, <2>1, <1>5
    <2>6. CASE /\ h # Nil /\ CloseRoute(h)
               /\ IF exchanges[o].input_complete THEN UNCHANGED output ELSE Reset(o)
      <3>1. AuthsAt(c)' = {} /\ RoutesAt(c)' = {} /\ Routed' = Routed \ {h}
        <4>1. AuthsAt(c)' = AuthsAt(c) /\ RoutesAt(c)' = RoutesAt(c) \ {h}
              /\ Routed' = Routed \ {h}
          BY <1>0, <1>3, <2>6, CloseSeen
        <4> QED BY <2>1, <2>6, <4>1
      <3>2. WaitsAt(c)' = {}
        BY <3>1 DEF WaitsAt
      <3>3. Nil \notin Routed'
        BY <1>0, <3>1
      <3>4. output'[c] \notin {"twice", "open"}
        BY <1>5, <2>1, <2>3, <2>6
      <3>5. IsWss(c[1]) => ~Claimable(c)'
        BY <2>1, <2>2, <2>6, <1>5
      <3>6. exchanges'[c].backend = Nil /\ exchanges'[c].mode = "absent"
        BY <2>0, <2>4
      <3> QED BY <1>0, <1>2, <2>0, <3>2, <3>3, <3>4, <3>5, <3>6, NothingWaits
    <2> QED BY <1>1, <2>5, <2>6
  <1> QED BY <1>4, <1>5

LEMMA StopStream ==
    ASSUME StreamsInv, NEW c \in Cells, NEW s \in Sessions, NEW t \in Streams,
           ReceiveStop(s, t)
    PROVE  StreamGood(c)'
  <1> DEFINE o == <<s, t>>
  <1>0. /\ ExchangesInv /\ InflightTypeOK /\ StreamGood(c) /\ o \in Cells
        /\ output \in [Cells -> Ends]
        /\ (c = o <=> c[1] = s /\ c[2] = t)
    <2>1. ExchangesInv /\ StreamGood(c)
      BY DEF StreamsInv
    <2>2. InflightTypeOK /\ output \in [Cells -> Ends]
      BY <2>1 DEF ExchangesInv, TypeOK
    <2>3. o \in Cells /\ c = <<c[1], c[2]>>
      BY DEF Cells
    <2> QED BY <2>1, <2>2, <2>3
  <1>1. /\ session[s].status = "open" /\ Suppress(s, t) /\ Reset(o)
        /\ UNCHANGED <<session, exchanges, input>>
    BY DEF ReceiveStop
  <1>2. SessionSeen(c)
    BY <1>1, SessionsUnchanged
  <1>3. /\ Routed' = Routed /\ AuthsAt(c)' = AuthsAt(c)
        /\ IF c[1] = s /\ c[2] = t THEN RoutesAt(c)' = {} /\ HeardAt(c)' = {}
                                   ELSE SameTables(c)
    BY <1>0, <1>1, SuppressSeen
  <1>4. CASE c # o
    <2>1. CellSame(c) /\ output'[c] = output[c]
      BY <1>0, <1>1, <1>4 DEF CellSame, Reset
    <2> QED BY <1>0, <1>2, <1>3, <1>4, <2>1, QuietStream
  <1>5. CASE c = o
    <2>1. output'[c] = IF output[c] = "open" THEN "reset" ELSE output[c]
      BY <1>0, <1>1, <1>5 DEF Reset
    <2>2. RoutesAt(c)' = {} /\ HeardAt(c)' = {} /\ AuthsAt(c)' = AuthsAt(c)
      BY <1>0, <1>3, <1>5
    <2>3. WaitsAt(c)' = AuthsAt(c)
      BY <2>2 DEF WaitsAt
    <2>4. output'[c] # "twice" /\ output'[c] # "open"
          /\ (Finned(c)' => Finned(c))
      BY <1>0, <2>1 DEF StreamGood, Finned
    <2>5. Untouched(c)' /\ Remembered(c)' /\ SuppressedIsReset(c)'
      BY <1>0, <1>1, <1>5, <2>4 DEF Untouched, Remembered, SuppressedIsReset
    <2>6. BackendHeld(c)' /\ WaitsPlaced(c)'
      BY <1>0, <1>1, <2>2, <2>3 DEF StreamGood, BackendHeld, WaitsPlaced, WaitsAt
    <2>7. WssAnswers(c)'
      BY <1>0, <1>1, <1>2, <1>3, <2>2, <2>3, <2>4
         DEF StreamGood, WssAnswers, Answerable, SessionSeen, WaitsAt
    <2> QED BY <2>4, <2>5, <2>6, <2>7 DEF StreamGood
  <1> QED BY <1>4, <1>5

-------------------------------------------------------------------------------
(* Sessions that come and go.                                              *)

LEMMA AcceptStream ==
    ASSUME StreamsInv, NEW c \in Cells, NEW s \in Sessions, NEW realm \in Realms,
           NEW b \in Bindings, AcceptSession(s, realm, b)
    PROVE  StreamGood(c)'
  <1>0. /\ ExchangesInv /\ InflightTypeOK /\ StreamGood(c) /\ session \in [Sessions -> Session]
        /\ c[1] \in Sessions
    BY CellTypes DEF StreamsInv, ExchangesInv, TypeOK
  <1>1. /\ session[s].status = "absent" /\ UNCHANGED <<inflightVars, exchanges, input, output>>
        /\ session' = [session EXCEPT ![s] =
                          [NoSession EXCEPT !.status = "open", !.binding = b, !.realm = realm]]
    BY DEF AcceptSession, clientVars
  <1>2. SameTables(c) /\ Routed' = Routed
    BY <1>0, <1>1, TablesQuiet
  <1>3. CASE c[1] # s
    <2>1. session'[c[1]] = session[c[1]]
      BY <1>0, <1>1, <1>3
    <2>2. SessionSeen(c)
      BY <2>1 DEF SessionSeen, IsWss, Claimable, ClaimInboundExchange
    <2> QED BY <1>0, <1>1, <1>2, <2>2, QuietStream DEF CellSame
  <1>4. CASE c[1] = s
    <2>1. exchanges[c] = NoExchange /\ input[c] = UnusedInput /\ output[c] = "open"
      BY <1>0, <1>1, <1>4 DEF StreamGood, Untouched
    <2>2. WaitsAt(c) = {}
      BY <1>0, <1>1, <1>4 DEF ExchangesInv, EntriesNameLiveSessions, WaitsAt, RoutesAt, AuthsAt,
         Targets
    <2>3. RoutesAt(c)' = {} /\ AuthsAt(c)' = {} /\ HeardAt(c)' = {} /\ WaitsAt(c)' = {}
      BY <1>2, <2>2 DEF WaitsAt, SameTables, HeardAt
    <2>4. session'[c[1]].status = "open"
      BY <1>0, <1>1, <1>4 DEF NoSession
    <2>5. /\ exchanges'[c].mode = "absent" /\ exchanges'[c].backend = Nil
          /\ input'[c].asked = "nothing" /\ output'[c] = "open"
      BY <1>1, <2>1 DEF NoExchange, UnusedInput
    <2> QED BY <2>3, <2>4, <2>5
            DEF StreamGood, Untouched, BackendHeld, WaitsPlaced, SuppressedIsReset, WssAnswers,
                Finned,
                Remembered
  <1> QED BY <1>3, <1>4

LEMMA RemoveStream ==
    ASSUME StreamsInv, NEW c \in Cells, RemoveSession
    PROVE  StreamGood(c)'
  <1> DEFINE s == phase.who
  <1>0. /\ ExchangesInv /\ InflightTypeOK /\ StreamGood(c) /\ session \in [Sessions -> Session]
        /\ c[1] \in Sessions /\ RoutesAt(c) \subseteq Routed /\ AuthsAt(c) \subseteq Authing
    BY CellTypes DEF StreamsInv, ExchangesInv, TypeOK
  <1>1. /\ UNCHANGED inflightVars /\ OwnedRoutes(s) = {} /\ OwnedAuths(s) = {}
        /\ session' = [session EXCEPT ![s] = NoSession]
        /\ exchanges'[c] = IF c[1] = s THEN NoExchange ELSE exchanges[c]
        /\ input'[c] = IF c[1] = s THEN UnusedInput ELSE input[c]
        /\ output'[c] = IF c[1] = s THEN "open" ELSE output[c]
    BY DEF RemoveSession
  <1> HIDE DEF s
  <1>2. SameTables(c) /\ Routed' = Routed
    BY <1>0, <1>1, TablesQuiet
  <1>3. CASE c[1] # s
    <2>1. session'[c[1]] = session[c[1]]
      BY <1>0, <1>1, <1>3
    <2>2. SessionSeen(c)
      BY <2>1 DEF SessionSeen, IsWss, Claimable, ClaimInboundExchange
    <2> QED BY <1>0, <1>1, <1>2, <1>3, <2>2, QuietStream DEF CellSame
  <1>4. CASE c[1] = s
    <2>1. WaitsAt(c) = {}
      BY <1>0, <1>1, <1>4 DEF OwnedRoutes, OwnedAuths, WaitsAt, RoutesAt, AuthsAt, Targets
    <2>2. RoutesAt(c)' = {} /\ AuthsAt(c)' = {} /\ HeardAt(c)' = {} /\ WaitsAt(c)' = {}
      BY <1>2, <2>1 DEF WaitsAt, SameTables, HeardAt
    <2>3. session'[c[1]].status = "absent" /\ ~IsWss(c[1])'
      <3>1. session'[c[1]] = NoSession
        BY <1>0, <1>1, <1>4
      <3> QED BY <3>1 DEF NoSession, IsWss
    <2>4. /\ exchanges'[c].mode = "absent" /\ exchanges'[c].backend = Nil
          /\ exchanges'[c] = NoExchange /\ input'[c] = UnusedInput /\ output'[c] = "open"
      BY <1>1, <1>4 DEF NoExchange
    <2> QED BY <2>2, <2>3, <2>4
            DEF StreamGood, Untouched, BackendHeld, WaitsPlaced, SuppressedIsReset, WssAnswers,
                Remembered
  <1> QED BY <1>3, <1>4

LEMMA PurgeStream ==
    ASSUME StreamsInv, NEW c \in Cells, NEW h \in Handles, Purge(h)
    PROVE  StreamGood(c)'
  <1>0. ExchangesInv /\ StreamGood(c) /\ session[phase.who].status # "open"
    BY DEF StreamsInv, ClosingMarked, Purge
  <1>1. SessionSeen(c) /\ CellSame(c) /\ UNCHANGED output
    BY SessionsUnchanged DEF Purge, CellSame, clientVars
  <1>2. CASE h \in OwnedRoutes(phase.who) /\ CloseRoute(h)
    <2>1. h \in Routed /\ (h \in RoutesAt(c) => c[1] = phase.who)
      BY <1>2 DEF OwnedRoutes, RoutesAt, Targets
    <2> QED BY <1>0, <1>1, <1>2, <2>1, RouteAnswered
  <1>3. CASE h \in OwnedAuths(phase.who) /\ DropAuth(h)
    <2>1. h \in Authing /\ (h \in AuthsAt(c) => c[1] = phase.who)
      BY <1>3 DEF OwnedAuths, AuthsAt, Targets
    <2> QED BY <1>0, <1>1, <1>3, <2>1, AuthAnswered
  <1> QED BY <1>2, <1>3 DEF Purge

-------------------------------------------------------------------------------
(* Responses, failures and expiry.                                         *)

LEMMA AnsweredStream ==
    ASSUME StreamsInv, NEW c \in Cells,
           \/ DrainControl
           \/ \E h \in Handles : FailEntry(h) \/ Expire(h)
    PROVE  StreamGood(c)'
  <1>0. ExchangesInv /\ InflightTypeOK /\ StreamGood(c)
    BY DEF StreamsInv, ExchangesInv, TypeOK
  <1>1. SessionSeen(c) /\ CellSame(c)
    BY SessionsUnchanged DEF DrainControl, FailEntry, Expire, TakeEvent, CellSame
  <1>2. \/ \E h \in Routed : AnswerRoute(h) /\ CloseRoute(h)
        \/ \E h \in Authing : AnswerAuth(h) /\ DropAuth(h)
        \/ UNCHANGED <<inflightVars, output>>
    BY DEF DrainControl, FailEntry, Expire, ExpiredRoutes, ExpiredAuths
  <1>3. CASE \E h \in Routed : AnswerRoute(h) /\ CloseRoute(h)
    BY <1>0, <1>1, <1>3, RouteAnswered
  <1>4. CASE \E h \in Authing : AnswerAuth(h) /\ DropAuth(h)
    BY <1>0, <1>1, <1>4, AuthAnswered
  <1>5. CASE UNCHANGED <<inflightVars, output>>
    <2>1. SameTables(c) /\ Routed' = Routed
      BY <1>0, <1>5, TablesQuiet
    <2> QED BY <1>0, <1>1, <1>5, <2>1, QuietStream
  <1> QED BY <1>2, <1>3, <1>4, <1>5

LEMMA VerdictStream ==
    ASSUME StreamsInv, NEW c \in Cells, DrainAuth
    PROVE  StreamGood(c)'
  <1> DEFINE h == Front.handle
             s == auths[h].session
  <1>0. ExchangesInv /\ InflightTypeOK /\ StreamGood(c) /\ Authing \subseteq Handles
    BY DEF StreamsInv, ExchangesInv, TypeOK, Authing
  <1>1. /\ h \in Authing /\ CellSame(c)
        /\ \/ UNCHANGED <<inflightVars, session, output>>
           \/ /\ DropAuth(h) /\ AnswerAuth(h)
              /\ \/ UNCHANGED session
                 \/ \E dest \in DestIds \cup {0} :
                       session' = [session EXCEPT ![s] = Authenticated(@, dest)]
                 \/ CloseTransport(s)
    BY DEF DrainAuth, TakeEvent, CellSame
  <1>2. s \in Sessions /\ session[s].status # "absent"
    <2>1. auths[h].target = "client"
      BY <1>0, <1>1 DEF Authing, InflightTypeOK, PendingAuth
    <2> QED BY <1>0, <1>1, <2>1 DEF ExchangesInv, EntriesPlaced, EntriesNameLiveSessions
  <1> HIDE DEF h, s
  <1>3. SessionSeen(c)
    <2>1. CASE UNCHANGED session
      BY <2>1, SessionsUnchanged
    <2>2. CASE CloseTransport(s)
      BY <1>0, <1>2, <2>2, ShutSeen
    <2>3. ASSUME NEW dest \in DestIds \cup {0},
                 session' = [session EXCEPT ![s] = Authenticated(@, dest)]
          PROVE  SessionSeen(c)
      <3>1. session[s] \in Session
        BY <1>0, <1>2 DEF ExchangesInv, TypeOK
      <3>2. /\ Authenticated(session[s], dest).status = session[s].status
            /\ Authenticated(session[s], dest).binding = session[s].binding
            /\ Authenticated(session[s], dest).claimed = session[s].claimed
        BY <3>1 DEF Authenticated, Session
      <3>3. session' = [session EXCEPT ![s] = Authenticated(session[s], dest)]
        BY <2>3
      <3> QED BY <1>0, <3>2, <3>3, RecordSeen
    <2> QED BY <1>1, <2>1, <2>2, <2>3
  <1>4. CASE UNCHANGED <<inflightVars, session, output>>
    <2>1. SameTables(c) /\ Routed' = Routed
      BY <1>0, <1>4, TablesQuiet
    <2> QED BY <1>0, <1>1, <1>3, <1>4, <2>1, QuietStream
  <1>5. CASE DropAuth(h) /\ AnswerAuth(h)
    BY <1>0, <1>1, <1>3, <1>5, AuthAnswered
  <1> QED BY <1>1, <1>4, <1>5

LEMMA ResponseStream ==
    ASSUME StreamsInv, NEW c \in Cells, DrainRoute
    PROVE  StreamGood(c)'
  <1> DEFINE h == Front.handle
             o == CellOf(routes[h])
  <1>0. /\ ExchangesInv /\ InflightTypeOK /\ StreamGood(c) /\ Routed \subseteq Handles
        /\ output \in [Cells -> Ends]
    BY DEF StreamsInv, ExchangesInv, TypeOK, Routed, Ends
  <1>1. /\ h \in Routed /\ CellSame(c) /\ SessionSeen(c)
        /\ \/ /\ routes[h].target = "discard" /\ UNCHANGED output
              /\ CloseRoute(h) \/ TouchRoute(h)
           \/ /\ routes[h].target = "client" /\ output' = [output EXCEPT ![o] = Written(o, TRUE)]
              /\ CloseRoute(h)
           \/ /\ routes[h].target = "client" /\ output' = [output EXCEPT ![o] = Written(o, FALSE)]
              /\ TouchRoute(h)
           \/ /\ routes[h].target = "client" /\ CloseRoute(h) /\ UNCHANGED output
              /\ WriteMayFail(o)
    <2> DEFINE fin == Front.kind = "fin"
    <2>1. /\ h \in Routed /\ UNCHANGED <<session, exchanges, input>>
          /\ \/ /\ routes[h].target = "discard" /\ UNCHANGED output
                /\ CloseRoute(h) \/ TouchRoute(h)
             \/ /\ routes[h].target = "client" /\ output' = [output EXCEPT ![o] = Written(o, fin)]
                /\ IF fin THEN CloseRoute(h) ELSE TouchRoute(h)
             \/ /\ routes[h].target = "client" /\ CloseRoute(h) /\ UNCHANGED output
                /\ WriteMayFail(o)
      BY DEF DrainRoute, TakeEvent
    <2>2. CellSame(c) /\ SessionSeen(c)
      BY <2>1, SessionsUnchanged DEF CellSame
    <2>3. Written(o, fin) = IF fin THEN Written(o, TRUE) ELSE Written(o, FALSE)
      BY DEF Written
    <2> HIDE DEF h, o, fin
    <2> QED BY <2>1, <2>2, <2>3
  <1>2. h \in RoutesAt(c) <=> routes[h].target = "client" /\ o = c
    BY <1>0, <1>1, CellTypes DEF RoutesAt, Targets, CellOf
  <1> HIDE DEF h
  <1>3. CASE routes[h].target = "discard" /\ UNCHANGED output /\ CloseRoute(h)
    BY <1>0, <1>1, <1>2, <1>3, RouteAnswered
  <1>4. CASE routes[h].target = "client" /\ CloseRoute(h)
             /\ output' = [output EXCEPT ![o] = Written(o, TRUE)]
    <2>1. AnswerRoute(h)
      BY <1>4 DEF AnswerRoute, Answer
    <2> QED BY <1>0, <1>1, <1>4, <2>1, RouteAnswered
  <1>5. CASE routes[h].target = "client" /\ CloseRoute(h) /\ UNCHANGED output
             /\ WriteMayFail(o)
    <2>1. h \in RoutesAt(c) => session[c[1]].status # "open" \/ output[c] # "open"
      BY <1>2, <1>5 DEF WriteMayFail
    <2> QED BY <1>0, <1>1, <1>5, <2>1, RouteAnswered
  <1>6. CASE /\ TouchRoute(h)
             /\ \/ UNCHANGED output
                \/ /\ routes[h].target = "client"
                   /\ output' = [output EXCEPT ![o] = Written(o, FALSE)]
    <2>1. SameTables(c) /\ Routed' = Routed
      BY <1>0, <1>1, <1>6, TablesQuiet
    <2>2. output'[c] = output[c] \/ EndKept(c)
      <3>1. CASE UNCHANGED output \/ o # c
        BY <1>0, <1>6, <3>1
      <3>2. CASE routes[h].target = "client" /\ o = c
        <4>1. h \in RoutesAt(c)
          BY <1>2, <3>2
        <4>2. output[c] # "twice" /\ (IsWss(c[1]) => ~Finned(c))
          BY <1>0, <4>1 DEF StreamGood, WssAnswers, Answerable
        <4> QED BY <1>0, <1>6, <3>2, <4>2, EndedOnce
      <3> QED BY <1>6, <3>1, <3>2
    <2> QED BY <1>0, <1>1, <2>1, <2>2, QuietStream
  <1> QED BY <1>1, <1>3, <1>4, <1>5, <1>6

-------------------------------------------------------------------------------
(* Every step keeps every client stream good.                              *)

LEMMA AdmissionSeen ==
    ASSUME ExchangesInv, NEW c \in Cells, NEW s \in Sessions, session[s].status # "absent",
           \/ CloseTransport(s)
           \/ session' = [session EXCEPT ![s] = Revoked(@)]
           \/ session' = [session EXCEPT ![s].lapsed = TRUE]
           \/ \E k : session' = [session EXCEPT ![s] =
                                    [Revoked(@) EXCEPT !.kicked = k, !.status = "closing"]]
    PROVE  SessionSeen(c)
  <1>0. session[s] \in Session /\ session \in [Sessions -> Session]
    BY DEF ExchangesInv, TypeOK
  <1>1. CASE CloseTransport(s)
    BY <1>1, ShutSeen
  <1>2. ASSUME NEW rec, session' = [session EXCEPT ![s] = rec],
               rec.status = session[s].status \/ rec.status = "closing",
               rec.binding = session[s].binding, rec.claimed = session[s].claimed
        PROVE  SessionSeen(c)
    BY <1>2, RecordSeen
  <1>3. CASE session' = [session EXCEPT ![s] = Revoked(@)]
    <2>1. /\ Revoked(session[s]).status = session[s].status
          /\ Revoked(session[s]).binding = session[s].binding
          /\ Revoked(session[s]).claimed = session[s].claimed
      BY <1>0 DEF Revoked, Session
    <2>2. session' = [session EXCEPT ![s] = Revoked(session[s])]
      BY <1>3
    <2> QED BY <1>2, <2>1, <2>2
  <1>4. CASE session' = [session EXCEPT ![s].lapsed = TRUE]
    <2> DEFINE rec == [session[s] EXCEPT !.lapsed = TRUE]
    <2>1. rec.status = session[s].status /\ rec.binding = session[s].binding
          /\ rec.claimed = session[s].claimed
      BY <1>0 DEF Session
    <2>2. session' = [session EXCEPT ![s] = rec]
      BY <1>4
    <2> HIDE DEF rec
    <2> QED BY <1>2, <2>1, <2>2
  <1>5. ASSUME NEW k, session' = [session EXCEPT ![s] =
                                     [Revoked(@) EXCEPT !.kicked = k, !.status = "closing"]]
        PROVE  SessionSeen(c)
    <2> DEFINE rec == [Revoked(session[s]) EXCEPT !.kicked = k, !.status = "closing"]
    <2>1. rec.status = "closing" /\ rec.binding = session[s].binding
          /\ rec.claimed = session[s].claimed
      BY <1>0 DEF Revoked, Session
    <2>2. session' = [session EXCEPT ![s] = rec]
      BY <1>5
    <2> HIDE DEF rec
    <2> QED BY <1>2, <2>1, <2>2
  <1> QED BY <1>1, <1>3, <1>4, <1>5

LEMMA StreamSteps ==
    ASSUME StreamsInv, [Next]_vars, NEW c \in Cells
    PROVE  StreamGood(c)'
  <1>0. ExchangesInv /\ InflightTypeOK /\ StreamGood(c)
    BY DEF StreamsInv, ExchangesInv, TypeOK
  <1>1. ASSUME SessionSeen(c), CellSame(c), output' = output,
               UNCHANGED inflightVars \/ Age \/ RefreshExpiryDeadline
        PROVE  StreamGood(c)'
    <2>1. SameTables(c) /\ Routed' = Routed
      BY <1>0, <1>1, TablesQuiet
    <2> QED BY <1>0, <1>1, <2>1, QuietStream
  <1>2. \A s \in Sessions : session[s].authenticated => session[s].status # "absent"
    BY <1>0 DEF ExchangesInv, SessionsOK
  <1>3. CASE ClientNext
    <2>0. PICK s \in Sessions :
             \/ \E realm \in Realms, b \in Bindings : AcceptSession(s, realm, b)
             \/ TransportFails(s) \/ CloseSession(s)
             \/ \E t \in Streams : StreamNext(s, t)
      BY <1>3 DEF ClientNext
    <2>1. CASE \E realm \in Realms, b \in Bindings : AcceptSession(s, realm, b)
      BY <2>1, AcceptStream
    <2>2. CASE TransportFails(s) \/ CloseSession(s)
      <3>1. /\ session[s].status # "absent" /\ CellSame(c) /\ output' = output
            /\ UNCHANGED inflightVars
            /\ CloseTransport(s)
        BY <2>2 DEF TransportFails, CloseSession, CellSame, clientVars
      <3>2. SessionSeen(c)
        BY <1>0, <3>1, AdmissionSeen
      <3> QED BY <1>1, <3>1, <3>2
    <2>3. ASSUME NEW t \in Streams, StreamNext(s, t)
          PROVE  StreamGood(c)'
      <3>1. \/ \E dest \in Dests, mode \in Modes : ReceiveBadOpen(s, t, dest, mode)
            \/ \E mode \in Modes :
                  \/ \E dest, last : ReceiveRefusedOpen(s, t, dest, mode, last)
                  \/ \E last \in BOOLEAN : ReceiveServiceOpen(s, t, mode, last)
                  \/ ReceiveControlOpen(s, t, mode)
            \/ ReceiveDisconnect(s, t)
            \/ ReceiveAuthOpen(s, t)
            \/ \E last \in BOOLEAN : ReceiveData(s, t, last)
            \/ ReceiveFin(s, t) \/ ReceiveReset(s, t) \/ ReceiveStop(s, t)
        BY <2>3 DEF StreamNext
      <3>2. "none" \in Modes
        BY DEF Modes
      <3>3. CASE \E dest \in Dests, mode \in Modes : ReceiveBadOpen(s, t, dest, mode)
        BY <3>3, BadOpenStream
      <3>4. CASE \/ \E mode \in Modes :
                       \/ \E dest, last : ReceiveRefusedOpen(s, t, dest, mode, last)
                       \/ ReceiveControlOpen(s, t, mode)
                 \/ ReceiveDisconnect(s, t)
        BY <3>2, <3>4, LocalOpenStream
      <3>5. CASE \E mode \in Modes, last \in BOOLEAN : ReceiveServiceOpen(s, t, mode, last)
        BY <3>5, ServiceOpenStream
      <3>6. CASE ReceiveAuthOpen(s, t)
        BY <3>6, AuthOpenStream
      <3>7. CASE \E last \in BOOLEAN : ReceiveData(s, t, last)
        BY <3>7, DataStream
      <3>8. CASE ReceiveFin(s, t) \/ ReceiveReset(s, t)
        BY <3>8, EndStream
      <3>9. CASE ReceiveStop(s, t)
        BY <3>9, StopStream
      <3> QED BY <3>1, <3>3, <3>4, <3>5, <3>6, <3>7, <3>8, <3>9
    <2> QED BY <2>0, <2>1, <2>2, <2>3
  <1>4. CASE AdmissionNext
    <2>0. PICK s \in Sessions :
             AdmissionLapses(s) \/ ExpireAdmission(s) \/ RefreshOnline(s) \/ Kick(s)
      BY <1>4 DEF AdmissionNext
    <2>1. UNCHANGED inflightVars /\ CellSame(c) /\ output' = output
      BY <2>0 DEF AdmissionLapses, ExpireAdmission, RefreshOnline, Kick, CellSame, clientVars
    <2>2. CASE RefreshOnline(s)
      BY <1>1, <2>1, <2>2, SessionsUnchanged DEF RefreshOnline
    <2>3. CASE AdmissionLapses(s) \/ ExpireAdmission(s) \/ Kick(s)
      <3>1. /\ session[s].status # "absent"
            /\ \/ session' = [session EXCEPT ![s].lapsed = TRUE]
               \/ session' = [session EXCEPT ![s] = Revoked(@)]
               \/ \E k : session' = [session EXCEPT ![s] =
                                        [Revoked(@) EXCEPT !.kicked = k, !.status = "closing"]]
        BY <1>2, <2>3 DEF AdmissionLapses, ExpireAdmission, Kick
      <3>2. SessionSeen(c)
        BY <1>0, <3>1, AdmissionSeen
      <3> QED BY <1>1, <2>1, <3>2
    <2> QED BY <2>0, <2>2, <2>3
  <1>5. CASE BackendNext \/ StartPoll \/ Tick
    <2>1. /\ UNCHANGED <<session, exchanges, input, output>>
          /\ UNCHANGED inflightVars \/ Age
      BY <1>5 DEF BackendNext, BackendResponds, BackendResets, BackendStops, ConnectionLost,
         Reconnect, StartPoll, Tick, clientVars
    <2> QED BY <1>1, <2>1, SessionsUnchanged DEF CellSame
  <1>6. CASE CallbackNext
    <2>1. CASE PublishEvent
      <3>1. /\ UNCHANGED <<session, exchanges, input, output>>
            /\ \/ UNCHANGED inflightVars
               \/ \E g \in Fresh : \E r : OpenRoute(g, DiscardRoute(r))
        BY <2>1 DEF PublishEvent, clientVars
      <3>2. SessionSeen(c) /\ CellSame(c)
        BY <3>1, SessionsUnchanged DEF CellSame
      <3>3. ASSUME NEW g \in Fresh, NEW r, OpenRoute(g, DiscardRoute(r))
            PROVE  StreamGood(c)'
        <4>1. g \in Handles /\ g \notin Routed /\ exchanges[c].backend # g
          BY FreshUnused
        <4>2. SameTables(c) /\ Routed' = Routed \cup {g}
          BY <1>0, <3>3, <4>1, DiscardSeen
        <4> QED BY <1>0, <3>1, <3>2, <4>1, <4>2, QuietStream
      <3> QED BY <1>1, <3>1, <3>2, <3>3
    <2>2. CASE \E h \in Handles : Purge(h)
      BY <2>2, PurgeStream
    <2>3. CASE RemoveSession
      BY <2>3, RemoveStream
    <2>4. CASE DrainControl \/ \E h \in Handles : FailEntry(h) \/ Expire(h)
      BY <2>4, AnsweredStream
    <2>5. CASE DrainAuth
      BY <2>5, VerdictStream
    <2>6. CASE DrainRoute
      BY <2>6, ResponseStream
    <2>7. CASE DrainOrphan \/ (\E k \in Conns : ReportFailure(k)) \/ DrainDone \/ FailDone
               \/ ExpireDone
      <3>1. /\ UNCHANGED <<session, exchanges, input, output>>
            /\ UNCHANGED inflightVars \/ RefreshExpiryDeadline
        BY <2>7 DEF DrainOrphan, TakeEvent, ReportFailure, DrainDone, FailDone, ExpireDone,
           clientVars
      <3> QED BY <1>1, <3>1, SessionsUnchanged DEF CellSame
    <2> QED BY <1>6, <2>1, <2>2, <2>3, <2>4, <2>5, <2>6, <2>7 DEF CallbackNext
  <1>7. CASE UNCHANGED vars
    <2>1. UNCHANGED <<session, exchanges, input, output>> /\ UNCHANGED inflightVars
      BY <1>7 DEF vars, clientVars
    <2> QED BY <1>1, <2>1, SessionsUnchanged DEF CellSame
  <1> QED BY <1>3, <1>4, <1>5, <1>6, <1>7 DEF Next

-------------------------------------------------------------------------------
(* A request is ended by one path only.                                    *)

(* no route of a client appears *)
RoutesFade ==
    \A h \in Handles : routes'[h].target = "client" =>
        routes[h].target = "client" /\ CellOf(routes'[h]) = CellOf(routes[h])

LEMMA TablesFade ==
    ASSUME InflightTypeOK,
           \/ UNCHANGED inflightVars \/ Age \/ RefreshExpiryDeadline
           \/ \E h \in Handles : TouchRoute(h) \/ CloseRoute(h) \/ DropAuth(h)
           \/ \E h \in Handles : \E r : OpenRoute(h, DiscardRoute(r)) \/ TrackAuth(h, r)
           \/ \E s \in Sessions, t \in Streams : Suppress(s, t)
    PROVE  RoutesFade
  <1>0. routes \in [Handles -> Route]
    BY DEF InflightTypeOK
  <1>1. CASE UNCHANGED inflightVars \/ RefreshExpiryDeadline
             \/ \E h \in Handles : \E r : TrackAuth(h, r)
    BY <1>1 DEF inflightVars, RefreshExpiryDeadline, TrackAuth, RoutesFade
  <1>2. CASE Age
    BY <1>0, <1>2 DEF Age, Older, Route, RoutesFade, CellOf
  <1>3. ASSUME NEW h \in Handles, TouchRoute(h) \/ CloseRoute(h) \/ DropAuth(h)
        PROVE  RoutesFade
    BY <1>0, <1>3 DEF TouchRoute, CloseRoute, DropAuth, NoRoute, Route, RoutesFade, CellOf
  <1>4. ASSUME NEW h \in Handles, NEW r, OpenRoute(h, DiscardRoute(r))
        PROVE  RoutesFade
    BY <1>0, <1>4 DEF OpenRoute, DiscardRoute, RoutesFade
  <1>5. ASSUME NEW s \in Sessions, NEW t \in Streams, Suppress(s, t)
        PROVE  RoutesFade
    BY <1>0, <1>5 DEF Suppress, SuppressedRoutes, Targets, Route, RoutesFade
  <1> QED BY <1>1, <1>2, <1>3, <1>4, <1>5

LEMMA RequestsKept ==
    ASSUME StreamsInv, RoutesFade,
           \A c \in Cells :
              /\ exchanges'[c].backend \in {exchanges[c].backend, Nil}
              /\ exchanges'[c].backend # Nil /\ phase'.who # c[1] =>
                    /\ phase.who # c[1]
                    /\ request'[exchanges[c].backend] = "fin"
                          => request[exchanges[c].backend] = "fin"
    PROVE  RequestsEndOnce'
  <1> SUFFICES ASSUME NEW c \in Cells, exchanges'[c].backend # Nil, phase'.who # c[1]
               PROVE  /\ request'[exchanges'[c].backend] # "fin"
                      /\ \A d \in Cells \ {c} : exchanges'[d].backend # exchanges'[c].backend
                      /\ routes'[exchanges'[c].backend].target = "client" =>
                            CellOf(routes'[exchanges'[c].backend]) = c
    BY DEF RequestsEndOnce, CellOf
  <1> DEFINE h == exchanges[c].backend
  <1>1. exchanges'[c].backend = h /\ h # Nil /\ phase.who # c[1]
        /\ (request'[h] = "fin" => request[h] = "fin")
    OBVIOUS
  <1>2. /\ request[h] # "fin"
        /\ \A d \in Cells \ {c} : exchanges[d].backend # h
        /\ routes[h].target = "client" => CellOf(routes[h]) = c
    BY <1>1 DEF StreamsInv, RequestsEndOnce
  <1>3. h \in Handles
    BY <1>1, CellTypes DEF StreamsInv, Exchange
  <1> HIDE DEF h
  <1> QED BY <1>1, <1>2, <1>3 DEF RoutesFade

(* a step of the outside or of a callback that leaves the exchanges alone *)
LEMMA RequestsQuiet ==
    ASSUME StreamsInv, RoutesFade, UNCHANGED exchanges,
           phase'.who = phase.who \/ phase.who = Nil,
           \A h \in Handles : request'[h] = "fin" => request[h] = "fin"
    PROVE  RequestsEndOnce'
  <1>1. \A c \in Cells : /\ exchanges[c].backend # Nil => exchanges[c].backend \in Handles
                         /\ c[1] # Nil
    BY CellTypes, InflightAssumption DEF StreamsInv, Exchange
  <1> QED BY <1>1, RequestsKept

(* a frame or an end of the stream o *)
LEMMA RequestsOfOne ==
    ASSUME StreamsInv, Idle, UNCHANGED phase, NEW o \in Cells, RoutesFade,
           \A c \in Cells \ {o} : exchanges'[c] = exchanges[c],
           exchanges'[o].backend \in {exchanges[o].backend, Nil},
           \A h \in Handles : request'[h] = "fin" =>
              \/ request[h] = "fin"
              \/ h = exchanges[o].backend /\ exchanges'[o].backend = Nil
    PROVE  RequestsEndOnce'
  <1>1. \A c \in Cells : exchanges[c].backend # Nil => exchanges[c].backend \in Handles
    BY CellTypes DEF StreamsInv, Exchange
  <1>2. \A c \in Cells \ {o} : exchanges[o].backend # Nil =>
           exchanges[c].backend # exchanges[o].backend
    BY HeldElsewhere
  <1>3. \A c \in Cells :
           /\ exchanges'[c].backend \in {exchanges[c].backend, Nil}
           /\ exchanges'[c].backend # Nil /\ phase'.who # c[1] =>
                 /\ phase.who # c[1]
                 /\ request'[exchanges[c].backend] = "fin"
                       => request[exchanges[c].backend] = "fin"
    BY <1>1, <1>2
  <1> QED BY <1>3, RequestsKept

LEMMA RequestsOfService ==
    ASSUME StreamsInv, NEW s \in Sessions, NEW t \in Streams, NEW mode \in Modes,
           NEW last \in BOOLEAN, ReceiveServiceOpen(s, t, mode, last)
    PROVE  RequestsEndOnce'
  <1> DEFINE o == <<s, t>>
  <1>0. /\ o \in Cells /\ exchanges \in [Cells -> Exchange] /\ routes \in [Handles -> Route]
        /\ request \in [Handles -> Halves] /\ Nil \notin Handles
        /\ \A c \in Cells : c[1] # Nil
        /\ \A c \in Cells : exchanges[c].backend # Nil => exchanges[c].backend \in Handles
    BY CellTypes, InflightAssumption
       DEF StreamsInv, ExchangesInv, TypeOK, InflightTypeOK, Cells, Exchange, Halves
  <1>1. PICK g \in Fresh :
           /\ OpenRoute(g, IF mode = "required" THEN ClientRoute(s, t, session[s].realm)
                                                ELSE DiscardRoute(session[s].realm))
           /\ exchanges' = Registered(o, mode, KeptHandle(g, last), last)
           /\ request' = [request EXCEPT ![g] = IF last THEN "fin" ELSE "open"]
    BY DEF ReceiveServiceOpen, StartStream
  <1>2. UNCHANGED phase /\ phase.who = Nil
    BY IdlePhase DEF ReceiveServiceOpen, OpenArrives, FrameArrives, Idle, StreamsInv, threadVars
  <1>3. /\ g \in Handles /\ \A c \in Cells : exchanges[c].backend # g
        /\ routes[g].target = "absent"
    BY FreshUnused
  <1>4. /\ exchanges'[o].backend = IF last THEN Nil ELSE g
        /\ \A c \in Cells \ {o} : exchanges'[c] = exchanges[c]
    BY <1>0, <1>1 DEF Registered, KeptHandle
  <1>5. /\ \A h \in Handles \ {g} : routes'[h] = routes[h] /\ request'[h] = request[h]
        /\ request'[g] = IF last THEN "fin" ELSE "open"
        /\ routes'[g].target = "client" => CellOf(routes'[g]) = o
    BY <1>0, <1>1, <1>3 DEF OpenRoute, ClientRoute, DiscardRoute, CellOf
  <1> SUFFICES ASSUME NEW c \in Cells, exchanges'[c].backend # Nil, phase'.who # c[1]
               PROVE  /\ request'[exchanges'[c].backend] # "fin"
                      /\ \A d \in Cells \ {c} : exchanges'[d].backend # exchanges'[c].backend
                      /\ routes'[exchanges'[c].backend].target = "client" =>
                            CellOf(routes'[exchanges'[c].backend]) = c
    BY DEF RequestsEndOnce, CellOf
  <1> HIDE DEF o
  <1>6. CASE c = o
    BY <1>0, <1>3, <1>4, <1>5, <1>6
  <1>7. CASE c # o
    <2> DEFINE h == exchanges[c].backend
    <2>1. /\ request[h] # "fin"
          /\ \A d \in Cells \ {c} : exchanges[d].backend # h
          /\ routes[h].target = "client" => CellOf(routes[h]) = c
          /\ h \in Handles \ {g} /\ exchanges'[c].backend = h
      BY <1>0, <1>2, <1>3, <1>4, <1>7 DEF StreamsInv, RequestsEndOnce
    <2> HIDE DEF h
    <2>2. \A d \in Cells \ {c} : exchanges'[d].backend # h
      BY <1>0, <1>4, <2>1
    <2> QED BY <1>5, <2>1, <2>2
  <1> QED BY <1>6, <1>7

LEMMA RequestSteps ==
    ASSUME StreamsInv, [Next]_vars
    PROVE  RequestsEndOnce'
  <1>0. /\ ExchangesInv /\ InflightTypeOK /\ Fresh \subseteq Handles /\ Nil \notin Handles
        /\ request \in [Handles -> Halves] /\ exchanges \in [Cells -> Exchange]
        /\ \A c \in Cells : exchanges[c].backend # Nil => exchanges[c].backend \in Handles
    BY CellTypes, InflightAssumption
       DEF StreamsInv, ExchangesInv, TypeOK, Fresh, Halves, Exchange
  <1>1. phase.at # "close" => phase.who = Nil
    BY <1>0, IdlePhase
  <1>2. CASE ClientNext
    <2>0. PICK s \in Sessions :
             \/ \E realm \in Realms, b \in Bindings : AcceptSession(s, realm, b)
             \/ TransportFails(s) \/ CloseSession(s)
             \/ \E t \in Streams : StreamNext(s, t)
      BY <1>2 DEF ClientNext
    <2>1. CASE \/ \E realm \in Realms, b \in Bindings : AcceptSession(s, realm, b)
               \/ TransportFails(s)
      <3>1. UNCHANGED <<inflightVars, exchanges, request, phase>>
        BY <2>1 DEF AcceptSession, TransportFails, backendVars, threadVars
      <3> QED BY <1>0, <3>1, TablesFade, RequestsQuiet
    <2>2. CASE CloseSession(s)
      <3>1. /\ UNCHANGED <<inflightVars, exchanges>> /\ phase'.who = s /\ phase.who = Nil
            /\ phase.at = "idle" /\ Idle
            /\ request' = [h \in Handles |->
                              IF \E t \in Streams : exchanges[<<s, t>>].backend = h
                              THEN Finished(h) ELSE request[h]]
        BY <1>1, <2>2 DEF CloseSession, Idle, Phase
      <3>2. RoutesFade
        BY <1>0, <3>1, TablesFade
      <3>3. ASSUME NEW c \in Cells, exchanges[c].backend # Nil, s # c[1]
            PROVE  /\ phase.who # c[1]
                   /\ request'[exchanges[c].backend] = request[exchanges[c].backend]
        <4>1. c[1] # Nil
          BY <1>0, CellTypes, InflightAssumption
        <4>2. \A t \in Streams : exchanges[<<s, t>>].backend # exchanges[c].backend
          <5> SUFFICES ASSUME NEW t \in Streams
                       PROVE  exchanges[<<s, t>>].backend # exchanges[c].backend
            OBVIOUS
          <5>1. <<s, t>> \in Cells /\ <<s, t>> # c
            BY <3>3 DEF Cells
          <5> QED BY <3>1, <3>3, <5>1, HeldElsewhere
        <4> QED BY <1>0, <3>1, <3>3, <4>1, <4>2
      <3> QED BY <3>1, <3>2, <3>3, RequestsKept
    <2>3. ASSUME NEW t \in Streams, StreamNext(s, t)
          PROVE  RequestsEndOnce'
      <3> DEFINE o == <<s, t>>
                 h == exchanges[o].backend
      <3>0. o \in Cells /\ (h # Nil => h \in Handles)
        BY <1>0 DEF Cells
      <3>1. CASE \/ \E dest \in Dests, mode \in Modes :
                       \/ ReceiveBadOpen(s, t, dest, mode)
                       \/ \E last \in BOOLEAN : ReceiveRefusedOpen(s, t, dest, mode, last)
                 \/ ReceiveStop(s, t)
        <4>1. /\ UNCHANGED <<exchanges, request, phase>>
              /\ UNCHANGED inflightVars \/ Suppress(s, t)
          BY <3>1 DEF ReceiveBadOpen, ReceiveRefusedOpen, ReceiveStop, backendVars, threadVars
        <4> QED BY <1>0, <4>1, TablesFade, RequestsQuiet
      <3>2. CASE \E mode \in Modes, last \in BOOLEAN : ReceiveServiceOpen(s, t, mode, last)
        BY <3>2, RequestsOfService
      <3>3. CASE ReceiveDisconnect(s, t) \/ ReceiveAuthOpen(s, t)
                 \/ \E mode \in Modes : ReceiveControlOpen(s, t, mode)
        <4>1. /\ Idle /\ UNCHANGED phase
              /\ \E mode : exchanges' = Registered(o, mode, Nil, TRUE)
              /\ \/ UNCHANGED inflightVars /\ UNCHANGED request
                 \/ \E g \in Fresh : /\ \E r : TrackAuth(g, r)
                                     /\ request' = [request EXCEPT ![g] = "fin"]
          BY <3>3 DEF ReceiveDisconnect, ReceiveAuthOpen, ReceiveControlOpen, OpenArrives,
             FrameArrives, StartStream, backendVars, threadVars
        <4>2. RoutesFade
          BY <1>0, <4>1, TablesFade
        <4>3. /\ \A c \in Cells : exchanges'[c].backend \in {exchanges[c].backend, Nil}
          BY <1>0, <3>0, <4>1 DEF Registered
        <4>4. ASSUME NEW c \in Cells, exchanges[c].backend # Nil
              PROVE  request'[exchanges[c].backend] = "fin" => request[exchanges[c].backend] = "fin"
          <5>1. \A g \in Fresh : exchanges[c].backend # g
            BY FreshUnused
          <5> QED BY <1>0, <4>1, <4>4, <5>1
        <4>5. \A c \in Cells : phase.who # c[1]
          BY <1>0, <1>1, <4>1, CellTypes, InflightAssumption DEF Idle
        <4>6. \A c \in Cells :
                 exchanges'[c].backend # Nil /\ phase'.who # c[1] =>
                    /\ phase.who # c[1]
                    /\ request'[exchanges[c].backend] = "fin"
                          => request[exchanges[c].backend] = "fin"
          BY <4>3, <4>4, <4>5
        <4> QED BY <4>2, <4>3, <4>6, RequestsKept
      <3>4. CASE \E last \in BOOLEAN : ReceiveData(s, t, last)
        <4>1. PICK last \in BOOLEAN : ReceiveData(s, t, last)
          BY <3>4
        <4>2. /\ Idle /\ UNCHANGED phase
              /\ \/ UNCHANGED <<inflightVars, exchanges, request>>
                 \/ UNCHANGED <<inflightVars, request>> /\ exchanges' = Removed(o)
                 \/ /\ h # Nil /\ TouchRoute(h)
                    /\ request' = IF last THEN [request EXCEPT ![h] = "fin"] ELSE request
                    /\ exchanges' = Registered(o, exchanges[o].mode, KeptHandle(h, last), last)
                 \/ /\ h # Nil /\ CloseRoute(h) /\ exchanges' = Removed(o)
                    /\ request' = [request EXCEPT ![h] = Finished(h)]
          BY <4>1 DEF ReceiveData, FrameArrives, threadVars, backendVars
        <4>3. RoutesFade
          BY <1>0, <3>0, <4>2, TablesFade
        <4>4. /\ \A c \in Cells \ {o} : exchanges'[c] = exchanges[c]
              /\ exchanges'[o].backend \in {h, Nil}
              /\ \A x \in Handles : request'[x] = "fin" =>
                    request[x] = "fin" \/ (x = h /\ exchanges'[o].backend = Nil)
          <5> HIDE DEF o
          <5> QED BY <1>0, <3>0, <4>2 DEF Removed, Registered, KeptHandle, NoExchange
        <4> QED BY <3>0, <4>2, <4>3, <4>4, RequestsOfOne
      <3>5. CASE ReceiveFin(s, t) \/ ReceiveReset(s, t)
        <4>1. /\ Idle /\ UNCHANGED phase /\ exchanges' = Removed(o)
              /\ request' = IF h = Nil THEN request ELSE [request EXCEPT ![h] = Finished(h)]
              /\ UNCHANGED inflightVars \/ (h # Nil /\ CloseRoute(h))
          BY <3>5 DEF ReceiveFin, ReceiveReset, threadVars
        <4>2. RoutesFade
          BY <1>0, <3>0, <4>1, TablesFade
        <4>3. /\ \A c \in Cells \ {o} : exchanges'[c] = exchanges[c]
              /\ exchanges'[o].backend = Nil
              /\ \A x \in Handles : request'[x] = "fin" => request[x] = "fin" \/ x = h
          <5> HIDE DEF o
          <5> QED BY <1>0, <3>0, <4>1 DEF Removed, NoExchange
        <4> QED BY <3>0, <4>1, <4>2, <4>3, RequestsOfOne
      <3> QED BY <2>3, <3>1, <3>2, <3>3, <3>4, <3>5 DEF StreamNext
    <2> QED BY <2>0, <2>1, <2>2, <2>3
  <1>3. CASE AdmissionNext \/ StartPoll \/ Tick
    <2>1. /\ UNCHANGED <<exchanges, request>>
          /\ UNCHANGED inflightVars \/ Age
          /\ phase' = phase \/ phase.who = Nil
      BY <1>1, <1>3 DEF AdmissionNext, AdmissionLapses, ExpireAdmission, RefreshOnline, Kick,
         StartPoll, Tick, backendVars, threadVars, Idle
    <2> QED BY <1>0, <2>1, TablesFade, RequestsQuiet
  <1>4. CASE BackendNext
    <2>1. /\ UNCHANGED <<inflightVars, exchanges, phase>>
          /\ \/ UNCHANGED request
             \/ \E h \in Handles : request' = [request EXCEPT ![h] = "reset"]
             \/ \E gone : request' = [h \in Handles |-> IF h \in gone THEN "lost" ELSE request[h]]
      BY <1>4 DEF BackendNext, BackendResponds, BackendResets, BackendStops, ConnectionLost,
         Reconnect, threadVars
    <2>2. \A h \in Handles : request'[h] = "fin" => request[h] = "fin"
      BY <1>0, <2>1
    <2> QED BY <1>0, <2>1, <2>2, TablesFade, RequestsQuiet
  <1>5. CASE CallbackNext
    <2>1. CASE PublishEvent
      <3>1. /\ UNCHANGED <<exchanges, phase>>
            /\ \/ UNCHANGED inflightVars /\ UNCHANGED request
               \/ \E g \in Fresh : /\ \E r : OpenRoute(g, DiscardRoute(r))
                                   /\ request' = [request EXCEPT ![g] = "fin"]
        BY <2>1 DEF PublishEvent, StartStream, backendVars
      <3>2. RoutesFade
        BY <1>0, <3>1, TablesFade
      <3>3. ASSUME NEW c \in Cells, exchanges[c].backend # Nil
            PROVE  request'[exchanges[c].backend] = "fin" => request[exchanges[c].backend] = "fin"
        <4>1. \A g \in Fresh : exchanges[c].backend # g
          BY FreshUnused
        <4> QED BY <1>0, <3>1, <3>3, <4>1
      <3> QED BY <3>1, <3>2, <3>3, RequestsKept
    <2>2. ASSUME NEW h \in Handles, Purge(h) \/ FailEntry(h)
          PROVE  RequestsEndOnce'
      <3>1. /\ UNCHANGED <<exchanges, request, phase>>
            /\ CloseRoute(h) \/ DropAuth(h)
        BY <2>2 DEF Purge, FailEntry, backendVars, threadVars
      <3> QED BY <1>0, <2>2, <3>1, TablesFade, RequestsQuiet
    <2>3. ASSUME NEW h \in Handles, Expire(h)
          PROVE  RequestsEndOnce'
      <3>1. /\ UNCHANGED <<exchanges, phase>>
            /\ CloseRoute(h) \/ DropAuth(h)
            /\ request' = [request EXCEPT ![h] = IF @ = "lost" THEN @ ELSE "discarded"]
        BY <2>3 DEF Expire, Invalidate, threadVars
      <3>2. \A x \in Handles : request'[x] = "fin" => request[x] = "fin"
        BY <1>0, <3>1
      <3> QED BY <1>0, <2>3, <3>1, <3>2, TablesFade, RequestsQuiet
    <2>4. CASE RemoveSession
      <3>1. /\ UNCHANGED <<inflightVars, request>>
            /\ \A c \in Cells : exchanges'[c] = IF c[1] = phase.who THEN NoExchange
                                                                    ELSE exchanges[c]
        BY <2>4 DEF RemoveSession, backendVars
      <3>2. RoutesFade
        BY <1>0, <3>1, TablesFade
      <3>3. NoExchange.backend = Nil
        BY DEF NoExchange
      <3>4. \A c \in Cells :
               /\ exchanges'[c].backend \in {exchanges[c].backend, Nil}
               /\ exchanges'[c].backend # Nil => phase.who # c[1]
        BY <3>1, <3>3
      <3> QED BY <3>1, <3>2, <3>4, RequestsKept
    <2>5. CASE DrainControl \/ DrainAuth \/ DrainRoute \/ DrainOrphan
      <3>1. /\ UNCHANGED <<exchanges, request, phase>>
            /\ \/ UNCHANGED inflightVars
               \/ TouchRoute(Front.handle) \/ CloseRoute(Front.handle) \/ DropAuth(Front.handle)
        BY <2>5 DEF DrainControl, DrainAuth, DrainRoute, DrainOrphan, TakeEvent
      <3>2. Front.handle \in Handles
        BY <1>0, <2>5, FrontIsEvent DEF DrainControl, DrainAuth, DrainRoute, DrainOrphan,
           Draining, ExchangesInv
      <3> QED BY <1>0, <3>1, <3>2, TablesFade, RequestsQuiet
    <2>6. CASE (\E k \in Conns : ReportFailure(k)) \/ DrainDone \/ FailDone \/ ExpireDone
      <3>1. /\ UNCHANGED <<exchanges, request>> /\ phase.who = Nil
            /\ UNCHANGED inflightVars \/ RefreshExpiryDeadline
        BY <1>1, <2>6 DEF ReportFailure, DrainDone, FailDone, ExpireDone, backendVars
      <3> QED BY <1>0, <3>1, TablesFade, RequestsQuiet
    <2> QED BY <1>5, <2>1, <2>2, <2>3, <2>4, <2>5, <2>6 DEF CallbackNext
  <1>6. CASE UNCHANGED vars
    <2>1. UNCHANGED <<inflightVars, exchanges, request, phase>>
      BY <1>6 DEF vars, backendVars, threadVars
    <2> QED BY <1>0, <2>1, TablesFade, RequestsQuiet
  <1> QED BY <1>2, <1>3, <1>4, <1>5, <1>6 DEF Next

LEMMA ClosingSteps ==
    ASSUME StreamsInv, [Next]_vars
    PROVE  ClosingMarked'
  <1>0. ClosingMarked /\ session \in [Sessions -> Session]
    BY DEF StreamsInv, ExchangesInv, TypeOK
  <1>1. \/ phase'.at # "close"
        \/ \E s \in Sessions : CloseSession(s)
        \/ UNCHANGED <<session, phase>>
    <2>1. CASE ClientNext
      <3>0. PICK s \in Sessions :
               \/ \E realm \in Realms, b \in Bindings : AcceptSession(s, realm, b)
               \/ TransportFails(s) \/ CloseSession(s)
               \/ \E t \in Streams : StreamNext(s, t)
        BY <2>1 DEF ClientNext
      <3>1. CASE \/ \E realm \in Realms, b \in Bindings : AcceptSession(s, realm, b)
                 \/ TransportFails(s)
        BY <3>1 DEF AcceptSession, TransportFails, Idle, threadVars
      <3>2. ASSUME NEW t \in Streams, StreamNext(s, t)
            PROVE  phase'.at # "close"
        BY <3>2 DEF StreamNext, ReceiveBadOpen, ReceiveRefusedOpen, ReceiveServiceOpen,
           ReceiveControlOpen, ReceiveDisconnect, ReceiveAuthOpen, ReceiveData, ReceiveFin,
           ReceiveReset, ReceiveStop, OpenArrives, FrameArrives, Idle, threadVars
      <3> QED BY <3>0, <3>1, <3>2
    <2>2. CASE AdmissionNext
      <3>0. PICK s \in Sessions :
               AdmissionLapses(s) \/ ExpireAdmission(s) \/ RefreshOnline(s) \/ Kick(s)
        BY <2>2 DEF AdmissionNext
      <3>1. CASE AdmissionLapses(s) \/ ExpireAdmission(s) \/ RefreshOnline(s)
        BY <3>1 DEF AdmissionLapses, ExpireAdmission, RefreshOnline, Idle, threadVars
      <3>2. CASE Kick(s)
        BY <3>2 DEF Kick
      <3> QED BY <3>0, <3>1, <3>2
    <2>3. CASE BackendNext
      BY <2>3 DEF BackendNext, BackendResponds, BackendResets, BackendStops, ConnectionLost,
         Reconnect, threadVars
    <2>4. CASE StartPoll \/ Tick
      BY <2>4 DEF StartPoll, Tick, Idle, Phase, threadVars
    <2>5. CASE CallbackNext
      <3>1. CASE PublishEvent \/ \E h \in Handles : Purge(h) \/ FailEntry(h) \/ Expire(h)
        BY <3>1 DEF PublishEvent, Purge, FailEntry, Expire, threadVars
      <3>2. CASE DrainControl \/ DrainAuth \/ DrainRoute \/ DrainOrphan
        BY <3>2 DEF DrainControl, DrainAuth, DrainRoute, DrainOrphan, TakeEvent, Draining
      <3>3. CASE RemoveSession \/ DrainDone \/ FailDone \/ ExpireDone
        <4>1. \E at \in {"idle", "expire"} : phase' = Phase(at)
          BY <3>3 DEF RemoveSession, DrainDone, FailDone, ExpireDone, Drained
        <4> QED BY <4>1 DEF Phase
      <3>4. CASE \E k \in Conns : ReportFailure(k)
        BY <3>4 DEF ReportFailure, Phase
      <3> QED BY <2>5, <3>1, <3>2, <3>3, <3>4 DEF CallbackNext
    <2>6. CASE UNCHANGED vars
      BY <2>6 DEF vars, threadVars
    <2> QED BY <2>1, <2>2, <2>3, <2>4, <2>5, <2>6 DEF Next
  <1>2. ASSUME NEW s \in Sessions, CloseSession(s)
        PROVE  ClosingMarked'
    <2>1. session'[s].status = "closing" /\ phase'.who = s
      BY <1>0, <1>2 DEF CloseSession, CloseTransport, Session, Phase
    <2> QED BY <2>1 DEF ClosingMarked
  <1> QED BY <1>0, <1>1, <1>2 DEF ClosingMarked

LEMMA StreamsInit == Init => StreamsInv
  <1> SUFFICES ASSUME Init PROVE StreamsInv
    OBVIOUS
  <1>1. ClosingMarked /\ RequestsEndOnce
    BY DEF Init, ClosingMarked, RequestsEndOnce, Phase, NoExchange
  <1>2. ASSUME NEW c \in Cells
        PROVE  StreamGood(c)
    <2>1. /\ exchanges[c] = NoExchange /\ input[c] = UnusedInput /\ output[c] = "open"
          /\ session[c[1]] = NoSession
      BY DEF Init, Cells
    <2>2. RoutesAt(c) = {} /\ AuthsAt(c) = {} /\ HeardAt(c) = {} /\ WaitsAt(c) = {}
      BY DEF Init, InflightInit, NoRoute, NoAuth, RoutesAt, AuthsAt, HeardAt, WaitsAt, Targets
    <2> QED BY <2>1, <2>2
            DEF StreamGood, Untouched, BackendHeld, WaitsPlaced, SuppressedIsReset, WssAnswers,
                Remembered, NoExchange, UnusedInput, NoSession, IsWss
  <1> QED BY <1>1, <1>2, ExchangesInit DEF StreamsInv

LEMMA StreamsStep == StreamsInv /\ [Next]_vars => StreamsInv'
  <1> SUFFICES ASSUME StreamsInv, [Next]_vars PROVE StreamsInv'
    OBVIOUS
  <1>1. ExchangesInv'
    BY ExchangesStep DEF StreamsInv
  <1>2. Cells' = Cells
    BY DEF Cells
  <1> QED BY <1>1, <1>2, StreamSteps, RequestSteps, ClosingSteps DEF StreamsInv

(* What stands between the client streams and the tables, in every state:  *)
(* the streams as openInboundExchange, appendToExchange, finishClientStream*)
(* and the drain of the responses leave them.                              *)
THEOREM StreamsInvariant == Spec => []StreamsInv
  BY StreamsInit, StreamsStep, PTL DEF Spec

(* Whatever OPENs a client repeats, at most one backend stream answers a   *)
(* client stream (dispatchFrame), so the scan of suppressClientResponse    *)
(* may stop at its first match.                                            *)
THEOREM OneResponderOnly == Spec => []OneResponder
  <1>1. StreamsInv => OneResponder
    <2> SUFFICES ASSUME StreamsInv, NEW s \in Sessions, NEW t \in Streams,
                        NEW g \in Waits(s, t), NEW h \in Waits(s, t)
                 PROVE  g = h
      BY DEF OneResponder
    <2>1. <<s, t>> \in Cells /\ Waits(s, t) = WaitsAt(<<s, t>>)
      BY DEF Cells, Waits, WaitsAt, RoutesAt, AuthsAt
    <2> QED BY <2>1 DEF StreamsInv, StreamGood, WaitsPlaced
  <1> QED BY <1>1, StreamsInvariant, PTL

(* No path (last DATA, FIN, RESET, close of the session) ends one request  *)
(* twice, and no backend stream is held by two exchanges.                  *)
THEOREM RequestsEnded == Spec => []RequestsEndOnce
  <1>1. StreamsInv => RequestsEndOnce
    BY DEF StreamsInv
  <1> QED BY <1>1, StreamsInvariant, PTL

(* No response goes on after its FIN: drainTransport, replyControl,        *)
(* finishClientStream and the expiry of an entry write neither records nor *)
(* a second FIN once one was written, over WSS neither, where no stream    *)
(* state of the transport would stop them.  That nothing follows a RESET   *)
(* is not claimed: over WSS records, and one FIN, may.                     *)
THEOREM AnsweredAtMostOnce == Spec => []AnsweredOnce
  <1>1. StreamsInv => AnsweredOnce
    BY DEF StreamsInv, StreamGood, AnsweredOnce
  <1> QED BY <1>1, StreamsInvariant, PTL

(* A request that wants a response is never forgotten: whatever happens to *)
(* its route, its authentication or its connection, its client has been    *)
(* answered, was reset, is closing, or an entry still stands for it.       *)
THEOREM RequestsRemembered == Spec => []NoForgottenRequest
  <1>1. StreamsInv => NoForgottenRequest
    <2> SUFFICES ASSUME StreamsInv, NEW s \in Sessions, NEW t \in Streams,
                        session[s].status = "open", input[<<s, t>>].asked = "required"
                 PROVE  output[<<s, t>>] # "open" \/ Waits(s, t) # {}
      BY DEF NoForgottenRequest
    <2>1. <<s, t>> \in Cells /\ Waits(s, t) = WaitsAt(<<s, t>>) /\ <<s, t>>[1] = s
      BY DEF Cells, Waits, WaitsAt, RoutesAt, AuthsAt
    <2> QED BY <2>1 DEF StreamsInv, StreamGood, Remembered
  <1> QED BY <1>1, StreamsInvariant, PTL

===============================================================================
