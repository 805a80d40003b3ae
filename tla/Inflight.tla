------------------------------- MODULE Inflight -------------------------------
(***************************************************************************)
(* worker/inflight.zig: the two tables of a worker that outlive the call   *)
(* that fills them.  routes maps a backend stream to the client stream     *)
(* that waits for its response (or to "discard"), auths maps it to the     *)
(* authentication that waits for a verdict.  Each table has a capacity and *)
(* a quota per realm; an entry leaves by its response, with its session,   *)
(* with its backend connection, or by its age.                             *)
(*                                                                         *)
(* Time is relative: an entry has an age that Tick raises up to Timeout,   *)
(* and next_expiry counts down to the moment the tables must be scanned.   *)
(* The operations are the methods of Tables; the worker's handlers that    *)
(* call them are in Exchanges.                                             *)
(***************************************************************************)
EXTENDS Quota, FiniteSets

CONSTANTS
    Sessions,     \* client sessions (handles; a generation is an identity)
    Streams,      \* client stream ids of one session
    Handles,      \* backend stream handles
    MaxRequests,  \* capacity of each table
    Timeout       \* request_timeout_us, in ticks

Nil == -1

ASSUME InflightAssumption ==
    /\ Nil \notin Sessions \cup Handles
    /\ Streams \subseteq Nat
    /\ IsFiniteSet(Handles)
    /\ MaxRequests \in Nat \ {0}
    /\ Timeout \in Nat \ {0}

VARIABLES
    routes,       \* backend stream -> where its response goes
    auths,        \* backend stream -> the authentication that waits
    route_quota,
    auth_quota,
    next_expiry   \* ticks until the next scan, Nil when none is needed

inflightVars == <<routes, auths, route_quota, auth_quota, next_expiry>>

Ages == 0 .. Timeout

Route == [target  : {"absent", "client", "discard"},
          session : Sessions \cup {Nil},
          stream  : Streams \cup {Nil},
          realm   : Realms \cup {Nil},
          age     : Ages]

PendingAuth == [target     : {"absent", "client"},
                session    : Sessions \cup {Nil},
                stream     : Streams \cup {Nil},
                realm      : Realms \cup {Nil},
                age        : Ages,
                suppressed : BOOLEAN]

NoRoute == [target |-> "absent", session |-> Nil, stream |-> Nil,
            realm |-> Nil, age |-> 0]

NoAuth == [target |-> "absent", session |-> Nil, stream |-> Nil,
           realm |-> Nil, age |-> 0, suppressed |-> FALSE]

ClientRoute(s, t, realm) ==
    [target |-> "client", session |-> s, stream |-> t, realm |-> realm, age |-> 0]

DiscardRoute(realm) ==
    [target |-> "discard", session |-> Nil, stream |-> Nil, realm |-> realm,
     age |-> 0]

WaitingAuth(s, t, realm) ==
    [target |-> "client", session |-> s, stream |-> t, realm |-> realm,
     age |-> 0, suppressed |-> FALSE]

InflightTypeOK ==
    /\ routes \in [Handles -> Route]
    /\ auths \in [Handles -> PendingAuth]
    /\ route_quota \in QuotaType
    /\ auth_quota \in QuotaType
    /\ next_expiry \in Ages \cup {Nil}

Routed == {h \in Handles : routes[h].target # "absent"}

Authing == {h \in Handles : auths[h].target # "absent"}

InflightInit ==
    /\ routes = [h \in Handles |-> NoRoute]
    /\ auths = [h \in Handles |-> NoAuth]
    /\ route_quota = EmptyQuota
    /\ auth_quota = EmptyQuota
    /\ next_expiry = Nil

-------------------------------------------------------------------------------
(* noteExpiry for an entry of this age *)
Mut_NoteLatest(next, age) ==
    IF next = Nil \/ Timeout - age > next THEN Timeout - age ELSE next

NoteExpiry(next, age) ==
    IF next = Nil \/ Timeout - age < next THEN Timeout - age ELSE next

(* reserveRoute = .ok *)
ReserveRoute(realm) ==
    /\ Cardinality(Routed) < MaxRequests
    /\ Allows(route_quota, MaxRequests, realm)

(* openRoute; a key that is already there gives its cell back first *)
OpenRoute(h, route) ==
    /\ routes' = [routes EXCEPT ![h] = route]
    /\ route_quota' =
          Acquire(IF h \in Routed THEN Release(route_quota, routes[h].realm)
                                  ELSE route_quota, route.realm)
    /\ next_expiry' = NoteExpiry(next_expiry, 0)
    /\ UNCHANGED <<auths, auth_quota>>

(* touchRoute of an entry that is there *)
TouchRoute(h) ==
    /\ h \in Routed
    /\ routes' = [routes EXCEPT ![h].age = 0]
    /\ UNCHANGED <<auths, route_quota, auth_quota, next_expiry>>

(* closeRoute / takeRoute: the only way out of routes *)
Mut_KeepCell(h) ==
    /\ routes' = [routes EXCEPT ![h] = NoRoute]
    /\ UNCHANGED <<auths, route_quota, auth_quota, next_expiry>>

CloseRoute(h) ==
    /\ routes' = [routes EXCEPT ![h] = NoRoute]
    /\ route_quota' = IF h \in Routed THEN Release(route_quota, routes[h].realm)
                                      ELSE route_quota
    /\ UNCHANGED <<auths, auth_quota, next_expiry>>

Targets(entry, s, t) ==
    /\ entry.target = "client"
    /\ entry.session = s
    /\ entry.stream = t

(* suppressClientResponse: the route stays, its target becomes discard.    *)
(* (The scan of the code stops at the first match; OneResponder in         *)
(* Exchanges says that there is no second one.)                            *)
SuppressedRoutes(s, t) ==
    [h \in Handles |->
        IF Targets(routes[h], s, t)
        THEN [routes[h] EXCEPT !.target = "discard", !.session = Nil,
                               !.stream = Nil]
        ELSE routes[h]]

(* suppressAuthResponse *)
SuppressedAuths(s, t) ==
    [h \in Handles |->
        IF Targets(auths[h], s, t)
        THEN [auths[h] EXCEPT !.suppressed = TRUE]
        ELSE auths[h]]

Suppress(s, t) ==
    /\ routes' = SuppressedRoutes(s, t)
    /\ auths' = SuppressedAuths(s, t)
    /\ UNCHANGED <<route_quota, auth_quota, next_expiry>>

(* reserveAuth = .ok *)
ReserveAuth(realm) ==
    /\ Cardinality(Authing) < MaxRequests
    /\ Allows(auth_quota, MaxRequests, realm)

(* trackAuth *)
TrackAuth(h, pending) ==
    /\ auths' = [auths EXCEPT ![h] = pending]
    /\ auth_quota' =
          Acquire(IF h \in Authing THEN Release(auth_quota, auths[h].realm)
                                   ELSE auth_quota, pending.realm)
    /\ next_expiry' = NoteExpiry(next_expiry, 0)
    /\ UNCHANGED <<routes, route_quota>>

(* takeAuth / dropAuth: the only way out of auths *)
DropAuth(h) ==
    /\ auths' = [auths EXCEPT ![h] = NoAuth]
    /\ auth_quota' = IF h \in Authing THEN Release(auth_quota, auths[h].realm)
                                      ELSE auth_quota
    /\ UNCHANGED <<routes, route_quota, next_expiry>>

-------------------------------------------------------------------------------
(* One tick of the clock: every entry ages, the scan comes closer. *)

Older(entry) == IF entry.age < Timeout THEN [entry EXCEPT !.age = @ + 1] ELSE entry

Age ==
    /\ routes' = [h \in Handles |-> IF h \in Routed THEN Older(routes[h])
                                                    ELSE routes[h]]
    /\ auths' = [h \in Handles |-> IF h \in Authing THEN Older(auths[h])
                                                    ELSE auths[h]]
    /\ next_expiry' = IF next_expiry > 0 THEN next_expiry - 1 ELSE next_expiry
    /\ UNCHANGED <<route_quota, auth_quota>>

(* expirationDue *)
ExpirationDue == next_expiry = 0

(* what takeExpiredRoutes and takeExpiredAuths take *)
Mut_ExpireAnswered == {h \in Routed : routes[h].target = "client" /\ routes[h].age = Timeout}

ExpiredRoutes == {h \in Routed : routes[h].age = Timeout}

ExpiredAuths == {h \in Authing : auths[h].age = Timeout}

(* refreshExpiryDeadline *)
Mut_ForgetAuths ==
    LET left == {Timeout - routes[h].age : h \in Routed}
    IN IF left = {} THEN Nil ELSE CHOOSE n \in left : \A m \in left : n <= m

EarliestExpiry ==
    LET left == {Timeout - routes[h].age : h \in Routed}
                    \cup {Timeout - auths[h].age : h \in Authing}
    IN IF left = {} THEN Nil ELSE CHOOSE n \in left : \A m \in left : n <= m

RefreshExpiryDeadline ==
    /\ next_expiry' = EarliestExpiry
    /\ UNCHANGED <<routes, auths, route_quota, auth_quota>>

-------------------------------------------------------------------------------
(* The tables under any order of calls that respects the reservations,     *)
(* with keys that are reused while their entry is still there.             *)
InflightNext ==
    \/ \E h \in Handles, s \in Sessions, t \in Streams, r \in Realms :
          \/ ReserveRoute(r) /\ OpenRoute(h, ClientRoute(s, t, r))
          \/ ReserveAuth(r) /\ TrackAuth(h, WaitingAuth(s, t, r))
    \/ \E h \in Handles, r \in Realms :
          ReserveRoute(r) /\ OpenRoute(h, DiscardRoute(r))
    \/ \E h \in Handles : TouchRoute(h) \/ CloseRoute(h) \/ DropAuth(h)
    \/ \E s \in Sessions, t \in Streams : Suppress(s, t)
    \/ Age
    \/ RefreshExpiryDeadline

InflightSpec == InflightInit /\ [][InflightNext]_inflightVars

-------------------------------------------------------------------------------
(* Each quota counts exactly the entries of its table, realm by realm: an  *)
(* entry that is overwritten, taken, dropped or demoted to discard gives   *)
(* its cell back exactly once ("the quota is eaten away for good" is the   *)
(* failure the comment in openRoute is about).                             *)
InflightQuotaExact ==
    /\ CountsEntries(route_quota, Routed, routes)
    /\ CountsEntries(auth_quota, Authing, auths)

(* The scan is never late: whatever was opened, refreshed or removed since *)
(* the last scan, next_expiry comes no later than the age limit of every   *)
(* entry (noteExpiry, touchRoute, refreshExpiryDeadline: "it may be early, *)
(* never late").                                                           *)
ExpiryNeverLate ==
    /\ \A h \in Routed  : next_expiry # Nil /\ next_expiry <= Timeout - routes[h].age
    /\ \A h \in Authing : next_expiry # Nil /\ next_expiry <= Timeout - auths[h].age
===============================================================================
