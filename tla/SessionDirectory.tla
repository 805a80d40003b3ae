--------------------------- MODULE SessionDirectory ---------------------------
(***************************************************************************)
(* What the connection manager promises its callers, without pools, chains *)
(* or counters: a directory of open sessions in which a push to an         *)
(* identity or to a group of a realm reaches exactly the sessions bound to *)
(* it, and in which a close takes a session out of everything in one step. *)
(***************************************************************************)
EXTENDS Naturals, FiniteSets

CONSTANTS Capacity, SlotIds, RealmIds, Dests, Groups

VARIABLES
    open,     \* the sessions, by slot
    realmOf,  \* the realm of an open session, fixed at accept
    peers,    \* (realm, dest_id) -> the sessions bound to it
    members   \* (realm, group_id) -> the sessions in the group

dirVars == <<open, realmOf, peers, members>>

DirInit ==
    /\ open = {}
    /\ realmOf = [s \in {} |-> 0]
    /\ peers = [k \in RealmIds \X Dests |-> {}]
    /\ members = [k \in RealmIds \X Groups |-> {}]

Open(s, r) ==
    /\ s \in SlotIds \ open
    /\ Cardinality(open) < Capacity
    /\ open' = open \cup {s}
    /\ realmOf' = [t \in open' |-> IF t = s THEN r ELSE realmOf[t]]
    /\ UNCHANGED <<peers, members>>

(* Session s out of every set of the index, and into the one at key k. *)
Without(index, s) == [k \in DOMAIN index |-> index[k] \ {s}]

With(index, k, s) ==
    [j \in DOMAIN index |-> IF j = k THEN index[j] \cup {s} ELSE index[j]]

Close(s) ==
    /\ s \in open
    /\ open' = open \ {s}
    /\ realmOf' = [t \in open' |-> realmOf[t]]
    /\ peers' = Without(peers, s)
    /\ members' = Without(members, s)

(* At most one identity per session; none when d is not one of Dests. *)
Bind(s, d) ==
    /\ s \in open
    /\ UNCHANGED <<open, realmOf>>
    /\ peers' = With(Without(peers, s), <<realmOf[s], d>>, s)
    /\ UNCHANGED members

Enter(s, g) ==
    /\ s \in open
    /\ UNCHANGED <<open, realmOf>>
    /\ members' = With(members, <<realmOf[s], g>>, s)
    /\ UNCHANGED peers

Exit(s, g) ==
    /\ s \in open
    /\ UNCHANGED <<open, realmOf>>
    /\ members' = [members EXCEPT ![<<realmOf[s], g>>] = @ \ {s}]
    /\ UNCHANGED peers

Crash ==
    /\ open' = {}
    /\ realmOf' = [s \in {} |-> 0]
    /\ peers' = [k \in DOMAIN peers |-> {}]
    /\ members' = [k \in DOMAIN members |-> {}]

DirNext ==
    \/ Crash
    \/ \E s \in SlotIds :
          \/ \E r \in RealmIds : Open(s, r)
          \/ Close(s)
          \/ \E d \in Dests \cup {0} : Bind(s, d)
          \/ \E g \in Groups : Enter(s, g) \/ Exit(s, g)

DirSpec == DirInit /\ [][DirNext]_dirVars
===============================================================================
