-------------------------- MODULE ConnectionManager --------------------------
(***************************************************************************)
(* worker/connection.zig's ConnectionManager: the session slots and the    *)
(* group index together.  A close takes a session out of both in one step. *)
(* Sessions are named by handles from inside the worker (bindDest on an    *)
(* auth answer, removeSession on a close) and by tokens from the backend   *)
(* (egress.applyGroupChange): a token goes through byToken and the realm   *)
(* of the backend that presents it must be the realm of the session.       *)
(***************************************************************************)
EXTENDS GroupIndex

vars == <<slotVars, groups>>

Init ==
    /\ SlotsInit
    /\ groups = FreshGroups

Crash ==
    /\ Restart
    /\ groups' = FreshGroups

Accept(realm, cnx) ==
    /\ AddSession(realm, cnx)
    /\ groups' = [groups EXCEPT !.group_head[free_head] = Nil]

CloseSession(h) ==
    /\ RemoveSession(h)
    /\ groups' = LeaveAll(groups, h.slot)

CloseRawQuic(cnx) ==
    /\ RemoveRawQuic(cnx)
    /\ groups' = LeaveAll(groups, callback_index[cnx])

Authenticate(h, dest) ==
    /\ BindDest(h, dest)
    /\ UNCHANGED groups

(* applyGroupChange: who may act on the session the token names *)
Authorized(i, h, realm) ==
    /\ ValidToken(i, h)
    /\ slots[h.slot].realm = realm

JoinGroup(i, h, realm, group) ==
    /\ Authorized(i, h, realm)
    /\ ~IsGroupMember(groups, h.slot, slots[h.slot].realm, group)
    /\ CanJoin(groups, slots[h.slot].realm)
    /\ groups' = Join(groups, h.slot, slots[h.slot].realm, group)
    /\ UNCHANGED slotVars

LeaveGroup(i, h, realm, group) ==
    /\ Authorized(i, h, realm)
    /\ IsGroupMember(groups, h.slot, slots[h.slot].realm, group)
    /\ groups' = Leave(groups, h.slot, slots[h.slot].realm, group)
    /\ UNCHANGED slotVars

Next ==
    \/ Crash
    \/ \E realm \in Realms, cnx \in Cnx \cup {Nil} : Accept(realm, cnx)
    \/ \E h \in Handles : CloseSession(h)
    \/ \E cnx \in Cnx : CloseRawQuic(cnx)
    \/ \E h \in Handles, dest \in DestIds \cup {0} : Authenticate(h, dest)
    \/ \E i \in 1 .. MaxIncarnation, h \in Handles,
          realm \in Realms, group \in GroupIds :
          JoinGroup(i, h, realm, group) \/ LeaveGroup(i, h, realm, group)

Spec == Init /\ [][Next]_vars

-------------------------------------------------------------------------------
TypeOK == SlotsTypeOK /\ GroupsTypeOK

(* The directory a caller sees: what the iterators return. *)
Directory ==
    INSTANCE SessionDirectory WITH
        Capacity <- MaxConnections,
        SlotIds  <- Slots,
        RealmIds <- Realms,
        Dests    <- DestIds,
        Groups   <- GroupIds,
        open     <- InUse,
        realmOf  <- [s \in InUse |-> slots[s].realm],
        peers    <- [k \in Keys |-> DestConnections(k[1], k[2])],
        members  <- [k \in GroupKeys |->
                        GroupConnections(groups, k[1], k[2])]

(* Slot pool, free lists and threaded chains implement the directory: every*)
(* add, close, bind, join and leave changes what fan-outs visit in exactly *)
(* the way the directory allows (connection.zig as a whole).               *)
ImplementsDirectory == Directory!DirSpec

MemberEdges == {e \in Edges : groups.edges[e].in_use}

(* A fan-out to a group visits every edge of the group and none twice, the *)
(* chain a close follows holds exactly the session's own edges, and a      *)
(* session that repeats a join is still visited once (joinGroup is         *)
(* idempotent, releaseGroupEdge takes an edge off both chains).            *)
GroupChainsExact ==
    /\ \A k \in GroupKeys :
          GroupEdges(groups, k[1], k[2]) =
              {e \in MemberEdges : EdgeKey(groups, e) = k}
    /\ \A s \in Slots :
          SlotEdges(groups, s) = {e \in MemberEdges : groups.edges[e].slot = s}
    /\ \A e \in MemberEdges :
          LET edge == groups.edges[e] IN
          /\ edge.slot \in InUse
          /\ e \notin Walk(NextInGroup(groups), edge.next_in_group)
          /\ e \notin Walk(NextOfSlot(groups), edge.next_of_slot)
          /\ \A f \in MemberEdges :
                groups.edges[f].slot = edge.slot
                /\ EdgeKey(groups, f) = EdgeKey(groups, e) => f = e

(* No edge leaks: the free list of the pool holds every edge no membership *)
(* uses, each once, and the group quota counts the edges in use of each    *)
(* realm (joinGroup, releaseGroupEdge).                                    *)
EdgePoolExact ==
    LET next == NextFreeEdge(groups)
        free == Edges \ MemberEdges
    IN /\ Walk(next, groups.free_head) = free
       /\ \A e \in free : e \notin Walk(next, next[e])
       /\ CountsEntries(groups.group_quota, MemberEdges, groups.edges)
===============================================================================
