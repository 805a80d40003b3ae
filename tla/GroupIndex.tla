------------------------------ MODULE GroupIndex ------------------------------
(***************************************************************************)
(* The group half of worker/connection.zig's ConnectionManager: the many-  *)
(* to-many relation of sessions and (realm, group_id).  One edge of a pool *)
(* of fixed size stands for one membership and hangs on two chains: the    *)
(* chain of its group (next_in_group, head in the table) that a fan-out    *)
(* follows, and the chain of its session (next_of_slot, head in the slot)  *)
(* that a close follows.                                                   *)
(*                                                                         *)
(* The operations take a slot and its realm: the manager has checked the   *)
(* handle.  They are operators on the record of the group state, so that   *)
(* leaveAllGroups can be the loop it is.                                   *)
(***************************************************************************)
EXTENDS SessionSlots

CONSTANTS
    GroupIds,               \* group identities (never 0)
    MaxGroupsPerConnection  \* sizes the edge pool: this many edges per slot

ASSUME GroupsAssumption ==
    /\ GroupIds \subseteq Nat \ {0}
    /\ MaxGroupsPerConnection \in Nat \ {0}

EdgeCapacity == MaxConnections * MaxGroupsPerConnection

Edges == 0 .. EdgeCapacity - 1

EdgeOrNil == Edges \cup {Nil}

GroupKeys == Realms \X GroupIds

VARIABLE groups  \* edges, table, free_head, group_head and group_quota

Edge == [in_use        : BOOLEAN,
         realm         : Realms \cup {Nil},
         group_id      : GroupIds \cup {0},
         slot          : SlotOrNil,
         next_in_group : EdgeOrNil,
         next_of_slot  : EdgeOrNil,
         next_free     : EdgeOrNil]

GroupsTypeOK ==
    groups \in [edges       : [Edges -> Edge],
                table       : [GroupKeys -> EdgeOrNil],
                free_head   : EdgeOrNil,
                group_head  : [Slots -> EdgeOrNil],
                group_quota : QuotaType]

Mut_FreeEdgeUnlinked(next) ==
    [in_use |-> FALSE, realm |-> Nil, group_id |-> 0, slot |-> Nil,
     next_in_group |-> Nil, next_of_slot |-> Nil, next_free |-> Nil]

FreeEdge(next) ==
    [in_use |-> FALSE, realm |-> Nil, group_id |-> 0, slot |-> Nil,
     next_in_group |-> Nil, next_of_slot |-> Nil, next_free |-> next]

(* GroupIndex.init *)
FreshGroups ==
    [edges       |-> [e \in Edges |->
                        FreeEdge(IF e + 1 < EdgeCapacity THEN e + 1 ELSE Nil)],
     table       |-> [k \in GroupKeys |-> Nil],
     free_head   |-> 0,
     group_head  |-> [s \in Slots |-> Nil],
     group_quota |-> EmptyQuota]

EdgeKey(g, e) == <<g.edges[e].realm, g.edges[e].group_id>>

NextFreeEdge(g) == [e \in Edges |-> g.edges[e].next_free]

NextInGroup(g) == [e \in Edges |-> g.edges[e].next_in_group]

NextOfSlot(g) == [e \in Edges |-> g.edges[e].next_of_slot]

SlotEdges(g, s) == Walk(NextOfSlot(g), g.group_head[s])

GroupEdges(g, realm, group) == Walk(NextInGroup(g), g.table[<<realm, group>>])

Mut_NeverMember(g, s, realm, group) == FALSE

(* isGroupMember: follows the session's chain *)
IsGroupMember(g, s, realm, group) ==
    \E e \in SlotEdges(g, s) : EdgeKey(g, e) = <<realm, group>>

CanJoin(g, realm) ==
    /\ g.free_head # Nil
    /\ Allows(g.group_quota, EdgeCapacity, realm)

(* joinGroup, once the session is known not to be a member *)
Join(g, s, realm, group) ==
    LET e == g.free_head IN
    [edges       |-> [g.edges EXCEPT ![e] =
                        [in_use        |-> TRUE,
                         realm         |-> realm,
                         group_id      |-> group,
                         slot          |-> s,
                         next_in_group |-> g.table[<<realm, group>>],
                         next_of_slot  |-> g.group_head[s],
                         next_free     |-> Nil]],
     table       |-> [g.table EXCEPT ![<<realm, group>>] = e],
     free_head   |-> g.edges[e].next_free,
     group_head  |-> [g.group_head EXCEPT ![s] = e],
     group_quota |-> Acquire(g.group_quota, realm)]

(* releaseGroupEdge: off both chains, back to the pool, one cell released. *)
(* Each walk stops at the one edge that points to e.                       *)
ReleaseGroupEdge(g, s, e) ==
    LET edge == g.edges[e]
        isHead == g.table[EdgeKey(g, e)] = e
        isSlotHead == g.group_head[s] = e
        relinked(p) ==
            [g.edges[p] EXCEPT
               !.next_in_group = IF /\ ~isHead
                                    /\ g.edges[p].in_use
                                    /\ EdgeKey(g, p) = EdgeKey(g, e)
                                    /\ @ = e
                                 THEN edge.next_in_group ELSE @,
               !.next_of_slot  = IF /\ ~isSlotHead
                                    /\ g.edges[p].in_use
                                    /\ g.edges[p].slot = s
                                    /\ @ = e
                                 THEN edge.next_of_slot ELSE @]
    IN [edges       |-> [p \in Edges |-> IF p = e THEN FreeEdge(g.free_head)
                                                  ELSE relinked(p)],
        table       |-> IF isHead
                        THEN [g.table EXCEPT ![EdgeKey(g, e)] = edge.next_in_group]
                        ELSE g.table,
        free_head   |-> e,
        group_head  |-> IF isSlotHead
                        THEN [g.group_head EXCEPT ![s] = edge.next_of_slot]
                        ELSE g.group_head,
        group_quota |-> Release(g.group_quota, edge.realm)]

(* leaveGroup: the first edge of the session's chain that matches, the one *)
(* from which all that match can still be met                              *)
Leave(g, s, realm, group) ==
    LET matching == {e \in SlotEdges(g, s) : EdgeKey(g, e) = <<realm, group>>}
        first == CHOOSE e \in matching : matching \subseteq Walk(NextOfSlot(g), e)
    IN IF matching = {} THEN g ELSE ReleaseGroupEdge(g, s, first)

(* leaveAllGroups: while the session has a head edge, release it.  The     *)
(* pool bounds the rounds.                                                 *)
LeaveAll(g, s) ==
    LET after[n \in 0 .. EdgeCapacity] ==
            IF n = 0 THEN g
            ELSE LET left == after[n - 1]
                 IN IF left.group_head[s] = Nil THEN left
                    ELSE ReleaseGroupEdge(left, s, left.group_head[s])
    IN after[EdgeCapacity]

(* groupConnections: the slots a fan-out visits *)
GroupConnections(g, realm, group) ==
    {g.edges[e].slot : e \in GroupEdges(g, realm, group)}
===============================================================================
