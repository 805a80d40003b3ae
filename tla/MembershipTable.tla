--------------------------- MODULE MembershipTable ----------------------------
(***************************************************************************)
(* The membership table of control/membership/mod.zig: for each node four  *)
(* buffers and the number of the last publication.  The SWIM thread fills  *)
(* the buffer after the published one and then stores the number; any      *)
(* other thread reads without a lock, copies the published buffer and      *)
(* keeps the copy when the number has not gone on too far meanwhile.       *)
(*                                                                         *)
(* A buffer is written and copied in pieces, in any order within one copy; *)
(* between the copies and the numbers the order is that of the program, as *)
(* on x86.  On weaker hardware, where a copy may sink below the second     *)
(* load, readers see more than this.  What a Data holds is the number of   *)
(* the upsert that wrote it, 0 for none.  The two counters, which only     *)
(* the writer uses, are left out.                                          *)
(***************************************************************************)
EXTENDS Integers

CONSTANTS
    Nodes,     \* node ids below max_nodes
    Readers,   \* threads that look up
    Pieces,    \* what is copied at once: parts of a Data
    SeqMod,    \* the sequence is a u32
    MaxUpserts \* bound: upserts of one node

buffer_count == 4

ASSUME TableAssumption ==
    /\ SeqMod \in Nat \ {0} /\ SeqMod % buffer_count = 0 /\ SeqMod > buffer_count
    /\ MaxUpserts \in Nat

Data == [Pieces -> Nat]
Slot == [sequence : 0 .. SeqMod - 1, buffers : [0 .. buffer_count - 1 -> Data]]

VARIABLES
    slots,    \* the table
    writer,   \* the SWIM thread
    reader,   \* the lookup of each thread
    upserts,  \* history: how many times each node was published
    result,   \* history: what each thread's last lookup returned
    seen,     \* history: the newest of each piece that a thread was given
    sure      \* history: the same, copies at the largest distance left out

vars == <<slots, writer, reader, upserts, result, seen, sure>>

Init ==
    /\ slots = [node \in Nodes |-> [sequence |-> 0,
          buffers |-> [i \in 0 .. buffer_count - 1 |-> [p \in Pieces |-> 0]]]]
    /\ writer = [pc |-> "idle"]
    /\ reader = [r \in Readers |-> [pc |-> "idle"]]
    /\ upserts = [node \in Nodes |-> 0]
    /\ result = [r \in Readers |-> [found |-> FALSE]]
    /\ seen = [r \in Readers |-> [node \in Nodes |-> [p \in Pieces |-> 0]]]
    /\ sure = [r \in Readers |-> [node \in Nodes |-> [p \in Pieces |-> 0]]]

(***************************************************************************)
(* upsert                                                                  *)
(***************************************************************************)
(* +% 1 on a u32 *)
Successor(sequence) == (sequence + 1) % SeqMod

Mut_SameBuffer(sequence) == sequence % buffer_count
WriteBuffer(sequence) == Successor(sequence) % buffer_count

(* bound: no reader stays behind for a whole period of the number *)
WithinPeriod(node) ==
    \A r \in Readers :
        (reader[r].pc = "copying" /\ reader[r].node = node)
            => upserts[node] + 1 < reader[r].at + SeqMod

StartUpsert(node) ==
    /\ writer.pc = "idle"
    /\ upserts[node] < MaxUpserts /\ WithinPeriod(node)
    /\ writer' = [pc |-> "filling", node |-> node, left |-> Pieces]
    /\ UNCHANGED <<slots, reader, upserts, result, seen, sure>>

Fill(p) ==
    /\ writer.pc = "filling" /\ p \in writer.left
    /\ slots' = [slots EXCEPT
          ![writer.node].buffers[WriteBuffer(slots[writer.node].sequence)][p] = upserts[writer.node] + 1]
    /\ writer' = [writer EXCEPT !.left = @ \ {p}]
    /\ UNCHANGED <<reader, upserts, result, seen, sure>>

Publish ==
    LET node == writer.node
    IN  /\ writer.pc = "filling" /\ writer.left = {}
        /\ WithinPeriod(node)
        /\ slots' = [slots EXCEPT ![node].sequence = Successor(@)]
        /\ upserts' = [upserts EXCEPT ![node] = @ + 1]
        /\ writer' = [pc |-> "idle"]
        /\ UNCHANGED <<reader, result, seen, sure>>

(***************************************************************************)
(* lookup                                                                  *)
(***************************************************************************)
StartLookup(r, node) ==
    /\ reader[r].pc = "idle"
    /\ reader' = [reader EXCEPT ![r] = [pc |-> "loading", node |-> node]]
    /\ UNCHANGED <<slots, writer, upserts, result, seen, sure>>

LoadFirst(r) ==
    LET node  == reader[r].node
        first == slots[node].sequence
    IN  /\ reader[r].pc = "loading"
        /\ \/ /\ first = 0
              /\ reader' = [reader EXCEPT ![r] = [pc |-> "idle"]]
              /\ result' = [result EXCEPT ![r] = [found |-> FALSE]]
           \/ /\ first # 0
              /\ reader' = [reader EXCEPT ![r] =
                    [pc |-> "copying", node |-> node, first |-> first, left |-> Pieces,
                     data |-> [p \in Pieces |-> 0], at |-> upserts[node]]]
              /\ UNCHANGED result
        /\ UNCHANGED <<slots, writer, upserts, seen, sure>>

Copy(r, p) ==
    /\ reader[r].pc = "copying" /\ p \in reader[r].left
    /\ reader' = [reader EXCEPT
          ![r].data[p] = slots[reader[r].node].buffers[reader[r].first % buffer_count][p],
          ![r].left = @ \ {p}]
    /\ UNCHANGED <<slots, writer, upserts, result, seen, sure>>

Distance(first, second) == (second - first) % SeqMod

Mut_NoWrap(first, second) == second - first < buffer_count
Accepts(first, second) == Distance(first, second) < buffer_count

Lapped(first, second) == Distance(first, second) = buffer_count - 1

Newer(old, data) == [p \in Pieces |-> IF data[p] > old[p] THEN data[p] ELSE old[p]]

LoadSecond(r) ==
    LET read   == reader[r]
        second == slots[read.node].sequence
    IN  /\ read.pc = "copying" /\ read.left = {}
        /\ \/ /\ Accepts(read.first, second)
              /\ reader' = [reader EXCEPT ![r] = [pc |-> "idle"]]
              /\ result' = [result EXCEPT ![r] =
                    [found |-> TRUE, node |-> read.node, data |-> read.data, at |-> read.at,
                     lapped |-> Lapped(read.first, second)]]
              /\ seen' = [seen EXCEPT ![r][read.node] = Newer(@, read.data)]
              /\ sure' = IF Lapped(read.first, second) THEN sure
                         ELSE [sure EXCEPT ![r][read.node] = Newer(@, read.data)]
           \/ /\ ~Accepts(read.first, second)
              /\ reader' = [reader EXCEPT ![r] = [pc |-> "loading", node |-> read.node]]
              /\ UNCHANGED <<result, seen, sure>>
        /\ UNCHANGED <<slots, writer, upserts>>

Next ==
    \/ \E node \in Nodes : StartUpsert(node)
    \/ \E p \in Pieces : Fill(p)
    \/ Publish
    \/ \E r \in Readers :
          \/ \E node \in Nodes : StartLookup(r, node)
          \/ LoadFirst(r)
          \/ \E p \in Pieces : Copy(r, p)
          \/ LoadSecond(r)

Spec == Init /\ [][Next]_vars

(***************************************************************************)
(* Properties                                                              *)
(***************************************************************************)
Reading ==
    [pc : {"idle"}] \cup [pc : {"loading"}, node : Nodes]
    \cup [pc : {"copying"}, node : Nodes, first : 1 .. SeqMod - 1, left : SUBSET Pieces,
          data : Data, at : Nat]

TypeOK ==
    /\ slots \in [Nodes -> Slot]
    /\ writer \in [pc : {"idle"}]
                  \cup [pc : {"filling"}, node : Nodes, left : SUBSET Pieces]
    /\ reader \in [Readers -> Reading]
    /\ upserts \in [Nodes -> Nat]
    /\ result \in [Readers -> [found : {FALSE}] \cup
          [found : {TRUE}, node : Nodes, data : Data, at : Nat, lapped : BOOLEAN]]
    /\ seen \in [Readers -> [Nodes -> Data]]
    /\ sure \in [Readers -> [Nodes -> Data]]

(* A lookup that is accepted returns one upsert, the one that was current  *)
(* when it began, although the writer goes on meanwhile and the number     *)
(* wraps; the largest distance the code accepts is left out.               *)
WholeSnapshot ==
    \A r \in Readers :
        LET got == result[r]
        IN  (got.found /\ ~got.lapped)
                => \A p \in Pieces : got.data[p] = got.at

(* What lookup gives a thread of a node, torn copies included, is never    *)
(* older than what it gave that thread before by more than one upsert, and *)
(* older by that one only after a copy at the largest distance: such a     *)
(* copy, which lookup accepts, may hold pieces of an upsert that is being  *)
(* written and not published yet.  That lookup says unknown where the      *)
(* number wraps to 0 is no copy and not looked at here.                    *)
NeverBackwards ==
    [][\A r \in Readers :
          LET got == result'[r]
          IN  (got # result[r] /\ got.found) =>
                 \A p \in Pieces, q \in Pieces :
                    /\ got.data[p] >= sure[r][got.node][q]
                    /\ got.data[p] + 1 >= seen[r][got.node][q]]_vars

===============================================================================
