------------------------ MODULE MembershipTableProofs -------------------------
(***************************************************************************)
(* What lookup promises, for any number of nodes, readers, pieces and      *)
(* upserts and any width of the number: what it accepts below the largest  *)
(* distance is the upsert that was current when it began, and what it      *)
(* accepts at all is at most one upsert older than what it gave before.    *)
(*                                                                         *)
(* The argument: the last three publications of a node are whole whatever  *)
(* the writer is doing (Whole), since it fills the buffer of the fourth;   *)
(* so what a reader has copied is still in its buffer as long as it is at  *)
(* most two behind (ReadersInv).  In the buffer of the fourth stands that  *)
(* publication or the upsert being written (LastFour), which bounds from   *)
(* both sides what a thread may ever be given (OrderInv).                  *)
(***************************************************************************)
EXTENDS MembershipTable, ModularArithmetic, TLAPS

(* The number is the count of upserts, taken modulo its width. *)
SequenceInv == \A node \in Nodes : slots[node].sequence = upserts[node] % SeqMod

BufferOf(k) == k % buffer_count

(* The last three publications. *)
Whole ==
    \A node \in Nodes, k \in Nat :
        (k >= 1 /\ k <= upserts[node] /\ upserts[node] <= k + 2)
            => \A p \in Pieces : slots[node].buffers[BufferOf(k)][p] = k

(* Pieces in the table are at most one ahead of the count, and the buffers *)
(* of the last four publications hold nothing older than these.            *)
LastFour ==
    \A node \in Nodes :
       /\ \A i \in 0 .. buffer_count - 1, p \in Pieces :
             slots[node].buffers[i][p] <= upserts[node] + 1
       /\ \A k \in Nat :
             (k >= 1 /\ k <= upserts[node] /\ upserts[node] <= k + 3)
                 => \A p \in Pieces : slots[node].buffers[BufferOf(k)][p] >= k

WriterInv ==
    writer.pc = "filling" =>
        \A p \in Pieces \ writer.left :
            slots[writer.node].buffers[BufferOf(upserts[writer.node] + 1)][p] = upserts[writer.node] + 1

(* A reader, when count upserts of its node have been published and its    *)
(* buffers are these.                                                      *)
ReaderInv(read, count, buffers) ==
    read.pc = "copying" =>
        /\ read.at >= 1 /\ read.at <= count /\ count < read.at + SeqMod
        /\ read.first = read.at % SeqMod
        /\ count <= read.at + 2
              => \A p \in Pieces \ read.left : read.data[p] = buffers[BufferOf(read.at)][p]

ReadersInv ==
    \A r \in Readers : ReaderInv(reader[r], upserts[reader[r].node], slots[reader[r].node].buffers)

TableInv ==
    /\ TypeOK
    /\ SequenceInv
    /\ Whole
    /\ LastFour
    /\ WriterInv
    /\ ReadersInv
    /\ WholeSnapshot

-------------------------------------------------------------------------------
(* Arithmetic of numbers and buffers *)

(* The buffer of a number is that of the count, as the width is a multiple *)
(* of buffer_count.                                                        *)
LEMMA BufferOfSequence ==
    ASSUME NEW a \in Nat
    PROVE  (a % SeqMod) % buffer_count = BufferOf(a)
  <1> DEFINE k == SeqMod \div 4
             q == a \div SeqMod
             r == a % SeqMod
             d == k * q
  <1>1. SeqMod \in Nat \ {0} /\ SeqMod % 4 = 0
    BY TableAssumption DEF buffer_count
  <1>2. SeqMod = 4 * k /\ k \in Nat
    BY <1>1, DivMod
  <1>3. r \in Nat /\ q \in Nat /\ a = SeqMod * q + r
    BY <1>1, DivMod
  <1>4. SeqMod * q = 4 * d /\ d \in Int
    <2> HIDE DEF k, q
    <2> QED BY <1>2, <1>3
  <1>5. a = 4 * d + r
    BY <1>3, <1>4
  <1>6. a % 4 = r % 4
    <2> HIDE DEF r, d
    <2> QED BY <1>3, <1>4, <1>5, ModShift
  <1> QED BY <1>6 DEF BufferOf, buffer_count

(* The number after a count is that of the next count. *)
LEMMA NextSequence ==
    ASSUME NEW a \in Nat
    PROVE  /\ Successor(a % SeqMod) = (a + 1) % SeqMod
           /\ WriteBuffer(a % SeqMod) = BufferOf(a + 1)
  <1>1. SeqMod \in Nat \ {0}
    BY TableAssumption
  <1>2. ((a % SeqMod) + 1) % SeqMod = (a + 1) % SeqMod
    BY <1>1, ModSucc
  <1>3. a + 1 \in Nat
    OBVIOUS
  <1> QED BY <1>2, <1>3, BufferOfSequence DEF WriteBuffer, Successor

(* The distance of two numbers is that of their counts. *)
LEMMA DistanceOfCounts ==
    ASSUME NEW a \in Nat, NEW b \in Nat, a <= b, b < a + SeqMod
    PROVE  Distance(a % SeqMod, b % SeqMod) = b - a
  <1> DEFINE m == SeqMod
             p == a \div m
             q == b \div m
             x == (b % m) - (a % m)
             y == x \div m
             z == x % m
  <1>1. m \in Nat \ {0}
    BY TableAssumption
  <1>2. /\ a % m \in Int /\ p \in Int /\ a = m * p + (a % m)
        /\ b % m \in Int /\ q \in Int /\ b = m * q + (b % m)
    BY <1>1, DivMod
  <1>3. x \in Int /\ x = (b - a) - (m * q - m * p)
    <2> DEFINE v == m * p
               w == m * q
               f == a % m
               g == b % m
    <2>1. v \in Int /\ w \in Int
      <3> HIDE DEF p, q, m
      <3> QED BY <1>1, <1>2
    <2>2. f \in Int /\ g \in Int /\ a = v + f /\ b = w + g /\ x = g - f
      BY <1>2
    <2> HIDE DEF v, w, f, g, x
    <2>3. x \in Int /\ x = (b - a) - (w - v)
      BY <2>1, <2>2
    <2> QED BY <2>3 DEF v, w
  <1>4. m * (p - q) = m * p - m * q /\ p - q \in Int
    <2> HIDE DEF p, q, m
    <2> QED BY <1>1, <1>2, MulSub
  <1>5. x = m * (p - q) + (b - a)
    <2> DEFINE v == m * p
               w == m * q
               u == m * (p - q)
    <2>1. v \in Int /\ w \in Int
      <3> HIDE DEF p, q, m
      <3> QED BY <1>1, <1>2
    <2>2. u = v - w /\ x = (b - a) - (w - v)
      BY <1>3, <1>4
    <2> HIDE DEF u, v, w, x
    <2>3. x = u + (b - a)
      BY <2>1, <2>2
    <2> QED BY <2>3 DEF u
  <1>6. y \in Int /\ z \in 0 .. m - 1 /\ x = m * y + z
    <2> HIDE DEF x, m
    <2> QED BY <1>1, <1>3
  <1>7. b - a \in 0 .. m - 1
    BY <1>1
  <1>8. z = b - a
    <2> DEFINE d == p - q
               c == b - a
    <2>1. m * d + c = m * y + z /\ d \in Int /\ c \in 0 .. m - 1
      BY <1>4, <1>5, <1>6, <1>7
    <2> HIDE DEF d, y, z, m, c
    <2>2. c = z
      BY <2>1, <1>1, <1>6, ModUnique
    <2> QED BY <2>2 DEF c
  <1> QED BY <1>8 DEF Distance

(* The buffer that is being filled is none of the last three. *)
LEMMA BuffersApart ==
    ASSUME NEW k \in Nat, NEW count \in Nat, k <= count, count <= k + 2
    PROVE  BufferOf(k) # BufferOf(count + 1)
  <1>1. 4 \in Nat \ {0} /\ count + 1 \in Nat
    OBVIOUS
  <1>2. k <= count + 1 /\ (count + 1) - k < 4 /\ k # count + 1
    OBVIOUS
  <1> QED BY <1>1, <1>2, ModEqual DEF BufferOf, buffer_count

(* BufferOf names a buffer. *)
LEMMA BufferOfType ==
    ASSUME NEW k \in Nat
    PROVE  BufferOf(k) \in 0 .. buffer_count - 1
  BY DEF BufferOf, buffer_count

-------------------------------------------------------------------------------
(* The records of the two kinds of thread *)

Copying == [pc : {"copying"}, node : Nodes, first : 1 .. SeqMod - 1, left : SUBSET Pieces,
            data : Data, at : Nat]

Filling == [pc : {"filling"}, node : Nodes, left : SUBSET Pieces]

LEMMA CopyingType ==
    ASSUME TypeOK, NEW r \in Readers, reader[r].pc = "copying"
    PROVE  reader[r] \in Copying
  BY DEF TypeOK, Reading, Copying

LEMMA LoadingType ==
    ASSUME TypeOK, NEW r \in Readers, reader[r].pc = "loading"
    PROVE  reader[r].node \in Nodes
  BY DEF TypeOK, Reading

LEMMA FillingType ==
    ASSUME TypeOK, writer.pc = "filling"
    PROVE  writer \in Filling
  BY DEF TypeOK, Filling

-------------------------------------------------------------------------------
(* Init and the writer *)

(* A new table satisfies the invariant. *)
LEMMA InitInv == Init => TableInv
  <1> SUFFICES ASSUME Init PROVE TableInv
    OBVIOUS
  <1>1. SeqMod \in Nat \ {0} /\ 0 % SeqMod = 0
    BY TableAssumption
  <1>2. TypeOK
    BY <1>1 DEF Init, TypeOK, Slot, Data, Reading
  <1>3. SequenceInv
    BY <1>1 DEF Init, SequenceInv
  <1>4. Whole /\ WriterInv /\ WholeSnapshot
    BY DEF Init, Whole, WriterInv, WholeSnapshot
  <1>5. ReadersInv
    BY DEF Init, ReadersInv, ReaderInv
  <1>6. LastFour
    <2>1. \A node \in Nodes : upserts[node] = 0
      BY DEF Init
    <2>2. \A node \in Nodes, i \in 0 .. buffer_count - 1, p \in Pieces :
             slots[node].buffers[i][p] = 0
      BY DEF Init
    <2>3. ASSUME NEW node \in Nodes, NEW i \in 0 .. buffer_count - 1, NEW p \in Pieces
          PROVE  slots[node].buffers[i][p] <= upserts[node] + 1
      <3>1. slots[node].buffers[i][p] = 0 /\ upserts[node] = 0
        BY <2>1, <2>2
      <3> QED BY <3>1
    <2>4. ASSUME NEW node \in Nodes, NEW k \in Nat
          PROVE  ~(k >= 1 /\ k <= upserts[node])
      BY <2>1
    <2> QED BY <2>3, <2>4 DEF LastFour
  <1> QED BY <1>2, <1>3, <1>4, <1>5, <1>6 DEF TableInv

(* An upsert begins. *)
LEMMA StartUpsertInv ==
    ASSUME TableInv, NEW node \in Nodes, StartUpsert(node)
    PROVE  TableInv'
  <1> USE DEF TableInv
  <1>1. TypeOK'
    BY DEF StartUpsert, TypeOK, Slot, Reading
  <1>2. SequenceInv' /\ Whole' /\ LastFour' /\ WholeSnapshot'
    BY DEF StartUpsert, SequenceInv, Whole, LastFour, WholeSnapshot
  <1>3. WriterInv'
    BY DEF StartUpsert, WriterInv
  <1>4. ReadersInv'
    BY DEF StartUpsert, ReadersInv, ReaderInv
  <1> QED BY <1>1, <1>2, <1>3, <1>4

(* A piece is written: into the buffer of the next upsert, which no reader *)
(* that is at most two behind copies.                                      *)
LEMMA FillInv ==
    ASSUME TableInv, NEW p \in Pieces, Fill(p)
    PROVE  TableInv'
  <1> USE DEF TableInv
  <1> DEFINE node == writer.node
             count == upserts[node]
             b == BufferOf(count + 1)
  <1>1. writer \in Filling /\ node \in Nodes /\ count \in Nat
    BY FillingType DEF Fill, Filling, TypeOK
  <1>2. b \in 0 .. buffer_count - 1
    BY <1>1, BufferOfType
  <1>3. WriteBuffer(slots[node].sequence) = b
    BY <1>1, NextSequence DEF SequenceInv
  <1>4. slots' = [slots EXCEPT ![node].buffers[b][p] = count + 1]
    BY <1>3 DEF Fill
  <1>5. /\ writer' = [writer EXCEPT !.left = writer.left \ {p}]
        /\ UNCHANGED <<reader, upserts, result, seen, sure>>
    BY DEF Fill
  <1>6. /\ slots \in [Nodes -> Slot]
        /\ slots[node].buffers \in [0 .. buffer_count - 1 -> Data]
        /\ slots[node].buffers[b] \in [Pieces -> Nat]
    <2>1. slots \in [Nodes -> Slot]
      BY DEF TypeOK
    <2> HIDE DEF node, b
    <2>2. slots[node].buffers \in [0 .. buffer_count - 1 -> Data]
      BY <1>1, <2>1 DEF Slot
    <2>3. slots[node].buffers[b] \in Data
      BY <1>2, <2>2
    <2> QED BY <2>1, <2>2, <2>3 DEF Data
  <1> HIDE DEF node, count, b
  <1>7. /\ \A n \in Nodes : slots'[n].sequence = slots[n].sequence
        /\ \A n \in Nodes, i \in 0 .. buffer_count - 1, q \in Pieces :
              slots'[n].buffers[i][q] =
                IF n = node /\ i = b /\ q = p THEN count + 1 ELSE slots[n].buffers[i][q]
    BY <1>1, <1>2, <1>4, <1>6 DEF Slot, Data
  <1>8. slots' \in [Nodes -> Slot]
    <2> DEFINE data == [slots[node].buffers[b] EXCEPT ![p] = count + 1]
               buffers == [slots[node].buffers EXCEPT ![b] = data]
               slot == [slots[node] EXCEPT !.buffers = buffers]
    <2>1. data \in Data
      BY <1>1, <1>6 DEF Data
    <2>2. buffers \in [0 .. buffer_count - 1 -> Data]
      BY <1>6, <2>1
    <2>3. slot \in Slot
      <3> HIDE DEF buffers
      <3> QED BY <1>1, <1>6, <2>2 DEF Slot
    <2>4. slots' = [slots EXCEPT ![node] = slot]
      BY <1>4
    <2> HIDE DEF slot
    <2> QED BY <1>6, <2>3, <2>4
  <1>9. TypeOK'
    BY <1>1, <1>5, <1>8 DEF TypeOK, Filling, Reading
  <1>10. SequenceInv' /\ WholeSnapshot'
    BY <1>5, <1>7 DEF SequenceInv, WholeSnapshot
  <1>11. Whole'
    <2> SUFFICES ASSUME NEW n \in Nodes, NEW k \in Nat, NEW q \in Pieces,
                        k >= 1, k <= upserts[n], upserts[n] <= k + 2
                 PROVE  slots'[n].buffers[BufferOf(k)][q] = k
      BY <1>5 DEF Whole
    <2>1. slots[n].buffers[BufferOf(k)][q] = k
      BY DEF Whole
    <2>2. n = node => BufferOf(k) # b
      BY <1>1, BuffersApart DEF count, b
    <2> QED BY <1>7, <2>1, <2>2, BufferOfType
  <1>12. WriterInv'
    BY <1>1, <1>2, <1>5, <1>7 DEF WriterInv, Filling, node, count, b
  <1>13. LastFour'
    <2>1. ASSUME NEW n \in Nodes, NEW i \in 0 .. buffer_count - 1, NEW q \in Pieces
          PROVE  slots'[n].buffers[i][q] <= upserts[n] + 1
      <3>1. slots[n].buffers[i][q] <= upserts[n] + 1
        BY DEF LastFour
      <3>2. \/ slots'[n].buffers[i][q] = slots[n].buffers[i][q]
            \/ n = node /\ slots'[n].buffers[i][q] = count + 1
        BY <1>7
      <3> QED BY <1>1, <3>1, <3>2 DEF count
    <2>2. ASSUME NEW n \in Nodes, NEW k \in Nat, NEW q \in Pieces,
                 k >= 1, k <= upserts[n], upserts[n] <= k + 3
          PROVE  slots'[n].buffers[BufferOf(k)][q] >= k
      <3>1. slots[n].buffers[BufferOf(k)][q] >= k
        BY <2>2 DEF LastFour
      <3>2. \/ slots'[n].buffers[BufferOf(k)][q] = slots[n].buffers[BufferOf(k)][q]
            \/ n = node /\ slots'[n].buffers[BufferOf(k)][q] = count + 1
        BY <1>7, BufferOfType
      <3> QED BY <1>1, <2>2, <3>1, <3>2 DEF count
    <2> QED BY <1>5, <2>1, <2>2 DEF LastFour
  <1>14. ReadersInv'
    <2> SUFFICES ASSUME NEW r \in Readers, reader[r].pc = "copying"
                 PROVE  ReaderInv(reader[r], upserts[reader[r].node], slots'[reader[r].node].buffers)
      BY <1>5 DEF ReadersInv, ReaderInv
    <2> DEFINE read == reader[r]
    <2>1. read \in Copying
      BY CopyingType
    <2>2. ReaderInv(read, upserts[read.node], slots[read.node].buffers)
      BY DEF ReadersInv
    <2>3. ASSUME upserts[read.node] <= read.at + 2, NEW q \in Pieces \ read.left
          PROVE  read.data[q] = slots'[read.node].buffers[BufferOf(read.at)][q]
      <3>1. /\ read.node \in Nodes /\ read.at \in Nat /\ upserts[read.node] \in Nat
            /\ read.at <= upserts[read.node]
        BY <2>1, <2>2 DEF Copying, ReaderInv, TypeOK
      <3>2. read.node = node => BufferOf(read.at) # b
        BY <2>3, <3>1, BuffersApart DEF count, b
      <3>3. read.data[q] = slots[read.node].buffers[BufferOf(read.at)][q]
        BY <2>2, <2>3 DEF ReaderInv
      <3> QED BY <1>7, <3>1, <3>2, <3>3, BufferOfType
    <2> QED BY <2>2, <2>3 DEF ReaderInv
  <1> QED BY <1>9, <1>10, <1>11, <1>12, <1>13, <1>14

(* The number is stored: the buffer that was filled is now the last        *)
(* publication, and readers are one further behind.                        *)
LEMMA PublishInv ==
    ASSUME TableInv, Publish
    PROVE  TableInv'
  <1> USE DEF TableInv
  <1> DEFINE node == writer.node
             count == upserts[node]
  <1>1. writer \in Filling /\ writer.left = {} /\ node \in Nodes /\ count \in Nat
    BY FillingType DEF Publish, Filling, TypeOK
  <1>2. /\ slots' = [slots EXCEPT ![node].sequence = Successor(slots[node].sequence)]
        /\ upserts' = [upserts EXCEPT ![node] = count + 1]
        /\ writer' = [pc |-> "idle"]
        /\ UNCHANGED <<reader, result, seen, sure>>
    BY DEF Publish
  <1>3. Successor(slots[node].sequence) = (count + 1) % SeqMod
    BY <1>1, NextSequence DEF SequenceInv
  <1>4. (count + 1) % SeqMod \in 0 .. SeqMod - 1
    <2>1. SeqMod \in Nat \ {0} /\ count + 1 \in Nat
      BY <1>1, TableAssumption
    <2> QED BY <2>1, DivMod
  <1>5. \A p \in Pieces : slots[node].buffers[BufferOf(count + 1)][p] = count + 1
    BY <1>1 DEF WriterInv, Publish
  <1>6. \A r \in Readers :
           (reader[r].pc = "copying" /\ reader[r].node = node) => count + 1 < reader[r].at + SeqMod
    BY DEF Publish, WithinPeriod
  <1> HIDE DEF node, count
  <1>7. /\ slots' \in [Nodes -> Slot] /\ upserts' \in [Nodes -> Nat]
        /\ \A n \in Nodes : slots'[n].buffers = slots[n].buffers
        /\ \A n \in Nodes : slots'[n].sequence =
              IF n = node THEN (count + 1) % SeqMod ELSE slots[n].sequence
        /\ \A n \in Nodes : upserts'[n] = IF n = node THEN count + 1 ELSE upserts[n]
    <2> DEFINE next == (count + 1) % SeqMod
    <2>1. slots' = [slots EXCEPT ![node].sequence = next] /\ next \in 0 .. SeqMod - 1
      BY <1>2, <1>3, <1>4
    <2>2. slots \in [Nodes -> Slot] /\ upserts \in [Nodes -> Nat]
      BY DEF TypeOK
    <2> HIDE DEF next
    <2>3. /\ slots' \in [Nodes -> Slot]
          /\ \A n \in Nodes : slots'[n].buffers = slots[n].buffers
          /\ \A n \in Nodes : slots'[n].sequence = IF n = node THEN next ELSE slots[n].sequence
      BY <1>1, <2>1, <2>2 DEF Slot
    <2>4. /\ upserts' \in [Nodes -> Nat]
          /\ \A n \in Nodes : upserts'[n] = IF n = node THEN count + 1 ELSE upserts[n]
      BY <1>1, <1>2, <2>2
    <2> QED BY <2>3, <2>4 DEF next
  <1>8. TypeOK'
    BY <1>2, <1>7 DEF TypeOK, Reading
  <1>9. SequenceInv'
    BY <1>7 DEF SequenceInv
  <1>10. WriterInv' /\ WholeSnapshot'
    BY <1>2 DEF WriterInv, WholeSnapshot
  <1>11. Whole'
    <2> SUFFICES ASSUME NEW n \in Nodes, NEW k \in Nat, NEW q \in Pieces,
                        k >= 1, k <= upserts'[n], upserts'[n] <= k + 2
                 PROVE  slots'[n].buffers[BufferOf(k)][q] = k
      BY DEF Whole
    <2>1. upserts[n] \in Nat
      BY DEF TypeOK
    <2>2. CASE n = node /\ k = count + 1
      BY <1>5, <1>7, <2>2
    <2>3. CASE ~(n = node /\ k = count + 1)
      <3>1. k <= upserts[n] /\ upserts[n] <= k + 2
        BY <1>1, <1>7, <2>1, <2>3 DEF count
      <3> QED BY <1>7, <3>1 DEF Whole
    <2> QED BY <2>2, <2>3
  <1>12. LastFour'
    <2>1. ASSUME NEW n \in Nodes, NEW i \in 0 .. buffer_count - 1, NEW q \in Pieces
          PROVE  slots'[n].buffers[i][q] <= upserts'[n] + 1
      <3>1. slots[n].buffers[i][q] <= upserts[n] + 1 /\ upserts[n] \in Nat
        BY DEF LastFour, TypeOK
      <3>2. slots[n] \in Slot
        BY DEF TypeOK
      <3>3. slots[n].buffers[i] \in Data
        BY <3>2 DEF Slot
      <3>4. slots[n].buffers[i][q] \in Nat
        BY <3>3 DEF Data
      <3>5. upserts'[n] = upserts[n] \/ upserts'[n] = upserts[n] + 1
        BY <1>7 DEF count
      <3>6. slots'[n].buffers[i][q] = slots[n].buffers[i][q]
        BY <1>7
      <3> QED BY <3>1, <3>4, <3>5, <3>6
    <2>2. ASSUME NEW n \in Nodes, NEW k \in Nat, NEW q \in Pieces,
                 k >= 1, k <= upserts'[n], upserts'[n] <= k + 3
          PROVE  slots'[n].buffers[BufferOf(k)][q] >= k
      <3>1. upserts[n] \in Nat
        BY DEF TypeOK
      <3>2. CASE n = node /\ k = count + 1
        BY <1>1, <1>5, <1>7, <3>2
      <3>3. CASE ~(n = node /\ k = count + 1)
        <4>1. k <= upserts[n] /\ upserts[n] <= k + 3
          BY <1>1, <1>7, <2>2, <3>1, <3>3 DEF count
        <4> QED BY <1>7, <2>2, <4>1 DEF LastFour
      <3> QED BY <3>2, <3>3
    <2> QED BY <2>1, <2>2 DEF LastFour
  <1>13. ReadersInv'
    <2> SUFFICES ASSUME NEW r \in Readers, reader[r].pc = "copying"
                 PROVE  ReaderInv(reader[r], upserts'[reader[r].node], slots'[reader[r].node].buffers)
      BY <1>2 DEF ReadersInv, ReaderInv
    <2> DEFINE read == reader[r]
    <2>1. read \in Copying
      BY CopyingType
    <2>2. ReaderInv(read, upserts[read.node], slots[read.node].buffers)
      BY DEF ReadersInv
    <2>3. /\ read.node \in Nodes /\ read.at \in Nat /\ upserts[read.node] \in Nat
          /\ slots'[read.node].buffers = slots[read.node].buffers
      BY <1>7, <2>1 DEF Copying, TypeOK
    <2>4. /\ upserts[read.node] <= upserts'[read.node]
          /\ upserts'[read.node] < read.at + SeqMod
      BY <1>1, <1>6, <1>7, <2>2, <2>3 DEF ReaderInv, count
    <2>5. upserts'[read.node] \in Nat
      BY <1>7, <2>3
    <2> QED BY <2>2, <2>3, <2>4, <2>5 DEF ReaderInv
  <1> QED BY <1>8, <1>9, <1>10, <1>11, <1>12, <1>13

-------------------------------------------------------------------------------
(* The readers *)

(* A lookup begins. *)
LEMMA StartLookupInv ==
    ASSUME TableInv, NEW r \in Readers, NEW node \in Nodes, StartLookup(r, node)
    PROVE  TableInv'
  <1> USE DEF TableInv
  <1>1. TypeOK'
    BY DEF StartLookup, TypeOK, Reading
  <1>2. SequenceInv' /\ Whole' /\ LastFour' /\ WriterInv' /\ WholeSnapshot'
    BY DEF StartLookup, SequenceInv, Whole, LastFour, WriterInv, WholeSnapshot
  <1>3. ReadersInv'
    BY DEF StartLookup, ReadersInv, ReaderInv, TypeOK
  <1> QED BY <1>1, <1>2, <1>3

(* The first number is loaded; 0 ends the lookup. *)
LEMMA LoadFirstInv ==
    ASSUME TableInv, NEW r \in Readers, LoadFirst(r)
    PROVE  TableInv'
  <1> USE DEF TableInv
  <1> DEFINE node  == reader[r].node
             first == slots[node].sequence
             count == upserts[node]
             read  == [pc |-> "copying", node |-> node, first |-> first, left |-> Pieces,
                       data |-> [p \in Pieces |-> 0], at |-> count]
  <1>1. node \in Nodes /\ count \in Nat /\ first \in 0 .. SeqMod - 1 /\ first = count % SeqMod
    BY LoadingType DEF LoadFirst, TypeOK, Slot, SequenceInv
  <1>2. UNCHANGED <<slots, writer, upserts, seen, sure>>
    BY DEF LoadFirst
  <1>3. SequenceInv' /\ Whole' /\ LastFour' /\ WriterInv'
    BY <1>2 DEF SequenceInv, Whole, LastFour, WriterInv
  <1>4. CASE first = 0
    <2>1. /\ reader' = [reader EXCEPT ![r] = [pc |-> "idle"]]
          /\ result' = [result EXCEPT ![r] = [found |-> FALSE]]
      BY <1>4 DEF LoadFirst
    <2>2. TypeOK' /\ WholeSnapshot'
      BY <1>2, <2>1 DEF TypeOK, Reading, WholeSnapshot
    <2>3. ReadersInv'
      BY <1>2, <2>1 DEF ReadersInv, ReaderInv, TypeOK
    <2> QED BY <1>3, <2>2, <2>3
  <1>5. CASE first # 0
    <2>1. reader' = [reader EXCEPT ![r] = read] /\ result' = result
      BY <1>5 DEF LoadFirst
    <2>2. count >= 1
      <3>1. SeqMod \in Nat \ {0} /\ 0 % SeqMod = 0
        BY TableAssumption
      <3>2. count # 0
        BY <1>1, <1>5, <3>1
      <3> QED BY <1>1, <3>2
    <2>3. read \in Copying
      BY <1>1, <1>5 DEF Copying, Data
    <2>4. ReaderInv(read, count, slots[node].buffers)
      <3>1. SeqMod \in Nat \ {0}
        BY TableAssumption
      <3>2. /\ read.at = count /\ read.left = Pieces
            /\ read.first = count % SeqMod
        BY <1>1
      <3> HIDE DEF read
      <3> QED BY <1>1, <2>2, <3>1, <3>2 DEF ReaderInv
    <2>5. read.node = node
      OBVIOUS
    <2> HIDE DEF read
    <2>6. TypeOK' /\ WholeSnapshot'
      BY <1>2, <2>1, <2>3 DEF TypeOK, Reading, Copying, WholeSnapshot
    <2>7. ReadersInv'
      <3> SUFFICES ASSUME NEW t \in Readers
                   PROVE  ReaderInv(reader'[t], upserts[reader'[t].node], slots[reader'[t].node].buffers)
        BY <1>2 DEF ReadersInv
      <3>1. CASE t = r
        BY <2>1, <2>4, <2>5, <3>1 DEF TypeOK
      <3>2. CASE t # r
        BY <2>1, <3>2 DEF TypeOK, ReadersInv
      <3> QED BY <3>1, <3>2
    <2> QED BY <1>3, <2>6, <2>7
  <1> QED BY <1>4, <1>5

(* A piece is copied, from the buffer of the number that was loaded. *)
LEMMA CopyInv ==
    ASSUME TableInv, NEW r \in Readers, NEW p \in Pieces, Copy(r, p)
    PROVE  TableInv'
  <1> USE DEF TableInv
  <1> DEFINE old   == reader[r]
             from  == slots[old.node].buffers
             piece == from[BufferOf(old.at)][p]
             read  == reader'[r]
  <1>1. old \in Copying
    BY CopyingType DEF Copy
  <1>2. ReaderInv(old, upserts[old.node], from)
    BY DEF ReadersInv
  <1>3. old.first % buffer_count = BufferOf(old.at) /\ old.at \in Nat
    BY <1>1, <1>2, BufferOfSequence DEF ReaderInv, Copying, Copy
  <1>4. piece \in Nat
    <2>1. BufferOf(old.at) \in 0 .. buffer_count - 1
      BY <1>3, BufferOfType
    <2>2. old.node \in Nodes
      BY <1>1 DEF Copying
    <2>3. from \in [0 .. buffer_count - 1 -> Data]
      BY <2>2 DEF TypeOK, Slot
    <2> HIDE DEF old, from
    <2>4. from[BufferOf(old.at)] \in Data
      BY <2>1, <2>3
    <2> QED BY <2>4 DEF Data
  <1>5. /\ reader' = [reader EXCEPT ![r].data[p] = piece, ![r].left = old.left \ {p}]
        /\ UNCHANGED <<slots, writer, upserts, result, seen, sure>>
    BY <1>3 DEF Copy
  <1>6. SequenceInv' /\ Whole' /\ LastFour' /\ WriterInv' /\ WholeSnapshot'
    BY <1>5 DEF SequenceInv, Whole, LastFour, WriterInv, WholeSnapshot
  <1>7. /\ \A t \in Readers \ {r} : reader'[t] = reader[t]
        /\ read = [old EXCEPT !.data = [old.data EXCEPT ![p] = piece], !.left = old.left \ {p}]
        /\ DOMAIN reader' = Readers
    <2> HIDE DEF piece
    <2> QED BY <1>5 DEF TypeOK
  <1>8. /\ read.pc = "copying" /\ read.node = old.node /\ read.at = old.at
        /\ read.first = old.first /\ read.left = old.left \ {p}
        /\ read.data = [old.data EXCEPT ![p] = piece]
        /\ read \in Copying
    <2> HIDE DEF old, piece
    <2>1. [old.data EXCEPT ![p] = piece] \in Data
      BY <1>1, <1>4 DEF Copying, Data
    <2> DEFINE data == [old.data EXCEPT ![p] = piece]
               left == old.left \ {p}
    <2>2. data \in Data /\ left \in SUBSET Pieces
      BY <1>1, <2>1 DEF Copying
    <2>3. read = [old EXCEPT !.data = data, !.left = left] /\ old.pc = "copying"
      BY <1>1, <1>7 DEF Copying
    <2> HIDE DEF data, left, read
    <2>4. /\ read.pc = "copying" /\ read.node = old.node /\ read.at = old.at
          /\ read.first = old.first /\ read.left = left /\ read.data = data
          /\ read \in Copying
      BY <1>1, <2>2, <2>3 DEF Copying
    <2> QED BY <2>4 DEF data, left
  <1>9. TypeOK'
    <2>1. reader' = [reader EXCEPT ![r] = read]
      BY <1>5 DEF TypeOK
    <2>2. read \in Reading
      <3> HIDE DEF read
      <3> QED BY <1>8 DEF Copying, Reading
    <2>3. reader' \in [Readers -> Reading]
      <3> HIDE DEF read
      <3> QED BY <2>1, <2>2 DEF TypeOK
    <2> QED BY <1>5, <2>3 DEF TypeOK
  <1>10. ReaderInv(read, upserts[old.node], from)
    <2>1. old.data \in [Pieces -> Nat]
      BY <1>1 DEF Copying, Data
    <2>2. ASSUME NEW q \in Pieces \ read.left, upserts[old.node] <= old.at + 2
          PROVE  read.data[q] = from[BufferOf(old.at)][q]
      <3>1. CASE q = p
        BY <1>8, <2>1, <3>1
      <3>2. CASE q # p
        <4>1. q \in Pieces \ old.left
          BY <1>8, <3>2
        <4>2. old.data[q] = from[BufferOf(old.at)][q]
          BY <1>2, <2>2, <4>1 DEF ReaderInv, Copy
        <4>3. read.data[q] = old.data[q]
          <5> HIDE DEF old, piece, read
          <5> QED BY <1>8, <2>1, <3>2
        <4> QED BY <4>2, <4>3
      <3> QED BY <3>1, <3>2
    <2>3. old.pc = "copying"
      BY DEF Copy
    <2> HIDE DEF read, old, from
    <2> QED BY <1>2, <1>8, <2>2, <2>3 DEF ReaderInv
  <1>11. ReadersInv'
    <2> SUFFICES ASSUME NEW t \in Readers
                 PROVE  ReaderInv(reader'[t], upserts[reader'[t].node], slots[reader'[t].node].buffers)
      BY <1>5 DEF ReadersInv
    <2>1. CASE t = r
      BY <1>8, <1>10, <2>1
    <2>2. CASE t # r
      BY <1>7, <2>2 DEF ReadersInv
    <2> QED BY <2>1, <2>2
  <1> QED BY <1>6, <1>9, <1>11

Given == [found : {TRUE}, node : Nodes, data : Data, at : Nat, lapped : BOOLEAN]

LEMMA NewerType ==
    ASSUME NEW old \in Data, NEW data \in Data
    PROVE  /\ Newer(old, data) \in Data
           /\ \A p \in Pieces : Newer(old, data)[p] = old[p] \/ Newer(old, data)[p] = data[p]
  BY DEF Newer, Data

(* What an accepted copy adds to the history of its thread. *)
LEMMA HistoryStep ==
    ASSUME TypeOK, NEW r \in Readers, LoadSecond(r),
           Accepts(reader[r].first, slots[reader[r].node].sequence)
    PROVE  LET read == reader[r] IN
           /\ seen' \in [Readers -> [Nodes -> Data]] /\ sure' \in [Readers -> [Nodes -> Data]]
           /\ \A t \in Readers, n \in Nodes, p \in Pieces :
                 \/ seen'[t][n][p] = seen[t][n][p]
                 \/ t = r /\ n = read.node /\ seen'[t][n][p] = read.data[p]
           /\ \A t \in Readers, n \in Nodes, p \in Pieces :
                 \/ sure'[t][n][p] = sure[t][n][p]
                 \/ /\ t = r /\ n = read.node /\ sure'[t][n][p] = read.data[p]
                    /\ ~Lapped(read.first, slots[read.node].sequence)
  <1> DEFINE node == reader[r].node
             data == reader[r].data
             second == slots[node].sequence
  <1>1. reader[r] \in Copying
    BY CopyingType DEF LoadSecond
  <1>2. node \in Nodes /\ data \in Data
    BY <1>1 DEF Copying
  <1>3. seen \in [Readers -> [Nodes -> Data]] /\ sure \in [Readers -> [Nodes -> Data]]
    BY DEF TypeOK
  <1>4. seen[r][node] \in Data /\ sure[r][node] \in Data
    BY <1>2, <1>3
  <1>5. /\ seen' = [seen EXCEPT ![r][node] = Newer(seen[r][node], data)]
        /\ sure' = IF Lapped(reader[r].first, second) THEN sure
                   ELSE [sure EXCEPT ![r][node] = Newer(sure[r][node], data)]
    BY DEF LoadSecond
  <1>6. PICK a, b : a = Newer(seen[r][node], data) /\ b = Newer(sure[r][node], data)
    OBVIOUS
  <1>7. /\ a \in Data /\ \A p \in Pieces : a[p] = seen[r][node][p] \/ a[p] = data[p]
        /\ b \in Data /\ \A p \in Pieces : b[p] = sure[r][node][p] \/ b[p] = data[p]
    BY <1>2, <1>4, <1>6, NewerType
  <1> HIDE DEF node, data, second
  <1>8. seen' = [seen EXCEPT ![r][node] = a]
    BY <1>5, <1>6
  <1>9. /\ seen' \in [Readers -> [Nodes -> Data]]
        /\ \A t \in Readers, n \in Nodes, p \in Pieces :
              \/ seen'[t][n][p] = seen[t][n][p]
              \/ t = r /\ n = node /\ seen'[t][n][p] = data[p]
    BY <1>2, <1>3, <1>7, <1>8
  <1>10. CASE Lapped(reader[r].first, second)
    BY <1>3, <1>5, <1>9, <1>10 DEF node, data
  <1>11. CASE ~Lapped(reader[r].first, second)
    <2>1. sure' = [sure EXCEPT ![r][node] = b]
      BY <1>5, <1>6, <1>11
    <2>2. /\ sure' \in [Readers -> [Nodes -> Data]]
          /\ \A t \in Readers, n \in Nodes, p \in Pieces :
                \/ sure'[t][n][p] = sure[t][n][p]
                \/ t = r /\ n = node /\ sure'[t][n][p] = data[p]
      BY <1>2, <1>3, <1>7, <2>1
    <2> QED BY <1>9, <1>11, <2>2 DEF node, data, second
  <1> QED BY <1>10, <1>11

LEMMA HistoryTyped ==
    ASSUME TypeOK, NEW r \in Readers, LoadSecond(r),
           Accepts(reader[r].first, slots[reader[r].node].sequence)
    PROVE  seen' \in [Readers -> [Nodes -> Data]] /\ sure' \in [Readers -> [Nodes -> Data]]
  BY HistoryStep

(* The second number is loaded and the copy judged. *)
LEMMA LoadSecondInv ==
    ASSUME TableInv, NEW r \in Readers, LoadSecond(r)
    PROVE  TableInv'
  <1> USE DEF TableInv
  <1> DEFINE read   == reader[r]
             count  == upserts[read.node]
             second == slots[read.node].sequence
  <1>1. read \in Copying /\ read.left = {}
    BY CopyingType DEF LoadSecond
  <1>2. ReaderInv(read, count, slots[read.node].buffers) /\ read.pc = "copying"
    BY DEF ReadersInv, LoadSecond
  <1>3. UNCHANGED <<slots, writer, upserts>>
    BY DEF LoadSecond
  <1>4. SequenceInv' /\ Whole' /\ LastFour' /\ WriterInv'
    BY <1>3 DEF SequenceInv, Whole, LastFour, WriterInv
  <1>5. CASE ~Accepts(read.first, second)
    <2>1. /\ reader' = [reader EXCEPT ![r] = [pc |-> "loading", node |-> read.node]]
          /\ UNCHANGED <<result, seen, sure>>
      BY <1>5 DEF LoadSecond
    <2>2. TypeOK' /\ WholeSnapshot'
      BY <1>1, <1>3, <2>1 DEF TypeOK, Reading, Copying, WholeSnapshot
    <2>3. ReadersInv'
      BY <1>3, <2>1 DEF ReadersInv, ReaderInv, TypeOK
    <2> QED BY <1>4, <2>2, <2>3
  <1>6. CASE Accepts(read.first, second)
    <2> DEFINE got == [found |-> TRUE, node |-> read.node, data |-> read.data, at |-> read.at,
                       lapped |-> Lapped(read.first, second)]
    <2>1. reader' = [reader EXCEPT ![r] = [pc |-> "idle"]] /\ result' = [result EXCEPT ![r] = got]
      BY <1>6 DEF LoadSecond
    <2>2. TypeOK'
      <3>1. /\ slots' \in [Nodes -> Slot] /\ upserts' \in [Nodes -> Nat]
            /\ writer' \in [pc : {"idle"}]
                          \cup [pc : {"filling"}, node : Nodes, left : SUBSET Pieces]
        BY <1>3 DEF TypeOK
      <3>2. reader' \in [Readers -> Reading]
        BY <2>1 DEF TypeOK, Reading
      <3>3. got \in Given
        <4>1. Lapped(read.first, second) \in BOOLEAN
          BY DEF Lapped
        <4> HIDE DEF read, second
        <4> QED BY <1>1, <4>1 DEF Given, Copying
      <3>4. result' \in [Readers -> [found : {FALSE}] \cup Given]
        <4> HIDE DEF got
        <4> QED BY <2>1, <3>3 DEF TypeOK, Given
      <3>5. seen' \in [Readers -> [Nodes -> Data]] /\ sure' \in [Readers -> [Nodes -> Data]]
        BY <1>6, HistoryTyped
      <3> QED BY <3>1, <3>2, <3>4, <3>5 DEF TypeOK, Given
    <2>3. ReadersInv'
      BY <1>3, <2>1 DEF ReadersInv, ReaderInv, TypeOK
    <2>4. /\ read.at \in Nat /\ read.at >= 1 /\ count \in Nat /\ read.at <= count
          /\ count < read.at + SeqMod /\ read.node \in Nodes
          /\ read.first = read.at % SeqMod /\ second = count % SeqMod
      BY <1>1, <1>2 DEF ReaderInv, Copying, TypeOK, SequenceInv
    <2>5. Distance(read.first, second) = count - read.at
      BY <2>4, DistanceOfCounts
    <2>6. ~got.lapped => \A p \in Pieces : got.data[p] = got.at
      <3> SUFFICES ASSUME ~got.lapped, NEW p \in Pieces
                   PROVE  read.data[p] = read.at
        OBVIOUS
      <3>1. count - read.at < 4 /\ count - read.at # 3
        <4>1. Distance(read.first, second) < 4
          BY <1>6 DEF Accepts, buffer_count
        <4>2. got.lapped <=> Distance(read.first, second) = buffer_count - 1
          <5> HIDE DEF read, second
          <5> QED BY DEF Lapped
        <4>3. ~(Distance(read.first, second) = buffer_count - 1)
          <5> HIDE DEF got
          <5> QED BY <4>2
        <4>4. ~(Distance(read.first, second) = 3)
          <5> HIDE DEF read, second
          <5> QED BY <4>3 DEF buffer_count
        <4> HIDE DEF read, count, second
        <4> QED BY <2>5, <4>1, <4>4
      <3>2. count <= read.at + 2
        BY <2>4, <3>1
      <3>3. read.data[p] = slots[read.node].buffers[BufferOf(read.at)][p]
        BY <1>1, <1>2, <3>2 DEF ReaderInv
      <3> QED BY <2>4, <3>2, <3>3 DEF Whole
    <2>7. WholeSnapshot'
      <3> SUFFICES ASSUME NEW t \in Readers, result'[t].found, ~result'[t].lapped, NEW p \in Pieces
                   PROVE  result'[t].data[p] = result'[t].at
        BY DEF WholeSnapshot
      <3> HIDE DEF got
      <3>1. CASE t = r
        BY <2>1, <2>6, <3>1 DEF TypeOK
      <3>2. CASE t # r
        BY <2>1, <3>2 DEF TypeOK, WholeSnapshot
      <3> QED BY <3>1, <3>2
    <2> QED BY <1>4, <2>2, <2>3, <2>7
  <1> QED BY <1>5, <1>6

-------------------------------------------------------------------------------
(* A step of another thread, or none at all. *)
LEMMA StepInv ==
    ASSUME TableInv, [Next]_vars
    PROVE  TableInv'
  <1>1. CASE UNCHANGED vars
    <2>1. UNCHANGED <<slots, writer, reader, upserts, result, seen, sure>>
      BY <1>1 DEF vars
    <2>2. TypeOK' /\ SequenceInv' /\ WholeSnapshot'
      BY <2>1 DEF TableInv, TypeOK, SequenceInv, WholeSnapshot
    <2>3. Whole' /\ LastFour' /\ WriterInv' /\ ReadersInv'
      BY <2>1 DEF TableInv, Whole, LastFour, WriterInv, ReadersInv
    <2> QED BY <2>2, <2>3 DEF TableInv
  <1>2. ASSUME NEW node \in Nodes, StartUpsert(node) PROVE TableInv'
    BY <1>2, StartUpsertInv
  <1>3. ASSUME NEW p \in Pieces, Fill(p) PROVE TableInv'
    BY <1>3, FillInv
  <1>4. CASE Publish
    BY <1>4, PublishInv
  <1>5. ASSUME NEW r \in Readers, NEW node \in Nodes, StartLookup(r, node) PROVE TableInv'
    BY <1>5, StartLookupInv
  <1>6. ASSUME NEW r \in Readers, LoadFirst(r) PROVE TableInv'
    BY <1>6, LoadFirstInv
  <1>7. ASSUME NEW r \in Readers, NEW p \in Pieces, Copy(r, p) PROVE TableInv'
    BY <1>7, CopyInv
  <1>8. ASSUME NEW r \in Readers, LoadSecond(r) PROVE TableInv'
    BY <1>8, LoadSecondInv
  <1> QED BY <1>1, <1>2, <1>3, <1>4, <1>5, <1>6, <1>7, <1>8 DEF Next

(* The inductive invariant holds throughout: typing, numbers that follow   *)
(* the counts, three whole publications, and what the writer and the       *)
(* readers are in the middle of.                                           *)
THEOREM TableInvariant == Spec => []TableInv
  <1>1. Init => TableInv
    BY InitInv
  <1>2. TableInv /\ [Next]_vars => TableInv'
    BY StepInv
  <1> QED BY <1>1, <1>2, PTL DEF Spec

(* Typing of the table, of the writer and of the readers. *)
THEOREM TableTyped == Spec => []TypeOK
  <1>1. TableInv => TypeOK
    BY DEF TableInv
  <1> QED BY <1>1, TableInvariant, PTL

(* lookup returns one complete upsert, the one current when it began,      *)
(* unless the number went on by as much as the code accepts.               *)
THEOREM LookupsWhole == Spec => []WholeSnapshot
  <1>1. TableInv => WholeSnapshot
    BY DEF TableInv
  <1> QED BY <1>1, TableInvariant, PTL

-------------------------------------------------------------------------------
(* What a thread is given later.                                           *)

(* A copy that can still be accepted is no older than the publication that *)
(* was current when it began, which is at most one older than all that the *)
(* thread was given of the node.                                           *)
CopyOK(read, count, all, whole) ==
    read.pc = "copying" =>
        /\ \A p \in Pieces : read.data[p] <= count + 1
        /\ count <= read.at + 3 => \A p \in Pieces \ read.left : read.data[p] >= read.at
        /\ \A p \in Pieces : all[p] <= read.at + 1 /\ whole[p] <= read.at

CopiesOK ==
    \A r \in Readers :
       LET node == reader[r].node
       IN  CopyOK(reader[r], upserts[node], seen[r][node], sure[r][node])

HistoryOK ==
    \A r \in Readers, node \in Nodes, p \in Pieces :
       seen[r][node][p] <= upserts[node] + 1 /\ sure[r][node][p] <= upserts[node]

OrderInv == CopiesOK /\ HistoryOK

LEMMA OrderInit == Init => OrderInv
  BY DEF Init, OrderInv, CopiesOK, CopyOK, HistoryOK

(* What the histories hold are numbers. *)
LEMMA HistoryTypes ==
    ASSUME TypeOK, NEW r \in Readers, NEW node \in Nodes, NEW p \in Pieces
    PROVE  seen[r][node][p] \in Nat /\ sure[r][node][p] \in Nat
  <1>1. seen \in [Readers -> [Nodes -> Data]] /\ sure \in [Readers -> [Nodes -> Data]]
    BY DEF TypeOK
  <1>2. seen[r][node] \in Data /\ sure[r][node] \in Data
    BY <1>1
  <1> QED BY <1>2 DEF Data

(* A step that leaves the histories alone and takes no count back. *)
LEMMA HistoryStays ==
    ASSUME TypeOK, TypeOK', HistoryOK, UNCHANGED <<seen, sure>>,
           \A node \in Nodes : upserts[node] <= upserts'[node]
    PROVE  HistoryOK'
  <1> SUFFICES ASSUME NEW r \in Readers, NEW node \in Nodes, NEW p \in Pieces
               PROVE  seen[r][node][p] <= upserts'[node] + 1 /\ sure[r][node][p] <= upserts'[node]
    BY DEF HistoryOK
  <1>1. upserts[node] \in Nat /\ upserts'[node] \in Nat /\ upserts[node] <= upserts'[node]
    BY DEF TypeOK
  <1>2. seen[r][node][p] <= upserts[node] + 1 /\ sure[r][node][p] <= upserts[node]
    BY DEF HistoryOK
  <1> QED BY <1>1, <1>2, HistoryTypes

(* A step that moves the lookup of one thread only. *)
LEMMA CopyMoves ==
    ASSUME CopiesOK, NEW r \in Readers, upserts' = upserts,
           \A t \in Readers \ {r} : reader'[t] = reader[t] /\ seen'[t] = seen[t] /\ sure'[t] = sure[t],
           CopyOK(reader'[r], upserts[reader'[r].node], seen'[r][reader'[r].node],
                  sure'[r][reader'[r].node])
    PROVE  CopiesOK'
  BY DEF CopiesOK

(* Publish: counts go on, and no copy that can still be accepted is lost.  *)
LEMMA PublishOrder ==
    ASSUME TableInv, TableInv', OrderInv, Publish
    PROVE  OrderInv'
  <1>1. TypeOK /\ TypeOK' /\ CopiesOK /\ HistoryOK
    BY DEF TableInv, OrderInv
  <1>2. /\ UNCHANGED <<reader, seen, sure>>
        /\ upserts' = [upserts EXCEPT ![writer.node] = upserts[writer.node] + 1]
    BY DEF Publish
  <1>3. \A node \in Nodes : upserts[node] \in Nat /\ upserts[node] <= upserts'[node]
    BY <1>1, <1>2 DEF TypeOK
  <1>4. HistoryOK'
    BY <1>1, <1>2, <1>3, HistoryStays
  <1>5. ASSUME NEW r \in Readers, reader[r].pc = "copying"
        PROVE  LET node == reader[r].node
               IN  CopyOK(reader[r], upserts'[node], seen[r][node], sure[r][node])
    <2> DEFINE node == reader[r].node
    <2>1. reader[r] \in Copying
      BY <1>1, <1>5, CopyingType
    <2>2. node \in Nodes /\ reader[r].at \in Nat /\ reader[r].data \in [Pieces -> Nat]
      BY <2>1 DEF Copying, Data
    <2>3. CopyOK(reader[r], upserts[node], seen[r][node], sure[r][node])
      BY <1>1 DEF CopiesOK
    <2>4. upserts[node] \in Nat /\ upserts'[node] \in Nat /\ upserts[node] <= upserts'[node]
      BY <1>1, <1>3, <2>2 DEF TypeOK
    <2> HIDE DEF node
    <2>5. \A p \in Pieces : reader[r].data[p] <= upserts'[node] + 1
      BY <1>5, <2>2, <2>3, <2>4 DEF CopyOK
    <2>6. upserts'[node] <= reader[r].at + 3 => upserts[node] <= reader[r].at + 3
      BY <2>2, <2>4
    <2>7. CopyOK(reader[r], upserts'[node], seen[r][node], sure[r][node])
      BY <1>5, <2>3, <2>5, <2>6 DEF CopyOK
    <2> QED BY <2>7 DEF node
  <1>6. CopiesOK'
    BY <1>2, <1>5 DEF CopiesOK, CopyOK
  <1> QED BY <1>4, <1>6 DEF OrderInv

(* The first number: the count is at least what the thread was given, less *)
(* one.                                                                    *)
LEMMA LoadFirstOrder ==
    ASSUME TableInv, TableInv', OrderInv, NEW r \in Readers, LoadFirst(r)
    PROVE  OrderInv'
  <1>1. TypeOK /\ TypeOK' /\ CopiesOK /\ HistoryOK
    BY DEF TableInv, OrderInv
  <1>2. UNCHANGED <<slots, upserts, seen, sure>>
    BY DEF LoadFirst
  <1>3. HistoryOK'
    BY <1>1, <1>2 DEF HistoryOK
  <1> DEFINE node  == reader[r].node
             first == slots[node].sequence
             read  == [pc |-> "copying", node |-> node, first |-> first, left |-> Pieces,
                       data |-> [p \in Pieces |-> 0], at |-> upserts[node]]
  <1>4. node \in Nodes
    BY <1>1, LoadingType DEF LoadFirst
  <1>5. upserts[node] \in Nat
    BY <1>1, <1>4 DEF TypeOK
  <1>6. \/ reader' = [reader EXCEPT ![r] = [pc |-> "idle"]]
        \/ reader' = [reader EXCEPT ![r] = read]
    BY DEF LoadFirst
  <1>7. /\ read.left = Pieces /\ read.at = upserts[node] /\ read.node = node
        /\ \A p \in Pieces : read.data[p] = 0
    OBVIOUS
  <1> HIDE DEF read
  <1>8. CopyOK(read, upserts[node], seen[r][node], sure[r][node])
    BY <1>1, <1>4, <1>5, <1>7 DEF CopyOK, HistoryOK
  <1>9. \A t \in Readers \ {r} : reader'[t] = reader[t]
    BY <1>1, <1>6 DEF TypeOK
  <1>10. reader'[r].pc = "idle" \/ reader'[r] = read
    BY <1>1, <1>6 DEF TypeOK
  <1>11. CopyOK(reader'[r], upserts[reader'[r].node], seen[r][reader'[r].node],
                sure[r][reader'[r].node])
    BY <1>7, <1>8, <1>10 DEF CopyOK
  <1>12. CopiesOK'
    BY <1>1, <1>2, <1>9, <1>11, CopyMoves
  <1> QED BY <1>3, <1>12 DEF OrderInv

(* A piece: at most one ahead of the count, and not older than the number  *)
(* that was loaded as long as the copy can be accepted.                    *)
LEMMA CopyOrder ==
    ASSUME TableInv, TableInv', OrderInv, NEW r \in Readers, NEW p \in Pieces, Copy(r, p)
    PROVE  OrderInv'
  <1>1. TypeOK /\ TypeOK' /\ CopiesOK /\ HistoryOK /\ LastFour
    BY DEF TableInv, OrderInv
  <1> DEFINE old   == reader[r]
             node  == old.node
             piece == slots[node].buffers[BufferOf(old.at)][p]
  <1>2. old \in Copying /\ old.pc = "copying"
    BY <1>1, CopyingType DEF Copy
  <1>3. ReaderInv(old, upserts[node], slots[node].buffers)
    BY DEF TableInv, ReadersInv
  <1>4. node \in Nodes /\ old.at \in Nat /\ old.data \in [Pieces -> Nat] /\ old.left \subseteq Pieces
    BY <1>2 DEF Copying, Data
  <1>5. /\ upserts[node] \in Nat /\ old.at >= 1 /\ old.at <= upserts[node]
        /\ old.first % buffer_count = BufferOf(old.at)
        /\ BufferOf(old.at) \in 0 .. buffer_count - 1
    BY <1>1, <1>2, <1>3, <1>4, BufferOfSequence, BufferOfType DEF ReaderInv, TypeOK
  <1>6. /\ piece <= upserts[node] + 1
        /\ upserts[node] <= old.at + 3 => piece >= old.at
    BY <1>1, <1>4, <1>5 DEF LastFour
  <1>7. /\ UNCHANGED <<slots, upserts, seen, sure>>
        /\ reader' = [reader EXCEPT ![r].data[p] = piece, ![r].left = old.left \ {p}]
    BY <1>5 DEF Copy
  <1>8. HistoryOK'
    BY <1>1, <1>7 DEF HistoryOK
  <1>9. CopyOK(old, upserts[node], seen[r][node], sure[r][node])
    BY <1>1 DEF CopiesOK
  <1> HIDE DEF piece
  <1>10. /\ \A t \in Readers \ {r} : reader'[t] = reader[t]
         /\ reader'[r] = [old EXCEPT !.data = [old.data EXCEPT ![p] = piece], !.left = old.left \ {p}]
    BY <1>1, <1>7 DEF TypeOK
  <1>11. /\ reader'[r].pc = "copying" /\ reader'[r].node = node /\ reader'[r].at = old.at
         /\ reader'[r].left = old.left \ {p} /\ reader'[r].data = [old.data EXCEPT ![p] = piece]
    <2> HIDE DEF old
    <2>1. old.pc = "copying" /\ old \in Copying
      BY <1>2
    <2> QED BY <1>10, <2>1 DEF Copying
  <1> HIDE DEF old, node
  <1>12. \A q \in Pieces : reader'[r].data[q] = IF q = p THEN piece ELSE old.data[q]
    BY <1>4, <1>11
  <1>13. \A q \in Pieces : reader'[r].data[q] <= upserts[node] + 1
    BY <1>2, <1>6, <1>9, <1>12 DEF CopyOK
  <1>14. upserts[node] <= old.at + 3
            => \A q \in Pieces \ reader'[r].left : reader'[r].data[q] >= old.at
    BY <1>2, <1>6, <1>9, <1>11, <1>12 DEF CopyOK
  <1>15. CopyOK(reader'[r], upserts[node], seen[r][node], sure[r][node])
    BY <1>2, <1>9, <1>11, <1>13, <1>14 DEF CopyOK
  <1>16. CopiesOK'
    BY <1>1, <1>7, <1>10, <1>11, <1>15, CopyMoves
  <1> QED BY <1>8, <1>16 DEF OrderInv

(* What an accepted copy is: pieces not older than the publication that    *)
(* was current when it began, nor more than one ahead of the count; below  *)
(* the largest distance, that publication.                                 *)
LEMMA AcceptedCopy ==
    ASSUME TableInv, OrderInv, NEW r \in Readers, LoadSecond(r),
           Accepts(reader[r].first, slots[reader[r].node].sequence), NEW p \in Pieces
    PROVE  LET read == reader[r]  count == upserts[read.node] IN
           /\ read.at \in Nat /\ count \in Nat /\ read.data[p] \in Nat
           /\ read.data[p] >= read.at /\ read.data[p] <= count + 1
           /\ ~Lapped(read.first, slots[read.node].sequence) => read.data[p] <= count
  <1> DEFINE read   == reader[r]
             node   == read.node
             count  == upserts[node]
             second == slots[node].sequence
  <1>1. TypeOK /\ SequenceInv /\ Whole /\ CopiesOK
    BY DEF TableInv, OrderInv
  <1>2. read \in Copying /\ read.pc = "copying" /\ read.left = {}
    BY <1>1, CopyingType DEF LoadSecond
  <1>3. ReaderInv(read, count, slots[node].buffers)
    BY DEF TableInv, ReadersInv
  <1>4. CopyOK(read, count, seen[r][node], sure[r][node])
    BY <1>1 DEF CopiesOK
  <1>5. /\ read.at \in Nat /\ count \in Nat /\ node \in Nodes /\ read.data \in [Pieces -> Nat]
        /\ read.at >= 1 /\ read.at <= count /\ count < read.at + SeqMod
        /\ read.first = read.at % SeqMod /\ second = count % SeqMod
    BY <1>1, <1>2, <1>3 DEF ReaderInv, Copying, Data, TypeOK, SequenceInv
  <1>6. Distance(read.first, second) = count - read.at
    BY <1>5, DistanceOfCounts
  <1>7. Distance(read.first, second) < 4
    BY DEF Accepts, buffer_count
  <1> HIDE DEF read, node, count, second
  <1>8. count <= read.at + 3
    BY <1>5, <1>6, <1>7
  <1>9. read.data[p] >= read.at /\ read.data[p] <= count + 1
    BY <1>2, <1>4, <1>8 DEF CopyOK
  <1>10. ASSUME ~Lapped(read.first, second)
         PROVE  read.data[p] <= count
    <2>1. count - read.at # 3
      BY <1>6, <1>10 DEF Lapped, buffer_count
    <2>2. count <= read.at + 2
      BY <1>5, <1>8, <2>1
    <2>3. read.data[p] = slots[node].buffers[BufferOf(read.at)][p]
      BY <1>2, <1>3, <2>2 DEF ReaderInv
    <2>4. read.data[p] = read.at
      BY <1>1, <1>5, <2>2, <2>3 DEF Whole, count
    <2> QED BY <1>5, <2>4
  <1>11. read.data[p] \in Nat
    BY <1>5
  <1> QED BY <1>5, <1>9, <1>10, <1>11 DEF read, node, count, second

(* The second number. *)
LEMMA LoadSecondOrder ==
    ASSUME TableInv, TableInv', OrderInv, NEW r \in Readers, LoadSecond(r)
    PROVE  OrderInv'
  <1>1. TypeOK /\ TypeOK' /\ CopiesOK /\ HistoryOK /\ UNCHANGED upserts
    BY DEF TableInv, OrderInv, LoadSecond
  <1>2. /\ \A t \in Readers \ {r} : reader'[t] = reader[t]
        /\ reader'[r].pc # "copying"
    BY <1>1 DEF LoadSecond, TypeOK
  <1>3. CASE ~Accepts(reader[r].first, slots[reader[r].node].sequence)
    <2>1. UNCHANGED <<seen, sure>>
      BY <1>3 DEF LoadSecond
    <2>2. HistoryOK' /\ CopiesOK'
      BY <1>1, <1>2, <2>1 DEF HistoryOK, CopiesOK, CopyOK
    <2> QED BY <2>2 DEF OrderInv
  <1>4. CASE Accepts(reader[r].first, slots[reader[r].node].sequence)
    <2> DEFINE node == reader[r].node
    <2>1. /\ \A t \in Readers, n \in Nodes, p \in Pieces :
                \/ seen'[t][n][p] = seen[t][n][p]
                \/ t = r /\ n = node /\ seen'[t][n][p] = reader[r].data[p]
          /\ \A t \in Readers, n \in Nodes, p \in Pieces :
                \/ sure'[t][n][p] = sure[t][n][p]
                \/ /\ t = r /\ n = node /\ sure'[t][n][p] = reader[r].data[p]
                   /\ ~Lapped(reader[r].first, slots[node].sequence)
      BY <1>1, <1>4, HistoryStep
    <2>2. \A p \in Pieces :
             /\ reader[r].data[p] <= upserts[node] + 1
             /\ ~Lapped(reader[r].first, slots[node].sequence) => reader[r].data[p] <= upserts[node]
      BY <1>4, AcceptedCopy
    <2> HIDE DEF node
    <2>3. HistoryOK'
      <3> SUFFICES ASSUME NEW t \in Readers, NEW n \in Nodes, NEW p \in Pieces
                   PROVE  seen'[t][n][p] <= upserts[n] + 1 /\ sure'[t][n][p] <= upserts[n]
        BY <1>1 DEF HistoryOK
      <3>1. seen[t][n][p] <= upserts[n] + 1 /\ sure[t][n][p] <= upserts[n]
        BY <1>1 DEF HistoryOK
      <3> QED BY <2>1, <2>2, <3>1
    <2>4. \A t \in Readers \ {r} : seen'[t] = seen[t] /\ sure'[t] = sure[t]
      <3>1. /\ seen' = [seen EXCEPT ![r][reader[r].node] = Newer(@, reader[r].data)]
            /\ \/ sure' = sure
               \/ sure' = [sure EXCEPT ![r][reader[r].node] = Newer(@, reader[r].data)]
        BY <1>4 DEF LoadSecond
      <3>2. seen \in [Readers -> [Nodes -> Data]] /\ sure \in [Readers -> [Nodes -> Data]]
        BY <1>1 DEF TypeOK
      <3> QED BY <3>1, <3>2
    <2>5. CopyOK(reader'[r], upserts[reader'[r].node], seen'[r][reader'[r].node],
                 sure'[r][reader'[r].node])
      BY <1>2 DEF CopyOK
    <2>6. CopiesOK'
      BY <1>1, <1>2, <2>4, <2>5, CopyMoves
    <2> QED BY <2>3, <2>6 DEF OrderInv
  <1> QED BY <1>3, <1>4

LEMMA OrderStep ==
    ASSUME TableInv, TableInv', OrderInv, [Next]_vars
    PROVE  OrderInv'
  <1>0. CopiesOK /\ HistoryOK /\ TypeOK
    BY DEF OrderInv, TableInv
  <1>1. CASE UNCHANGED vars
    BY <1>0, <1>1 DEF vars, OrderInv, CopiesOK, HistoryOK
  <1>2. ASSUME NEW node \in Nodes, StartUpsert(node) PROVE OrderInv'
    BY <1>0, <1>2 DEF StartUpsert, OrderInv, CopiesOK, HistoryOK
  <1>3. ASSUME NEW p \in Pieces, Fill(p) PROVE OrderInv'
    BY <1>0, <1>3 DEF Fill, OrderInv, CopiesOK, HistoryOK
  <1>4. CASE Publish
    BY <1>4, PublishOrder
  <1>5. ASSUME NEW r \in Readers, NEW node \in Nodes, StartLookup(r, node) PROVE OrderInv'
    <2>1. /\ reader' = [reader EXCEPT ![r] = [pc |-> "loading", node |-> node]]
          /\ UNCHANGED <<upserts, seen, sure>>
      BY <1>5 DEF StartLookup
    <2>2. reader'[r].pc = "loading" /\ \A t \in Readers \ {r} : reader'[t] = reader[t]
      BY <1>0, <2>1 DEF TypeOK
    <2>3. CopyOK(reader'[r], upserts[reader'[r].node], seen'[r][reader'[r].node],
                 sure'[r][reader'[r].node])
      BY <2>2 DEF CopyOK
    <2>4. CopiesOK'
      BY <1>0, <2>1, <2>2, <2>3, CopyMoves
    <2> QED BY <1>0, <2>1, <2>4 DEF OrderInv, HistoryOK
  <1>6. ASSUME NEW r \in Readers, LoadFirst(r) PROVE OrderInv'
    BY <1>6, LoadFirstOrder
  <1>7. ASSUME NEW r \in Readers, NEW p \in Pieces, Copy(r, p) PROVE OrderInv'
    BY <1>7, CopyOrder
  <1>8. ASSUME NEW r \in Readers, LoadSecond(r) PROVE OrderInv'
    BY <1>8, LoadSecondOrder
  <1> QED BY <1>1, <1>2, <1>3, <1>4, <1>5, <1>6, <1>7, <1>8 DEF Next

(* The one step that gives a thread a copy is that of an accepted lookup.  *)
LEMMA GivenByCopy ==
    ASSUME TypeOK, [Next]_vars, NEW r \in Readers, result'[r] # result[r], result'[r].found
    PROVE  /\ LoadSecond(r) /\ Accepts(reader[r].first, slots[reader[r].node].sequence)
           /\ result'[r].node = reader[r].node /\ result'[r].data = reader[r].data
  <1>1. ASSUME NEW t \in Readers, LoadFirst(t) PROVE FALSE
    <2>1. \/ result' = result
          \/ result' = [result EXCEPT ![t] = [found |-> FALSE]]
      BY <1>1 DEF LoadFirst
    <2> QED BY <2>1 DEF TypeOK
  <1>2. PICK t \in Readers : LoadSecond(t)
    BY <1>1 DEF Next, vars, StartUpsert, Fill, Publish, StartLookup, Copy
  <1> DEFINE read   == reader[t]
             second == slots[read.node].sequence
             got    == [found |-> TRUE, node |-> read.node, data |-> read.data, at |-> read.at,
                        lapped |-> Lapped(read.first, second)]
  <1>3. \/ result' = result
        \/ Accepts(read.first, second) /\ result' = [result EXCEPT ![t] = got]
    BY <1>2 DEF LoadSecond
  <1>4. got.node = read.node /\ got.data = read.data
    OBVIOUS
  <1> HIDE DEF got
  <1>5. t = r /\ Accepts(read.first, second) /\ result'[r] = got
    BY <1>3 DEF TypeOK
  <1> QED BY <1>2, <1>4, <1>5

(* Whatever lookup accepts, copies at the largest distance and torn ones   *)
(* included, is at most one upsert older than anything the same thread was *)
(* given of the node before, and no older than what it was given by a copy *)
(* below that distance; wherever the number wraps in between.              *)
THEOREM NeverBack == Spec => NeverBackwards
  <1>1. Init => TableInv /\ OrderInv
    BY InitInv, OrderInit
  <1>2. TableInv /\ OrderInv /\ [Next]_vars => TableInv' /\ OrderInv'
    BY StepInv, OrderStep
  <1>3. TableInv /\ OrderInv /\ [Next]_vars =>
           \A r \in Readers :
              LET got == result'[r]
              IN  (got # result[r] /\ got.found) =>
                     \A p \in Pieces, q \in Pieces :
                        /\ got.data[p] >= sure[r][got.node][q]
                        /\ got.data[p] + 1 >= seen[r][got.node][q]
    <2> SUFFICES ASSUME TableInv, OrderInv, [Next]_vars, NEW r \in Readers,
                        result'[r] # result[r], result'[r].found,
                        NEW p \in Pieces, NEW q \in Pieces
                 PROVE  /\ result'[r].data[p] >= sure[r][result'[r].node][q]
                        /\ result'[r].data[p] + 1 >= seen[r][result'[r].node][q]
      OBVIOUS
    <2> DEFINE read == reader[r]
    <2>1. TypeOK /\ CopiesOK
      BY DEF TableInv, OrderInv
    <2>2. /\ LoadSecond(r) /\ Accepts(read.first, slots[read.node].sequence)
          /\ result'[r].node = read.node /\ result'[r].data = read.data
      BY <2>1, GivenByCopy
    <2>3. read.at \in Nat /\ read.data[p] \in Nat /\ read.data[p] >= read.at
      BY <2>2, AcceptedCopy
    <2>4. read.pc = "copying" /\ read.node \in Nodes
      BY <2>1, <2>2, CopyingType DEF LoadSecond, Copying
    <2>5. seen[r][read.node][q] <= read.at + 1 /\ sure[r][read.node][q] <= read.at
      BY <2>1, <2>4 DEF CopiesOK, CopyOK
    <2>6. seen[r][read.node][q] \in Nat /\ sure[r][read.node][q] \in Nat
      BY <2>1, <2>4, HistoryTypes
    <2> HIDE DEF read
    <2> QED BY <2>2, <2>3, <2>5, <2>6
  <1> QED BY <1>1, <1>2, <1>3, PTL DEF Spec, NeverBackwards
===============================================================================
