-------------------------- MODULE ModularArithmetic --------------------------
(***************************************************************************)
(* Facts about % with a variable modulus, for counters that wrap (the u16  *)
(* generations of connection.zig).                                         *)
(***************************************************************************)
EXTENDS Integers, TLAPS

(* Division with remainder. *)
LEMMA DivMod ==
    ASSUME NEW a \in Nat, NEW m \in Nat \ {0}
    PROVE  /\ a % m \in 0 .. m - 1
           /\ a \div m \in Nat
           /\ a = m * (a \div m) + (a % m)
  OBVIOUS

(* A positive multiple of m is at least m. *)
LEMMA MulGrows ==
    ASSUME NEW m \in Nat, NEW d \in Int, d >= 1
    PROVE  m * d >= m
  OBVIOUS

(* Multiplication distributes over a difference. *)
LEMMA MulSub ==
    ASSUME NEW m \in Nat, NEW p \in Int, NEW q \in Int
    PROVE  m * (p - q) = m * p - m * q
  OBVIOUS

(* The remainder of a division is unique. *)
LEMMA ModUnique ==
    ASSUME NEW m \in Nat \ {0}, NEW p \in Int, NEW q \in Int,
           NEW r \in 0 .. m - 1, NEW s \in 0 .. m - 1, m * p + r = m * q + s
    PROVE  r = s
  <1>1. CASE p = q
    BY <1>1
  <1>2. CASE p > q
    <2>1. m * (p - q) >= m
      BY <1>2, MulGrows
    <2>2. m * (p - q) = s - r
      BY MulSub
    <2> QED BY <2>1, <2>2
  <1>3. CASE q > p
    <2>1. m * (q - p) >= m
      BY <1>3, MulGrows
    <2>2. m * (q - p) = r - s
      BY MulSub
    <2> QED BY <2>1, <2>2
  <1> QED BY <1>1, <1>2, <1>3

(* Adding a multiple of the modulus keeps the remainder. *)
LEMMA ModShift ==
    ASSUME NEW m \in Nat \ {0}, NEW a \in Nat, NEW b \in Nat, NEW q \in Int,
           b = m * q + a
    PROVE  b % m = a % m
  <1>1. /\ a % m \in 0 .. m - 1 /\ a \div m \in Int
        /\ a = m * (a \div m) + (a % m)
        /\ b % m \in 0 .. m - 1 /\ b \div m \in Int
        /\ b = m * (b \div m) + (b % m)
    BY DivMod
  <1> DEFINE d == a \div m
             e == b \div m
             x == a % m
             y == b % m
  <1>2. /\ x \in 0 .. m - 1 /\ d \in Int /\ a = m * d + x
        /\ y \in 0 .. m - 1 /\ e \in Int /\ b = m * e + y
    BY <1>1
  <1> HIDE DEF d, e, x, y
  <1>3. m * (q + d) = m * q + m * d
    BY <1>2
  <1>4. m * e + y = m * (q + d) + x
    BY <1>2, <1>3
  <1>5. y = x
    <2> DEFINE f == q + d
    <2>1. f \in Int /\ m * e + y = m * f + x
      BY <1>2, <1>4
    <2> HIDE DEF f
    <2> QED BY <1>2, <2>1, ModUnique
  <1> QED BY <1>5 DEF x, y

(* Incrementing the wrapped counter is wrapping the incremented counter
   (generation +%= 1). *)
LEMMA ModSucc ==
    ASSUME NEW a \in Nat, NEW m \in Nat \ {0}
    PROVE  ((a % m) + 1) % m = (a + 1) % m
  <1> DEFINE q == a \div m
             r == (a % m) + 1
             b == a + 1
  <1>1. r \in Nat /\ b \in Nat /\ q \in Int /\ b = m * q + r
    BY DivMod
  <1>2. b % m = r % m
    <2> HIDE DEF q, r, b
    <2> QED BY <1>1, ModShift
  <1> QED BY <1>2

(* Two counts with the same remainder, less than a whole turn apart, are
   equal: a generation tells occupations apart until it wraps. *)
LEMMA ModEqual ==
    ASSUME NEW m \in Nat \ {0}, NEW a \in Nat, NEW b \in Nat,
           a <= b, b - a < m, a % m = b % m
    PROVE  a = b
  <1>1. /\ a % m \in Int /\ a \div m \in Int
        /\ a = m * (a \div m) + (a % m)
        /\ b \div m \in Int
        /\ b = m * (b \div m) + (b % m)
    BY DivMod
  <1>2. m * ((b \div m) - (a \div m)) = b - a
    BY <1>1, MulSub
  <1>3. CASE (b \div m) - (a \div m) >= 1
    BY <1>1, <1>2, <1>3, MulGrows
  <1>4. CASE (b \div m) - (a \div m) <= 0
    <2>1. m * ((a \div m) - (b \div m)) = a - b
      BY <1>1, MulSub
    <2>2. CASE (a \div m) - (b \div m) >= 1
      BY <1>1, <2>1, <2>2, MulGrows
    <2>3. CASE (a \div m) = (b \div m)
      BY <1>1, <2>3
    <2> QED BY <1>1, <1>4, <2>2, <2>3
  <1> QED BY <1>1, <1>3, <1>4
===============================================================================
