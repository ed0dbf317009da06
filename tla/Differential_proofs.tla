------------------------ MODULE Differential_proofs ------------------------
(***************************************************************************)
(* The two interpreters agree, for every width of a word, every size of    *)
(* the scratchpad, the dataset and the program, every feed and every       *)
(* rounding mode of the caller.                                            *)
(*                                                                         *)
(* The argument: the bit operations, the rotations, the products and the   *)
(* reciprocal give what arithmetic says they give; so the two forms of     *)
(* every opcode have the same effect on a machine whose host is in its     *)
(* mode, and make their accesses in range (AllVerified); the frame of a    *)
(* program keeps machines well formed; so the machines stay equal          *)
(* (LockstepInv).                                                          *)
(***************************************************************************)
EXTENDS Differential, TLAPS, NaturalsInduction, WellFoundedInduction

-----------------------------------------------------------------------------
(* Induction and recursion along an interval: the property is a set, the   *)
(* step of the recursion a function.                                       *)

\* A set of natural numbers has a least member.
LEMMA LeastNat ==
    ASSUME NEW S \in SUBSET Nat, S # {}
    PROVE  \E x \in S : \A y \in S : x <= y
  <1> DEFINE Less == {ss \in Nat \X Nat : ss[1] < ss[2]}
  <1>1. IsWellFoundedOn(Less, Nat)
    BY NatLessThanWellFounded DEF OpToRel
  <1> HIDE DEF Less
  <1>2. PICK x \in S : \A y \in S : ~(<<y, x>> \in Less)
    BY <1>1, WFMin
  <1>3. ASSUME NEW y \in S PROVE x <= y
    <2>1. x \in Nat /\ y \in Nat
      OBVIOUS
    <2>2. y < x => <<y, x>> \in Less
      BY <2>1 DEF Less
    <2> QED
      BY <1>2, <2>1, <2>2
  <1> QED
    BY <1>3

\* Induction along an interval, the property being a set.
LEMMA Upward ==
    ASSUME NEW n \in Nat, NEW P, 0 \in P, \A i \in 1 .. n : i - 1 \in P => i \in P
    PROVE  \A i \in 0 .. n : i \in P
  <1> DEFINE Q == (0 .. n) \ P
  <1> SUFFICES ASSUME Q # {} PROVE FALSE
    OBVIOUS
  <1>1. Q \in SUBSET Nat
    OBVIOUS
  <1>2. PICK x \in Q : \A y \in Q : x <= y
    <2> HIDE DEF Q
    <2> QED
      BY <1>1, LeastNat
  <1>3. x \in 1 .. n /\ x \notin P /\ x - 1 \in 0 .. n
    OBVIOUS
  <1>4. x - 1 \in P
    BY <1>2, <1>3
  <1> QED
    BY <1>3, <1>4

Iterates(f, n, S, a, step) ==
    f \in [0 .. n -> S] /\ f[0] = a /\ \A j \in 1 .. n : f[j] = step[j][f[j - 1]]

\* The iterates of a step exist, and are the only ones.
LEMMA Iterated ==
    ASSUME NEW n \in Nat, NEW S, NEW a \in S, NEW step \in [1 .. n -> [S -> S]]
    PROVE  \E f : Iterates(f, n, S, a, step)
  <1> DEFINE Ends(k) == \E f \in [0 .. k -> S] : f[0] = a /\ \A j \in 1 .. k : f[j] = step[j][f[j - 1]]
             P == {k \in 0 .. n : Ends(k)}
  <1>1. 0 \in P
    <2>1. [k \in 0 .. 0 |-> a] \in [0 .. 0 -> S] /\ 1 .. 0 = {} /\ 0 \in 0 .. 0
      OBVIOUS
    <2>2. Ends(0)
      BY <2>1
    <2> QED
      BY <2>2
  <1>2. ASSUME NEW i \in 1 .. n, i - 1 \in P PROVE i \in P
    <2>1. PICK f \in [0 .. i - 1 -> S] : f[0] = a /\ \A j \in 1 .. i - 1 : f[j] = step[j][f[j - 1]]
      BY <1>2
    <2> DEFINE g == [k \in 0 .. i |-> IF k = i THEN step[i][f[i - 1]] ELSE f[k]]
    <2>2. i - 1 \in 0 .. i - 1 /\ i \in 0 .. n /\ 0 # i /\ 0 \in 0 .. i
          /\ \A k \in 0 .. i : k # i => k \in 0 .. i - 1
      OBVIOUS
    <2>3. step[i][f[i - 1]] \in S
      BY <2>2
    <2>4. g \in [0 .. i -> S]
      BY <2>2, <2>3
    <2>5. g[0] = a
      BY <2>1, <2>2
    <2>6. ASSUME NEW j \in 1 .. i PROVE g[j] = step[j][g[j - 1]]
      <3>1. j - 1 \in 0 .. i /\ j - 1 # i /\ j \in 0 .. i /\ (j # i => j \in 1 .. i - 1)
        OBVIOUS
      <3>2. g[j - 1] = f[j - 1]
        BY <3>1
      <3>3. CASE j = i
        BY <3>1, <3>2, <3>3
      <3>4. CASE j # i
        BY <2>1, <3>1, <3>2, <3>4
      <3> QED
        BY <3>3, <3>4
    <2> HIDE DEF g
    <2>7. Ends(i)
      BY <2>4, <2>5, <2>6
    <2> QED
      BY <2>2, <2>7
  <1> HIDE DEF P
  <1>3. \A i \in 0 .. n : i \in P
    BY <1>1, <1>2, Upward
  <1>4. n \in P
    BY <1>3
  <1> QED
    BY <1>4 DEF P, Iterates

-----------------------------------------------------------------------------
(* Powers of two.                                                          *)

\* 2^k exists and doubles.
LEMMA Pow2Exists == Pow2 = [k \in Nat |-> IF k = 0 THEN 1 ELSE 2 * Pow2[k - 1]]
  <1> DEFINE Ok(f, n) == f \in [0 .. n -> Nat] /\ f[0] = 1 /\ \A j \in 1 .. n : f[j] = 2 * f[j - 1]
             F == [k \in Nat |-> (CHOOSE f : Ok(f, k))[k]]
  <1>1. ASSUME NEW n \in Nat PROVE \E f : Ok(f, n)
    <2> DEFINE step == [j \in 1 .. n |-> [w \in Nat |-> 2 * w]]
    <2>1. step \in [1 .. n -> [Nat -> Nat]]
      OBVIOUS
    <2>2. PICK f : Iterates(f, n, Nat, 1, step)
      <3> HIDE DEF step
      <3>1. 1 \in Nat
        OBVIOUS
      <3> QED
        BY <2>1, <3>1, Iterated, Zenon
    <2>3. f \in [0 .. n -> Nat] /\ f[0] = 1
      BY <2>2 DEF Iterates
    <2>4. ASSUME NEW j \in 1 .. n PROVE f[j] = 2 * f[j - 1]
      <3>1. f[j - 1] \in Nat
        BY <2>3
      <3>2. f[j] = step[j][f[j - 1]]
        BY <2>2 DEF Iterates
      <3> QED
        BY <3>1, <3>2
    <2> QED
      BY <2>3, <2>4
  <1>2. ASSUME NEW m \in Nat, NEW n \in Nat, m <= n, NEW f, NEW g, Ok(f, m), Ok(g, n)
        PROVE  f[m] = g[m]
    <2> DEFINE P == {i \in 0 .. m : f[i] = g[i]}
    <2>1. 0 \in P
      BY <1>2
    <2>2. ASSUME NEW i \in 1 .. m, i - 1 \in P PROVE i \in P
      <3>1. i \in 1 .. n /\ i \in 0 .. m /\ f[i - 1] = g[i - 1]
        BY <1>2, <2>2
      <3>2. f[i] = 2 * f[i - 1] /\ g[i] = 2 * g[i - 1]
        BY <1>2, <3>1
      <3> QED
        BY <3>1, <3>2
    <2> HIDE DEF P
    <2>3. \A i \in 0 .. m : i \in P
      BY <2>1, <2>2, Upward
    <2>4. m \in 0 .. m
      OBVIOUS
    <2> QED
      BY <2>3, <2>4 DEF P
  <1>3. ASSUME NEW k \in Nat PROVE F[k] = IF k = 0 THEN 1 ELSE 2 * F[k - 1]
    <2> DEFINE f == CHOOSE f : Ok(f, k)
               g == CHOOSE g : Ok(g, k - 1)
    <2>1. Ok(f, k)
      <3> HIDE DEF Ok
      <3> QED
        BY <1>1, Zenon
    <2>2. F[k] = f[k]
      OBVIOUS
    <2>3. CASE k = 0
      <3> HIDE DEF F, f
      <3> QED
        BY <2>1, <2>2, <2>3
    <2>4. CASE k # 0
      <3>1. k - 1 \in Nat /\ k - 1 <= k /\ k \in 1 .. k
        BY <2>4
      <3>2. Ok(g, k - 1)
        <4> HIDE DEF Ok
        <4> QED
          BY <1>1, <3>1, Zenon
      <3>3. F[k - 1] = g[k - 1]
        BY <3>1
      <3> HIDE DEF F, f, g
      <3>5. g[k - 1] = f[k - 1]
        <4> HIDE DEF Ok
        <4> QED
          BY <1>2, <2>1, <3>1, <3>2
      <3> QED
        BY <2>1, <2>2, <2>4, <3>1, <3>3, <3>5
    <2> QED
      BY <2>3, <2>4
  <1>4. F = [k \in Nat |-> IF k = 0 THEN 1 ELSE 2 * F[k - 1]]
    <2>1. F = [k \in Nat |-> F[k]]
      OBVIOUS
    <2> HIDE DEF F
    <2> QED
      BY <1>3, <2>1
  <1> HIDE DEF F
  <1> QED
    BY <1>4, Zenon DEF Pow2

\* Powers of two are positive.
LEMMA Pow2Positive == \A k \in Nat : Pow2[k] \in Nat /\ Pow2[k] >= 1
  <1> SUFFICES ASSUME NEW n \in Nat PROVE Pow2[n] \in Nat /\ Pow2[n] >= 1
    OBVIOUS
  <1> DEFINE P == {k \in Nat : Pow2[k] \in Nat /\ Pow2[k] >= 1}
  <1>1. 0 \in P
    BY Pow2Exists
  <1>2. ASSUME NEW i \in 1 .. n, i - 1 \in P PROVE i \in P
    <2>1. i - 1 \in Nat /\ i \in Nat /\ i # 0
      OBVIOUS
    <2>2. Pow2[i] = 2 * Pow2[i - 1]
      BY <2>1, Pow2Exists
    <2> QED
      BY <1>2, <2>1, <2>2
  <1> HIDE DEF P
  <1>3. \A i \in 0 .. n : i \in P
    BY <1>1, <1>2, Upward
  <1> QED
    BY <1>3 DEF P

\* The recursion of Pow2, unfolded once.
LEMMA Pow2Doubles == Pow2[0] = 1 /\ \A k \in Nat : Pow2[k + 1] = 2 * Pow2[k]
  <1>1. Pow2[0] = 1
    BY Pow2Exists
  <1>2. ASSUME NEW k \in Nat PROVE Pow2[k + 1] = 2 * Pow2[k]
    <2>1. k + 1 \in Nat /\ k + 1 # 0 /\ (k + 1) - 1 = k
      OBVIOUS
    <2> QED
      BY <2>1, Pow2Exists
  <1> QED
    BY <1>1, <1>2

\* Exponents add up.
LEMMA Pow2Adds == \A i, j \in Nat : Pow2[i] * Pow2[j] = Pow2[i + j]
  <1> SUFFICES ASSUME NEW i \in Nat, NEW n \in Nat PROVE Pow2[i] * Pow2[n] = Pow2[i + n]
    OBVIOUS
  <1> DEFINE P == {j \in Nat : Pow2[i] * Pow2[j] = Pow2[i + j]}
  <1>1. 0 \in P
    BY Pow2Doubles, Pow2Positive
  <1>2. ASSUME NEW j \in 1 .. n, j - 1 \in P PROVE j \in P
    <2>1. PICK m \in Nat : m = j - 1 /\ j = m + 1 /\ i + j = (i + m) + 1 /\ i + m \in Nat
      OBVIOUS
    <2>2. PICK x \in Nat, y \in Nat, z \in Nat : x = Pow2[i] /\ y = Pow2[m] /\ z = Pow2[i + m]
      BY <2>1, Pow2Positive
    <2>3. x * y = z
      BY <1>2, <2>1, <2>2
    <2>4. Pow2[j] = 2 * y /\ Pow2[i + j] = 2 * z
      BY <2>1, <2>2, Pow2Doubles
    <2>5. x * (2 * y) = 2 * z
      BY <2>3
    <2> QED
      BY <2>1, <2>2, <2>4, <2>5
  <1> HIDE DEF P
  <1>3. \A j \in 0 .. n : j \in P
    BY <1>1, <1>2, Upward
  <1> QED
    BY <1>3 DEF P

\* Powers of two grow with the exponent.
LEMMA Pow2Grows == \A i, j \in Nat : i <= j => Pow2[i] <= Pow2[j]
  <1> SUFFICES ASSUME NEW i \in Nat, NEW j \in Nat, i <= j PROVE Pow2[i] <= Pow2[j]
    OBVIOUS
  <1>1. PICK d \in Nat : j = i + d
    <2>1. j - i \in Nat /\ j = i + (j - i)
      OBVIOUS
    <2> QED
      BY <2>1
  <1>2. PICK x \in Nat, y \in Nat : x = Pow2[i] /\ y = Pow2[d] /\ y >= 1 /\ Pow2[j] = x * y
    BY <1>1, Pow2Positive, Pow2Adds
  <1>3. x <= x * y
    BY <1>2
  <1> QED
    BY <1>2, <1>3

\* Words and halves.
LEMMA Ranges ==
    /\ HalfBits \in Nat /\ HalfBits >= 8 /\ Bits \in Nat /\ Bits >= 16
    /\ HalfRange \in Nat /\ HalfRange >= 256 /\ HalfRange % 2 = 0
    /\ WordRange \in Nat /\ WordRange = HalfRange * HalfRange /\ WordRange >= HalfRange
    /\ WordRange % 16 = 0 /\ WordRange >= 16
  <1>1. HalfBits \in Nat /\ HalfBits >= 8 /\ Bits \in Nat /\ Bits >= 16 /\ Bits = HalfBits + HalfBits
    BY VmAssumption DEF Bits
  <1>2. /\ Pow2[0] = 1 /\ Pow2[0 + 1] = 2 * Pow2[0] /\ Pow2[1 + 1] = 2 * Pow2[1] /\ Pow2[2 + 1] = 2 * Pow2[2]
        /\ Pow2[3 + 1] = 2 * Pow2[3] /\ Pow2[4 + 1] = 2 * Pow2[4] /\ Pow2[5 + 1] = 2 * Pow2[5]
        /\ Pow2[6 + 1] = 2 * Pow2[6] /\ Pow2[7 + 1] = 2 * Pow2[7]
    BY Pow2Doubles
  <1>3. Pow2[1] = 2 /\ Pow2[4] = 16 /\ Pow2[8] = 256
    BY <1>2
  <1>4. HalfRange \in Nat /\ HalfRange >= 256
    BY <1>1, <1>3, Pow2Grows, Pow2Positive DEF HalfRange
  <1>5. WordRange = HalfRange * HalfRange
    BY <1>1, Pow2Adds DEF WordRange, HalfRange
  <1>6. HalfRange % 2 = 0
    <2>1. PICK m \in Nat : HalfBits = m + 1
      <3>1. HalfBits - 1 \in Nat /\ HalfBits = (HalfBits - 1) + 1
        BY <1>1
      <3> QED
        BY <3>1
    <2>2. PICK x \in Nat : x = Pow2[m] /\ HalfRange = 2 * x
      BY <2>1, Pow2Doubles, Pow2Positive DEF HalfRange
    <2> QED
      BY <2>2
  <1>7. WordRange \in Nat /\ WordRange >= HalfRange
    <2>1. PICK h \in Nat : h = HalfRange /\ h >= 256
      BY <1>4
    <2>2. h * h \in Nat /\ h * h >= h
      BY <2>1
    <2> QED
      BY <1>5, <2>1, <2>2
  <1>8. WordRange % 16 = 0 /\ WordRange >= 16
    <2>1. PICK m \in Nat : Bits = 4 + m
      <3>1. Bits - 4 \in Nat /\ Bits = 4 + (Bits - 4)
        BY <1>1
      <3> QED
        BY <3>1
    <2>2. PICK x \in Nat : x = Pow2[m] /\ x >= 1
      BY Pow2Positive
    <2>3. Pow2[4] * Pow2[m] = Pow2[4 + m]
      BY Pow2Adds
    <2>4. WordRange = 16 * x
      BY <1>3, <2>1, <2>2, <2>3 DEF WordRange
    <2> QED
      BY <2>2, <2>4
  <1> QED
    BY <1>1, <1>4, <1>5, <1>6, <1>7, <1>8

-----------------------------------------------------------------------------
(* Bitwise operations.                                                     *)

Table == [Bit -> [Bit -> Bit]]

\* What Bitwise computes of the lowest bits.
Low(table) ==
    LET low[k \in 0 .. Bits] ==
            [p \in Int |-> [q \in Int |->
                IF k = 0 THEN 0
                ELSE table[p % 2][q % 2] + 2 * low[k - 1][p \div 2][q \div 2]]]
    IN  low

\* A table of bits applies to the lowest bits of any two integers.
LEMMA TableBit ==
    ASSUME NEW t \in Table, NEW p \in Int, NEW q \in Int
    PROVE  t[p % 2][q % 2] \in Nat /\ t[p % 2][q % 2] <= 1 /\ p \div 2 \in Int /\ q \div 2 \in Int
  <1>1. p % 2 \in Bit /\ q % 2 \in Bit /\ p \div 2 \in Int /\ q \div 2 \in Int
    BY DEF Bit
  <1>2. t[p % 2][q % 2] \in Bit
    BY <1>1 DEF Table
  <1> QED
    BY <1>1, <1>2 DEF Bit

\* The recursion over the bits has a solution, so its unfolding holds.
LEMMA LowExists ==
    ASSUME NEW t \in Table
    PROVE  Low(t) = [k \in 0 .. Bits |-> [p \in Int |-> [q \in Int |->
                       IF k = 0 THEN 0
                       ELSE t[p % 2][q % 2] + 2 * Low(t)[k - 1][p \div 2][q \div 2]]]]
  <1> DEFINE S == [Int -> [Int -> Int]]
             Turn(T) == [p \in Int |-> [q \in Int |-> t[p % 2][q % 2] + 2 * T[p \div 2][q \div 2]]]
             step == [j \in 1 .. Bits |-> [T \in S |-> Turn(T)]]
             zero == [p \in Int |-> [q \in Int |-> 0]]
  <1>0. Bits \in Nat
    BY Ranges
  <1>1. zero \in S
    OBVIOUS
  <1>2. ASSUME NEW T \in S PROVE Turn(T) \in S
    <2> SUFFICES ASSUME NEW p \in Int, NEW q \in Int
                 PROVE  t[p % 2][q % 2] + 2 * T[p \div 2][q \div 2] \in Int
      OBVIOUS
    <2>1. t[p % 2][q % 2] \in Nat /\ p \div 2 \in Int /\ q \div 2 \in Int
      BY TableBit, Zenon
    <2>2. PICK a \in Nat, b \in Int : a = t[p % 2][q % 2] /\ b = T[p \div 2][q \div 2]
      BY <2>1
    <2>3. a + 2 * b \in Int
      OBVIOUS
    <2> QED
      BY <2>2, <2>3, Zenon
  <1> HIDE DEF S
  <1>3. step \in [1 .. Bits -> [S -> S]]
    <2> HIDE DEF Turn
    <2> QED
      BY <1>2
  <1>4. PICK f : Iterates(f, Bits, S, zero, step)
    <2> HIDE DEF step, zero
    <2> QED
      BY <1>0, <1>1, <1>3, Iterated, Zenon
  <1>5. f \in [0 .. Bits -> S] /\ f[0] = zero /\ \A j \in 1 .. Bits : f[j] = Turn(f[j - 1])
    <2>1. f \in [0 .. Bits -> S] /\ f[0] = zero /\ \A j \in 1 .. Bits : f[j] = step[j][f[j - 1]]
      <3> HIDE DEF step, zero
      <3> QED
        BY <1>4 DEF Iterates
    <2>2. \A j \in 1 .. Bits : j - 1 \in 0 .. Bits
      BY <1>0
    <2> HIDE DEF Turn, zero
    <2> QED
      BY <2>1, <2>2
  <1>6. ASSUME NEW k \in 0 .. Bits
        PROVE  f[k] = [p \in Int |-> [q \in Int |->
                         IF k = 0 THEN 0 ELSE t[p % 2][q % 2] + 2 * f[k - 1][p \div 2][q \div 2]]]
    <2>1. CASE k = 0
      BY <1>5, <2>1
    <2>2. CASE k # 0
      <3>1. k \in 1 .. Bits
        BY <1>0, <2>2
      <3>2. f[k] = Turn(f[k - 1])
        <4> HIDE DEF Turn
        <4> QED
          BY <1>5, <3>1
      <3> QED
        BY <2>2, <3>2
    <2> QED
      BY <2>1, <2>2
  <1>7. f = [k \in 0 .. Bits |-> [p \in Int |-> [q \in Int |->
                IF k = 0 THEN 0 ELSE t[p % 2][q % 2] + 2 * f[k - 1][p \div 2][q \div 2]]]]
    <2>1. f = [k \in 0 .. Bits |-> f[k]]
      BY <1>5
    <2> QED
      BY <1>6, <2>1, Zenon
  <1> QED
    BY <1>7, Zenon DEF Low

\* That recursion at given operands.
LEMMA LowSteps ==
    ASSUME NEW t \in Table, NEW p \in Int, NEW q \in Int
    PROVE  /\ Low(t)[0][p][q] = 0
           /\ \A k \in 1 .. Bits : Low(t)[k][p][q] = t[p % 2][q % 2] + 2 * Low(t)[k - 1][p \div 2][q \div 2]
  <1> DEFINE L == Low(t)
             Row(k, pp, qq) == IF k = 0 THEN 0 ELSE t[pp % 2][qq % 2] + 2 * L[k - 1][pp \div 2][qq \div 2]
  <1>1. L = [k \in 0 .. Bits |-> [pp \in Int |-> [qq \in Int |-> Row(k, pp, qq)]]]
    BY LowExists
  <1>2. ASSUME NEW k \in 0 .. Bits PROVE L[k][p][q] = Row(k, p, q)
    <2> HIDE DEF L, Row
    <2> QED
      BY <1>1
  <1> HIDE DEF L
  <1>3. 0 \in 0 .. Bits /\ \A k \in 1 .. Bits : k \in 0 .. Bits /\ k # 0
    BY Ranges
  <1> QED
    BY <1>2, <1>3, Zenon DEF L

\* An operation on words is the recursion over all bits.
LEMMA BitwiseLow ==
    ASSUME NEW t, NEW x, NEW y
    PROVE  Bitwise(t, x, y) = Low(t)[Bits][x][y]
  BY DEF Bitwise, Low

\* k bits make a number of k bits.
LEMMA LowRange ==
    ASSUME NEW t \in Table, NEW n \in 0 .. Bits
    PROVE  \A p, q \in Int : Low(t)[n][p][q] \in Nat /\ Low(t)[n][p][q] < Pow2[n]
  <1> DEFINE Fits(k) == \A p, q \in Int : Low(t)[k][p][q] \in Nat /\ Low(t)[k][p][q] < Pow2[k]
             P == {k \in 0 .. Bits : Fits(k)}
  <1>0. Bits \in Nat
    BY Ranges
  <1>1. 0 \in P
    <2>1. \A p, q \in Int : Low(t)[0][p][q] = 0
      BY LowSteps, Zenon
    <2>2. 0 \in Nat /\ 0 < Pow2[0] /\ 0 \in 0 .. Bits
      BY <1>0, Pow2Doubles
    <2> QED
      BY <2>1, <2>2
  <1>2. ASSUME NEW k \in 1 .. Bits, k - 1 \in P PROVE k \in P
    <2>1. k - 1 \in Nat /\ k = (k - 1) + 1
      BY <1>0
    <2>2. Pow2[k] = 2 * Pow2[k - 1] /\ Pow2[k - 1] \in Nat
      BY <2>1, Pow2Doubles, Pow2Positive
    <2>3. ASSUME NEW p \in Int, NEW q \in Int
          PROVE  Low(t)[k][p][q] \in Nat /\ Low(t)[k][p][q] < Pow2[k]
      <3>1. Low(t)[k][p][q] = t[p % 2][q % 2] + 2 * Low(t)[k - 1][p \div 2][q \div 2]
        BY LowSteps
      <3>2. t[p % 2][q % 2] \in Nat /\ t[p % 2][q % 2] <= 1 /\ p \div 2 \in Int /\ q \div 2 \in Int
        BY TableBit
      <3>3. Low(t)[k - 1][p \div 2][q \div 2] \in Nat /\ Low(t)[k - 1][p \div 2][q \div 2] < Pow2[k - 1]
        BY <1>2, <3>2
      <3> QED
        BY <2>2, <3>1, <3>2, <3>3
    <2> QED
      BY <1>0, <2>3
  <1> HIDE DEF P
  <1>3. \A k \in 0 .. Bits : k \in P
    BY <1>0, <1>1, <1>2, Upward
  <1> QED
    BY <1>3 DEF P

\* The three operations are tables of bits.
LEMMA Tables == AndBits \in Table /\ OrBits \in Table /\ XorBits \in Table
  BY DEF AndBits, OrBits, XorBits, Table, Bit

\* An operation on integers gives a word.
LEMMA BitwiseWord ==
    ASSUME NEW x \in Int, NEW y \in Int
    PROVE  x & y \in Word /\ x | y \in Word /\ x ^^ y \in Word
  <1>1. ASSUME NEW t \in Table PROVE Bitwise(t, x, y) \in Word
    <2>1. Bits \in 0 .. Bits /\ WordRange \in Nat
      BY Ranges
    <2>2. Low(t)[Bits][x][y] \in Nat /\ Low(t)[Bits][x][y] < WordRange
      BY <2>1, LowRange DEF WordRange
    <2>3. Bitwise(t, x, y) = Low(t)[Bits][x][y]
      BY BitwiseLow
    <2> QED
      BY <2>1, <2>2, <2>3 DEF Word
  <1> QED
    BY <1>1, Tables DEF &, |, ^^

\* The conjunction of two bits is their product.
LEMMA AndBit ==
    ASSUME NEW p \in Int, NEW q \in Int
    PROVE  AndBits[p % 2][q % 2] = (p % 2) * (q % 2)
  <1>1. p % 2 \in Bit /\ q % 2 \in Bit
    BY DEF Bit
  <1> QED
    BY <1>1, Zenon DEF AndBits

\* The conjunction of the k lowest bits.
AndLow(k, p, q) == Low(AndBits)[k][p][q]

\* The recursion for the conjunction.
LEMMA AndSteps ==
    ASSUME NEW p \in Int, NEW q \in Int
    PROVE  /\ AndLow(0, p, q) = 0
           /\ \A k \in 1 .. Bits :
                 AndLow(k, p, q) = ((p % 2) * (q % 2)) + 2 * AndLow(k - 1, p \div 2, q \div 2)
           /\ \A k \in 0 .. Bits : AndLow(k, p, q) \in Nat
  <1>1. AndBits \in Table
    BY Tables
  <1>2. AndLow(0, p, q) = 0
    BY <1>1, LowSteps, Zenon DEF AndLow
  <1>3. ASSUME NEW k \in 1 .. Bits
        PROVE  AndLow(k, p, q) = ((p % 2) * (q % 2)) + 2 * AndLow(k - 1, p \div 2, q \div 2)
    <2>1. AndLow(k, p, q) = AndBits[p % 2][q % 2] + 2 * AndLow(k - 1, p \div 2, q \div 2)
      BY <1>1, LowSteps, Zenon DEF AndLow
    <2> QED
      BY <2>1, AndBit, Zenon
  <1>4. \A k \in 0 .. Bits : AndLow(k, p, q) \in Nat
    BY <1>1, LowRange, Zenon DEF AndLow
  <1> QED
    BY <1>2, <1>3, <1>4

\* The conjunction of words is that recursion over all bits.
LEMMA AndIsLow ==
    ASSUME NEW x \in Int, NEW y \in Int
    PROVE  x & y = AndLow(Bits, x, y)
  BY BitwiseLow, Zenon DEF &, AndLow

\* A conjunction is at most its second operand.
LEMMA AndLowBelow ==
    ASSUME NEW n \in 0 .. Bits
    PROVE  \A p \in Int, q \in Nat : AndLow(n, p, q) <= q
  <1> DEFINE Fits(k) == \A p \in Int, q \in Nat : AndLow(k, p, q) <= q
             P == {k \in 0 .. Bits : Fits(k)}
  <1>0. Bits \in Nat
    BY Ranges
  <1>1. 0 \in P
    <2>1. ASSUME NEW p \in Int, NEW q \in Nat PROVE AndLow(0, p, q) <= q
      <3>1. q \in Int
        OBVIOUS
      <3>2. AndLow(0, p, q) = 0
        BY <3>1, AndSteps
      <3> QED
        BY <3>2
    <2> QED
      BY <1>0, <2>1
  <1>2. ASSUME NEW k \in 1 .. Bits, k - 1 \in P PROVE k \in P
    <2>1. ASSUME NEW p \in Int, NEW q \in Nat PROVE AndLow(k, p, q) <= q
      <3>1. PICK p1 \in Int, q1 \in Nat, p0 \in 0 .. 1, q0 \in 0 .. 1 :
               p1 = p \div 2 /\ q1 = q \div 2 /\ p0 = p % 2 /\ q0 = q % 2 /\ q = 2 * q1 + q0
        OBVIOUS
      <3>2. k - 1 \in 0 .. Bits /\ q \in Int /\ q1 \in Int
        BY <1>0
      <3>3. AndLow(k, p, q) = (p0 * q0) + 2 * AndLow(k - 1, p1, q1)
        BY <3>1, <3>2, AndSteps
      <3>4. AndLow(k - 1, p1, q1) \in Nat
        BY <3>2, AndSteps
      <3>5. AndLow(k - 1, p1, q1) <= q1
        BY <1>2
      <3>6. p0 * q0 \in Nat /\ p0 * q0 <= q0
        <4>1. CASE p0 = 0
          BY <4>1
        <4>2. CASE p0 = 1
          BY <4>2
        <4> QED
          BY <4>1, <4>2
      <3> QED
        BY <3>1, <3>3, <3>4, <3>5, <3>6
    <2> QED
      BY <1>0, <2>1
  <1> HIDE DEF P
  <1>3. \A k \in 0 .. Bits : k \in P
    BY <1>0, <1>1, <1>2, Upward
  <1> QED
    BY <1>3 DEF P

\* A conjunction is at most its second operand.
LEMMA AndBelow ==
    ASSUME NEW x \in Int, NEW m \in Nat
    PROVE  x & m \in Nat /\ x & m <= m
  <1>1. Bits \in 0 .. Bits /\ m \in Int
    BY Ranges
  <1>2. AndLow(Bits, x, m) <= m /\ AndLow(Bits, x, m) \in Nat
    BY <1>1, AndLowBelow, AndSteps
  <1>3. x & m = AndLow(Bits, x, m)
    BY <1>1, AndIsLow
  <1> QED
    BY <1>2, <1>3

\* A conjunction with a multiple of 2^j is a multiple of 2^j.
LEMMA AndLowMultiple ==
    ASSUME NEW n \in Nat
    PROVE  \A k \in 0 .. Bits, p \in Int, q \in Nat, c \in Nat :
              q = Pow2[n] * c => \E d \in Nat : AndLow(k, p, q) = Pow2[n] * d
  <1> DEFINE Fits(j) == \A k \in 0 .. Bits, p \in Int, q \in Nat, c \in Nat :
                           q = Pow2[j] * c => \E d \in Nat : AndLow(k, p, q) = Pow2[j] * d
             P == {j \in 0 .. n : Fits(j)}
  <1>0. Bits \in Nat
    BY Ranges
  <1>1. 0 \in P
    <2>1. ASSUME NEW k \in 0 .. Bits, NEW p \in Int, NEW q \in Nat, NEW c \in Nat, q = Pow2[0] * c
          PROVE  \E d \in Nat : AndLow(k, p, q) = Pow2[0] * d
      <3>1. q \in Int
        OBVIOUS
      <3>2. PICK d \in Nat : d = AndLow(k, p, q)
        BY <3>1, AndSteps
      <3>3. Pow2[0] * d = d
        BY Pow2Doubles
      <3> QED
        BY <3>2, <3>3
    <2> QED
      BY <2>1
  <1>2. ASSUME NEW j \in 1 .. n, j - 1 \in P PROVE j \in P
    <2>1. j - 1 \in Nat /\ j = (j - 1) + 1
      OBVIOUS
    <2>2. PICK w \in Nat : w = Pow2[j - 1] /\ Pow2[j] = 2 * w
      BY <2>1, Pow2Doubles, Pow2Positive
    <2>3. ASSUME NEW k \in 0 .. Bits, NEW p \in Int, NEW q \in Nat, NEW c \in Nat, q = Pow2[j] * c
          PROVE  \E d \in Nat : AndLow(k, p, q) = Pow2[j] * d
      <3>1. PICK h \in Nat : h = w * c
        OBVIOUS
      <3>2. q = 2 * h
        <4>1. (2 * w) * c = 2 * (w * c)
          OBVIOUS
        <4> QED
          BY <2>2, <2>3, <3>1, <4>1
      <3>3. q % 2 = 0 /\ q \div 2 = h /\ p \div 2 \in Int /\ q \in Int
        BY <3>2
      <3>4. PICK p0 \in 0 .. 1, p1 \in Int : p0 = p % 2 /\ p1 = p \div 2
        OBVIOUS
      <3>5. CASE k = 0
        <4>1. AndLow(k, p, q) = 0
          BY <3>3, <3>5, AndSteps
        <4>2. Pow2[j] * 0 = 0
          BY <2>2
        <4> QED
          BY <4>1, <4>2
      <3>6. CASE k # 0
        <4>1. k \in 1 .. Bits /\ k - 1 \in 0 .. Bits
          BY <1>0, <3>6
        <4>0. AndLow(k, p, q) = ((p % 2) * (q % 2)) + 2 * AndLow(k - 1, p \div 2, q \div 2)
          BY <3>3, <4>1, AndSteps
        <4>2. AndLow(k, p, q) = (p0 * 0) + 2 * AndLow(k - 1, p1, h)
          BY <3>3, <3>4, <4>0, Zenon
        <4>3. Fits(j - 1)
          BY <1>2
        <4>4. PICK d \in Nat : AndLow(k - 1, p1, h) = w * d
          <5>1. k - 1 \in 0 .. Bits /\ h = Pow2[j - 1] * c
            BY <2>2, <3>1, <4>1, Zenon
          <5>2. \E d \in Nat : AndLow(k - 1, p1, h) = Pow2[j - 1] * d
            BY <4>3, <5>1
          <5> QED
            BY <2>2, <5>2, Zenon
        <4>5. (p0 * 0) + 2 * (w * d) = (2 * w) * d
          OBVIOUS
        <4> QED
          BY <2>2, <4>2, <4>4, <4>5
      <3> QED
        BY <3>5, <3>6
    <2> QED
      BY <2>3
  <1> HIDE DEF P
  <1>3. \A j \in 0 .. n : j \in P
    BY <1>1, <1>2, Upward
  <1>4. n \in P
    BY <1>3
  <1> QED
    BY <1>4 DEF P

\* A conjunction with a multiple of 2^j is a multiple of 2^j.
LEMMA AndMultiple ==
    ASSUME NEW x \in Int, NEW j \in Nat, NEW m \in Nat, NEW c \in Nat, m = Pow2[j] * c
    PROVE  \E d \in Nat : x & m = Pow2[j] * d
  <1>1. Bits \in 0 .. Bits /\ m \in Int
    BY Ranges
  <1>2. x & m = AndLow(Bits, x, m)
    BY <1>1, AndIsLow
  <1> QED
    BY <1>1, <1>2, AndLowMultiple

\* A power of two and its predecessor have no bit in common.
LEMMA AndLowPower ==
    ASSUME NEW n \in Nat
    PROVE  \A k \in 0 .. Bits : AndLow(k, Pow2[n], Pow2[n] - 1) = 0
  <1> DEFINE Fits(j) == \A k \in 0 .. Bits : AndLow(k, Pow2[j], Pow2[j] - 1) = 0
             P == {j \in 0 .. n : Fits(j)}
  <1>0. Bits \in Nat
    BY Ranges
  <1>1. 0 \in P
    <2>1. ASSUME NEW k \in 0 .. Bits PROVE AndLow(k, Pow2[0], Pow2[0] - 1) = 0
      <3>1. Pow2[0] = 1 /\ Pow2[0] - 1 = 0 /\ 0 \in Nat /\ 0 \in Int /\ 1 \in Int
        BY Pow2Doubles
      <3>2. AndLow(k, 1, 0) <= 0 /\ AndLow(k, 1, 0) \in Nat
        BY <3>1, AndSteps, AndLowBelow
      <3>3. AndLow(k, 1, 0) = 0
        BY <3>2
      <3> QED
        BY <3>1, <3>3
    <2> QED
      BY <2>1
  <1>2. ASSUME NEW j \in 1 .. n, j - 1 \in P PROVE j \in P
    <2>1. j - 1 \in Nat /\ j = (j - 1) + 1
      OBVIOUS
    <2>2. PICK w \in Nat : w = Pow2[j - 1] /\ Pow2[j] = 2 * w /\ w >= 1
      BY <2>1, Pow2Doubles, Pow2Positive
    <2>3. ASSUME NEW k \in 0 .. Bits PROVE AndLow(k, Pow2[j], Pow2[j] - 1) = 0
      <3>1. PICK p \in Int, q \in Int : p = Pow2[j] /\ q = Pow2[j] - 1 /\ p = 2 * w /\ q = 2 * (w - 1) + 1
        BY <2>2
      <3>2. p % 2 = 0 /\ p \div 2 = w /\ q \div 2 = w - 1
        <4>1. PICK v \in Int : v = w - 1
          OBVIOUS
        <4>2. q = 2 * v + 1 /\ p = 2 * w
          BY <3>1, <4>1
        <4>3. q \div 2 = v /\ p % 2 = 0 /\ p \div 2 = w
          BY <4>2
        <4> QED
          BY <4>1, <4>3
      <3>3. PICK q0 \in 0 .. 1 : q0 = q % 2
        OBVIOUS
      <3>4. CASE k = 0
        BY <3>1, <3>4, AndSteps
      <3>5. CASE k # 0
        <4>1. k \in 1 .. Bits /\ k - 1 \in 0 .. Bits
          BY <1>0, <3>5
        <4>2. AndLow(k, p, q) = (0 * q0) + 2 * AndLow(k - 1, w, w - 1)
          BY <3>2, <3>3, <4>1, AndSteps
        <4>3. Fits(j - 1)
          BY <1>2
        <4>4. AndLow(k - 1, w, w - 1) = 0
          BY <2>2, <4>1, <4>3
        <4> QED
          BY <3>1, <4>2, <4>4
      <3> QED
        BY <3>4, <3>5
    <2> QED
      BY <2>3
  <1> HIDE DEF P
  <1>3. \A j \in 0 .. n : j \in P
    BY <1>1, <1>2, Upward
  <1>4. n \in P
    BY <1>3
  <1> QED
    BY <1>4 DEF P

-----------------------------------------------------------------------------
(* Arithmetic on words.                                                    *)

\* What a quotient and a remainder are.
LEMMA DivMod ==
    ASSUME NEW x \in Int, NEW n \in Nat, n > 0
    PROVE  /\ x \div n \in Int /\ x % n \in 0 .. n - 1 /\ x % n \in Nat
           /\ x = n * (x \div n) + (x % n)
  OBVIOUS

\* They are the only ones.
LEMMA DivModUnique ==
    ASSUME NEW n \in Nat, n > 0, NEW q \in Int, NEW r \in 0 .. n - 1, NEW x \in Int, x = n * q + r
    PROVE  x \div n = q /\ x % n = r
  <1>1. PICK a \in Int, b \in 0 .. n - 1 : a = x \div n /\ b = x % n /\ x = n * a + b
    BY DivMod
  <1>2. n * (q - a) = b - r
    BY <1>1
  <1>3. q - a = 0
    <2>1. PICK d \in Int : d = q - a
      OBVIOUS
    <2>2. n * d > 0 - n /\ n * d < n
      BY <1>2, <2>1
    <2>3. CASE d >= 1
      <3>1. n * d >= n
        BY <2>3
      <3> QED
        BY <2>2, <3>1
    <2>4. CASE d <= -1
      <3>1. n * d <= 0 - n
        BY <2>4
      <3> QED
        BY <2>2, <3>1
    <2> QED
      BY <2>1, <2>3, <2>4
  <1> QED
    BY <1>1, <1>2, <1>3

\* The quotient of natural numbers is one.
LEMMA DivNat ==
    ASSUME NEW x \in Nat, NEW n \in Nat, n > 0
    PROVE  x \div n \in Nat
  OBVIOUS

\* x \div n < m when x < n * m.
LEMMA DivBelow ==
    ASSUME NEW x \in Nat, NEW n \in Nat, n > 0, NEW m \in Nat, x < n * m
    PROVE  x \div n \in Nat /\ x \div n < m
  <1>1. PICK q \in Nat, r \in 0 .. n - 1 : q = x \div n /\ x = n * q + r
    BY DivMod, DivNat
  <1>2. CASE q >= m
    <2>1. n * q >= n * m
      BY <1>2
    <2> QED
      BY <1>1, <2>1
  <1> QED
    BY <1>1, <1>2

\* A remainder by the range of a word is a word.
LEMMA ModWord == \A z \in Int : z % WordRange \in Word
  BY Ranges, DivMod DEF Word

\* Words are natural numbers below their range.
LEMMA WordInt == \A x \in Word : x \in Nat /\ x \in Int /\ x < WordRange
  BY Ranges DEF Word

\* The signed reading of a word is an integer.
LEMMA SignedInt == \A x \in Word : Signed(x) \in Int
  BY WordInt, Ranges DEF Signed

\* Wrapping operations give words.
LEMMA Wrapping ==
    ASSUME NEW x \in Int, NEW y \in Int
    PROVE  WrappingAdd(x, y) \in Word /\ WrappingSub(x, y) \in Word /\ WrappingMul(x, y) \in Word
  <1>1. x + y \in Int /\ x - y \in Int
    OBVIOUS
  <1>2. Signed(x) \in Int /\ Signed(y) \in Int
    BY Ranges DEF Signed
  <1>3. Signed(x) * Signed(y) \in Int
    BY <1>2
  <1> QED
    BY <1>1, <1>3, ModWord DEF WrappingAdd, WrappingSub, WrappingMul

\* So does negation.
LEMMA NegatedWord == \A x \in Word : Negated(x) \in Word
  BY Ranges, Wrapping, WordInt DEF Negated

\* So does the signed high product.
LEMMA SMulHWord ==
    ASSUME NEW x \in Word, NEW y \in Word
    PROVE  SMulH(x, y) \in Word
  <1>1. PICK a \in Int, b \in Int : a = Signed(x) /\ b = Signed(y)
    BY SignedInt
  <1>2. PICK c \in Int : c = a * b
    OBVIOUS
  <1>3. PICK d \in Int : d = c \div WordRange
    BY Ranges
  <1>4. SMulH(x, y) = d % WordRange
    BY <1>1, <1>2, <1>3 DEF SMulH
  <1> QED
    BY <1>4, ModWord

\* The sum of products of halves is the high word of the product.
LEMMA MulHExact ==
    ASSUME NEW x \in Word, NEW y \in Word
    PROVE  MulH(x, y) = (x * y) \div WordRange /\ MulH(x, y) \in Word
  <1> DEFINE H == HalfRange
  <1>0. H \in Nat /\ H > 0 /\ WordRange = H * H /\ WordRange \in Nat /\ x \in Nat /\ y \in Nat
        /\ x < WordRange /\ y < WordRange
    BY Ranges, WordInt
  <1> HIDE DEF H
  <1>1. PICK x1 \in Nat, x0 \in 0 .. H - 1 : x1 = x \div H /\ x0 = x % H /\ x = H * x1 + x0 /\ x1 < H
    BY <1>0, DivMod, DivNat, DivBelow
  <1>2. PICK y1 \in Nat, y0 \in 0 .. H - 1 : y1 = y \div H /\ y0 = y % H /\ y = H * y1 + y0 /\ y1 < H
    BY <1>0, DivMod, DivNat, DivBelow
  <1>3. PICK p00 \in Nat, p10 \in Nat, p01 \in Nat, p11 \in Nat :
           p00 = x0 * y0 /\ p10 = x1 * y0 /\ p01 = x0 * y1 /\ p11 = x1 * y1
    OBVIOUS
  <1>4. PICK a \in Nat, a0 \in 0 .. H - 1 : a = p00 \div H /\ p00 = H * a + a0
    BY <1>0, DivMod, DivNat
  <1>5. PICK t \in Nat : t = p10 + a
    OBVIOUS
  <1>6. PICK t1 \in Nat, t0 \in 0 .. H - 1 : t1 = t \div H /\ t0 = t % H /\ t = H * t1 + t0
    BY <1>0, DivMod, DivNat
  <1>7. PICK c \in Nat : c = t0 + p01
    OBVIOUS
  <1>8. PICK c1 \in Nat, c0 \in 0 .. H - 1 : c1 = c \div H /\ c = H * c1 + c0
    BY <1>0, DivMod, DivNat
  <1>9. PICK m \in Nat : m = (p11 + t1) + c1
    OBVIOUS
  <1>10. MulH(x, y) = m
    <2>1. MulH(x, y) = (x1 * y1 + (x1 * y0 + (x0 * y0) \div H) \div H)
                         + (((x1 * y0 + (x0 * y0) \div H) % H) + x0 * y1) \div H
      BY <1>1, <1>2, Zenon DEF MulH, H
    <2>2. MulH(x, y) = (p11 + t1) + c1
      BY <1>3, <1>4, <1>5, <1>6, <1>7, <1>8, <2>1, Zenon
    <2> QED
      BY <1>9, <2>2
  <1>11. PICK r \in Nat : r = H * c0 + a0 /\ r < H * H
    <2>1. H * c0 <= H * (H - 1)
      BY <1>0
    <2>2. H * (H - 1) = H * H - H
      BY <1>0
    <2> QED
      BY <1>0, <2>1, <2>2
  <1>12. x * y = WordRange * m + r
    <2>1. x * y = (H * H) * p11 + H * p10 + H * p01 + p00
      <3>1. (H * x1 + x0) * (H * y1 + y0) = (H * H) * (x1 * y1) + H * (x1 * y0) + H * (x0 * y1) + x0 * y0
        BY <1>0
      <3> QED
        BY <1>1, <1>2, <1>3, <3>1
    <2>2. H * p10 + p00 = H * t + a0
      BY <1>0, <1>4, <1>5
    <2>3. H * t + H * p01 = (H * H) * t1 + H * c
      BY <1>0, <1>6, <1>7
    <2>4. H * c = (H * H) * c1 + H * c0
      BY <1>0, <1>8
    <2>5. x * y = (H * H) * p11 + (H * H) * t1 + (H * H) * c1 + r
      BY <1>0, <1>11, <2>1, <2>2, <2>3, <2>4
    <2>6. (H * H) * m = (H * H) * p11 + (H * H) * t1 + (H * H) * c1
      BY <1>0, <1>9
    <2> QED
      BY <1>0, <2>5, <2>6
  <1>13. (x * y) \div WordRange = m
    <2>1. PICK w \in Nat : w = x * y /\ w = WordRange * m + r
      BY <1>0, <1>12
    <2>2. r \in 0 .. WordRange - 1 /\ WordRange > 0
      BY <1>0, <1>11
    <2>3. w \div WordRange = m
      BY <1>0, <2>1, <2>2, DivModUnique
    <2> QED
      BY <2>1, <2>3
  <1>14. m < WordRange
    <2>1. x * y < WordRange * WordRange
      BY <1>0
    <2>2. CASE m >= WordRange
      <3>1. WordRange * m >= WordRange * WordRange
        BY <1>0, <2>2
      <3> QED
        BY <1>0, <1>11, <1>12, <2>1, <3>1
    <2> QED
      BY <1>0, <2>2
  <1> QED
    BY <1>0, <1>10, <1>13, <1>14 DEF Word

\* Rotating a word right gives a word.
LEMMA RotateRightWord ==
    ASSUME NEW x \in Word, NEW n \in Int
    PROVE  RotateRight(x, n) \in Word
  <1>1. PICK k \in Nat : k = n % Bits /\ k < Bits /\ Bits - k \in Nat /\ k + (Bits - k) = Bits
    BY Ranges, DivMod
  <1>2. PICK a \in Nat, b \in Nat : a = Pow2[k] /\ b = Pow2[Bits - k] /\ a >= 1 /\ b >= 1 /\ WordRange = a * b
    <2>1. PICK j \in Nat : j = Bits - k /\ k + j = Bits
      BY <1>1
    <2>2. Pow2[k] * Pow2[j] = Pow2[k + j]
      BY Pow2Adds
    <2>3. Pow2[k] \in Nat /\ Pow2[k] >= 1 /\ Pow2[j] \in Nat /\ Pow2[j] >= 1
      BY Pow2Positive
    <2> QED
      BY <2>1, <2>2, <2>3 DEF WordRange
  <1>3. PICK q \in Nat, r \in 0 .. a - 1 : q = x \div a /\ r = x % a /\ q < b
    <2>1. x \in Nat /\ x < a * b /\ a > 0
      BY <1>2, WordInt
    <2> QED
      BY <1>2, <2>1, DivMod, DivBelow
  <1>4. RotateRight(x, n) = q + r * b
    BY <1>1, <1>2, <1>3, Zenon DEF RotateRight
  <1>5. r * b \in Nat /\ r * b <= (a - 1) * b
    BY <1>2, <1>3
  <1>6. (a - 1) * b = WordRange - b
    <2>1. (a - 1) * b = a * b - b
      OBVIOUS
    <2> QED
      BY <1>2, <2>1
  <1>7. q + r * b \in Nat /\ q + r * b < WordRange
    BY <1>2, <1>3, <1>5, <1>6
  <1> QED
    BY <1>4, <1>7, Ranges DEF Word

\* Rotating it left does.
LEMMA RotateLeftWord ==
    ASSUME NEW x \in Word, NEW n \in Int
    PROVE  RotateLeft(x, n) \in Word
  <1>1. Bits - (n % Bits) \in Int
    BY Ranges, DivMod
  <1> QED
    BY <1>1, RotateRightWord DEF RotateLeft

\* Immediates are words.
LEMMA HalfWord == \A x \in Half : x \in Word /\ x \in Int /\ x \in Nat /\ x < HalfRange
  BY Ranges DEF Half, Word

\* A sign-extended immediate is a word.
LEMMA SignExtendWord ==
    ASSUME NEW imm \in Half
    PROVE  SignExtend(imm) \in Word
  <1>1. imm | (WordRange - HalfRange) \in Word
    BY Ranges, HalfWord, BitwiseWord
  <1> QED
    BY <1>1, HalfWord DEF SignExtend

AluOps == {"add", "sub", "mul", "mulh", "smulh", "xor", "ror", "rol"}

\* Every integer operation gives a word.
LEMMA AluWord ==
    ASSUME NEW op \in AluOps, NEW d \in Word, NEW s \in Word
    PROVE  Alu(op, d, s) \in Word
  <1>0. d \in Int /\ s \in Int
    BY WordInt
  <1>1. WrappingAdd(d, s) \in Word /\ WrappingSub(d, s) \in Word /\ WrappingMul(d, s) \in Word
    BY <1>0, Wrapping
  <1>2. MulH(s, d) \in Word /\ SMulH(s, d) \in Word
    BY MulHExact, SMulHWord
  <1>3. d ^^ s \in Word
    BY <1>0, BitwiseWord
  <1>4. RotateRight(d, s) \in Word /\ RotateLeft(d, s) \in Word
    BY <1>0, RotateRightWord, RotateLeftWord
  <1> QED
    BY <1>1, <1>2, <1>3, <1>4, Zenon DEF Alu, AluOps

-----------------------------------------------------------------------------
(* Sizes and addresses.                                                    *)

\* What VmAssumption says of each size.
LEMMA Sizes ==
    /\ WordBytes \in Nat /\ WordBytes >= 1 /\ 8 * WordBytes <= 255 /\ LineSize = 8 * WordBytes
    /\ L1Size \in Nat /\ L2Size \in Nat /\ L3Size \in Nat /\ BaseSize \in Nat /\ BaseSize > 0
    /\ L3Size > 0 /\ CondBits \in Nat /\ CondBits >= 1 /\ StoreL3Condition \in Nat /\ ExtraItems \in Nat
    /\ WordBytes < L1Size /\ WordBytes < L2Size /\ L1Size <= L3Size /\ L2Size <= L3Size
    /\ L1Size % WordBytes = 0 /\ L2Size % WordBytes = 0 /\ L3Size % WordBytes = 0
    /\ L3Size % LineSize = 0 /\ L3Size <= HalfRange \div 2 /\ BaseSize % LineSize = 0
  <1>1. WordBytes \in Nat /\ WordBytes >= 1
    <2>1. PICK k \in 0 .. HalfBits : WordBytes = Pow2[k]
      BY VmAssumption
    <2>2. k \in Nat
      BY Ranges
    <2> QED
      BY <2>1, <2>2, Pow2Positive
  <1>2. MaxReg = 8 /\ LineSize = 8 * WordBytes
    BY DEF MaxReg, LineSize
  <1> QED
    BY <1>1, <1>2, VmAssumption

\* The bytes of the scratchpad are whole lines of eight words.
LEMMA ScratchLines ==
    \E n \in Nat : n > 0 /\ L3Size = LineSize * n /\ ScratchWords = 8 * n /\ ScratchWords \in Nat
  <1>0. LineSize \in Nat /\ LineSize > 0 /\ LineSize = 8 * WordBytes
    BY Sizes
  <1>1. PICK n \in Nat : L3Size = LineSize * n
    <2>1. PICK q \in Nat, r \in Nat : q = L3Size \div LineSize /\ r = L3Size % LineSize /\ L3Size = LineSize * q + r
      BY <1>0, Sizes, DivMod, DivNat
    <2>2. r = 0
      BY <2>1, Sizes
    <2> QED
      BY <1>0, <2>1, <2>2
  <1>2. n > 0
    <2>1. n = 0 => LineSize * n = 0
      BY <1>0
    <2> QED
      BY <1>1, <2>1, Sizes
  <1>3. L3Size = WordBytes * (8 * n) + 0
    <2>1. (8 * WordBytes) * n = WordBytes * (8 * n)
      BY Sizes
    <2> QED
      BY <1>0, <1>1, <2>1
  <1>4. L3Size \div WordBytes = 8 * n
    <2>1. PICK m \in Nat : m = 8 * n
      OBVIOUS
    <2>2. 0 \in 0 .. WordBytes - 1 /\ WordBytes > 0
      BY Sizes
    <2>3. L3Size \div WordBytes = m
      BY <1>3, <2>1, <2>2, Sizes, DivModUnique
    <2> QED
      BY <2>1, <2>3
  <1> QED
    BY <1>1, <1>2, <1>4 DEF ScratchWords

\* (x % b) - (x % l), for b = l * n, is a whole line of l below n.
IsLine(y, l, n) == \E i \in 0 .. n - 1 : y = l * i

\* Clearing the low bits of an address leaves the start of a whole line.
LEMMA WholeLine ==
    ASSUME NEW x \in Nat, NEW l \in Nat, l > 0, NEW n \in Nat, n > 0, NEW b \in Nat, b = l * n
    PROVE  IsLine((x % b) - (x % l), l, n)
  <1>0. b > 0
    BY SMT
  <1>1. PICK q \in Nat, r \in Nat : q = x \div b /\ r = x % b /\ x = b * q + r /\ r < b
    BY <1>0, DivMod, DivNat
  <1>2. PICK i \in Nat, s \in Nat : i = r \div l /\ r = l * i + s /\ s \in 0 .. l - 1
    <2>1. r \in Int
      OBVIOUS
    <2> QED
      BY <2>1, DivMod, DivNat
  <1>3. i < n
    BY <1>1, DivBelow, <1>2
  <1>4. x = l * (n * q + i) + s
    <2>1. (l * n) * q = l * (n * q)
      OBVIOUS
    <2>2. l * (n * q + i) = l * (n * q) + l * i
      OBVIOUS
    <2>3. PICK u \in Nat, v \in Nat : u = l * (n * q) /\ v = l * i
      OBVIOUS
    <2>4. x = u + (v + s)
      BY <1>1, <1>2, <2>1, <2>3
    <2>5. l * (n * q + i) + s = (u + v) + s
      BY <2>2, <2>3, Zenon
    <2> QED
      BY <2>4, <2>5
  <1>5. x % l = s
    <2>1. PICK m \in Nat : m = n * q + i
      OBVIOUS
    <2>2. x = l * m + s
      BY <1>4, <2>1
    <2> QED
      BY <1>2, <2>2, DivModUnique
  <1>6. PICK y \in Nat : y = l * i
    OBVIOUS
  <1>7. r - s = y
    BY <1>2, <1>6
  <1>8. (x % b) - (x % l) = l * i
    BY <1>1, <1>5, <1>6, <1>7, Zenon
  <1>9. i \in 0 .. n - 1
    BY <1>3
  <1> QED
    BY <1>8, <1>9, Zenon DEF IsLine

\* An address of a line of the scratchpad.
Lines == {k \in Nat : k % 8 = 0 /\ k + 8 <= ScratchWords}

\* An iteration addresses whole lines of the scratchpad.
LEMMA LineIndexLine ==
    ASSUME NEW x \in Nat
    PROVE  LineIndex(x) \in Lines
  <1>1. PICK n \in Nat : n > 0 /\ L3Size = LineSize * n /\ ScratchWords = 8 * n
    BY ScratchLines
  <1>2. LineSize \in Nat /\ LineSize > 0 /\ LineSize = 8 * WordBytes /\ WordBytes \in Nat /\ WordBytes > 0
    BY Sizes
  <1>3. PICK i \in 0 .. n - 1 : (x % L3Size) - (x % LineSize) = LineSize * i
    <2>1. IsLine((x % L3Size) - (x % LineSize), LineSize, n)
      BY <1>1, <1>2, Sizes, WholeLine
    <2> QED
      BY <2>1, Zenon DEF IsLine
  <1>4. LineIndex(x) = 8 * i
    <2>1. PICK m \in Nat : m = 8 * i
      OBVIOUS
    <2>2. (8 * WordBytes) * i = WordBytes * m + 0
      <3>1. (8 * WordBytes) * i = WordBytes * (8 * i)
        BY <1>2
      <3>2. WordBytes * m \in Int
        BY <1>2
      <3> QED
        BY <2>1, <3>1, <3>2
    <2>3. PICK y \in Int : y = LineSize * i
      <3>1. LineSize * i \in Int
        BY <1>2
      <3> QED
        BY <3>1, Zenon
    <2>6. y = WordBytes * m + 0
      <3>2. LineSize = 8 * WordBytes
        BY <1>2
      <3>3. LineSize * i = (8 * WordBytes) * i
        BY <3>2, Zenon
      <3> QED
        BY <2>2, <2>3, <3>3, Zenon
    <2>4. 0 \in 0 .. WordBytes - 1
      BY <1>2
    <2>5. y \div WordBytes = m
      BY <1>2, <2>4, <2>6, DivModUnique
    <2> QED
      BY <1>3, <2>1, <2>3, <2>5, Zenon DEF LineIndex
  <1>5. (8 * i) % 8 = 0 /\ 8 * i + 8 <= 8 * n /\ 8 * i \in Nat
    OBVIOUS
  <1> QED
    BY <1>1, <1>4, <1>5 DEF Lines

\* An aligned address of the dataset's base.
Aligned == {a \in Nat : \E i \in Nat : a = LineSize * i /\ a < BaseSize}

\* Aligning an address leaves the start of a line of the base dataset.
LEMMA AlignLineAligned ==
    ASSUME NEW x \in Nat
    PROVE  AlignLine(x) \in Aligned
  <1>1. LineSize \in Nat /\ LineSize > 0 /\ BaseSize \in Nat /\ BaseSize > 0 /\ BaseSize % LineSize = 0
    BY Sizes
  <1>2. PICK n \in Nat : BaseSize = LineSize * n /\ n > 0
    <2>1. PICK q \in Nat, r \in Nat : q = BaseSize \div LineSize /\ r = BaseSize % LineSize /\ BaseSize = LineSize * q + r
      BY <1>1, DivMod, DivNat
    <2>2. BaseSize = LineSize * q
      BY <1>1, <2>1
    <2>3. q > 0
      <3>1. q = 0 => LineSize * q = 0
        BY <1>1
      <3> QED
        BY <1>1, <2>2, <3>1
    <2> QED
      BY <2>2, <2>3
  <1>3. PICK i \in 0 .. n - 1 : (x % BaseSize) - (x % LineSize) = LineSize * i
    <2>1. IsLine((x % BaseSize) - (x % LineSize), LineSize, n)
      BY <1>1, <1>2, WholeLine
    <2> QED
      BY <2>1, Zenon DEF IsLine
  <1>4. LineSize * i \in Nat /\ LineSize * i < LineSize * n
    <2>1. LineSize * i <= LineSize * (n - 1)
      BY <1>1, <1>2
    <2>2. LineSize * (n - 1) = LineSize * n - LineSize
      BY <1>1, <1>2
    <2> QED
      BY <1>1, <1>2, <2>1, <2>2
  <1> QED
    BY <1>2, <1>3, <1>4 DEF AlignLine, Aligned

-----------------------------------------------------------------------------
(* The states of a machine.                                                *)

Pair    == Word \X Word
Offsets == {o \in Nat : \E j \in 0 .. ExtraItems : o = LineSize * j}
Scratch == 0 .. ScratchWords - 1

Machine ==
    [r : [Reg -> Word], f : [FloatReg -> Pair], e : [FloatReg -> Pair], a : [FloatReg -> Pair],
     sp : [Scratch -> Word], pc : Int, mx : Nat, ma : Aligned, mode : 0 .. 3, host : 0 .. 3,
     read_reg : Reg \X Reg \X Reg \X Reg, offset : Offsets, e_mask : Pair]

\* A machine whose host is in its rounding mode.
Running(v) == v \in Machine /\ v.host = v.mode

\* The two interpreters do the same with the instructions r and c, on a host
\* that the reference left as it left it, and stay within the program.
Lockstep(v, r, c, index) ==
    /\ Running(ReferenceExec(v, r))
    /\ CompactExec(OnHost(v, ReferenceExec(v, r).host), c) = ReferenceExec(v, r)
    /\ ReferenceExec(v, r).pc = v.pc \/ ReferenceExec(v, r).pc \in -1 .. index - 1

\* Giving a machine its own host changes nothing.
LEMMA SameHost ==
    ASSUME NEW v \in Machine
    PROVE  OnHost(v, v.host) = v
  BY DEF OnHost, Machine

\* Effects on one register, and on one word of the scratchpad.
LEMMA RegisterEffect ==
    ASSUME NEW v, Running(v), NEW r, NEW c, NEW index, NEW d \in Reg, NEW w \in Word,
           ReferenceExec(v, r) = [v EXCEPT !.r[d] = w], CompactExec(v, c) = [v EXCEPT !.r[d] = w]
    PROVE  Lockstep(v, r, c, index)
  <1> DEFINE x == [v EXCEPT !.r[d] = w]
  <1>1. v \in Machine /\ v.host = v.mode
    BY DEF Running
  <1>2. x \in Machine
    BY <1>1 DEF Machine
  <1>3. x.host = v.host /\ x.mode = v.mode /\ x.pc = v.pc
    BY <1>1 DEF Machine
  <1> HIDE DEF x
  <1>4. ReferenceExec(v, r) = x /\ CompactExec(v, c) = x
    BY DEF x
  <1> QED
    BY <1>1, <1>2, <1>3, <1>4, SameHost, Zenon DEF Lockstep, Running

\* An effect on one register of group F.
LEMMA FEffect ==
    ASSUME NEW v, Running(v), NEW r, NEW c, NEW index, NEW d \in FloatReg, NEW w \in Pair,
           ReferenceExec(v, r) = [v EXCEPT !.f[d] = w], CompactExec(v, c) = [v EXCEPT !.f[d] = w]
    PROVE  Lockstep(v, r, c, index)
  <1> DEFINE x == [v EXCEPT !.f[d] = w]
  <1>1. v \in Machine /\ v.host = v.mode
    BY DEF Running
  <1>2. x \in Machine
    BY <1>1 DEF Machine
  <1>3. x.host = v.host /\ x.mode = v.mode /\ x.pc = v.pc
    BY <1>1 DEF Machine
  <1> HIDE DEF x
  <1>4. ReferenceExec(v, r) = x /\ CompactExec(v, c) = x
    BY DEF x
  <1> QED
    BY <1>1, <1>2, <1>3, <1>4, SameHost, Zenon DEF Lockstep, Running

\* An effect on one register of group E.
LEMMA EEffect ==
    ASSUME NEW v, Running(v), NEW r, NEW c, NEW index, NEW d \in FloatReg, NEW w \in Pair,
           ReferenceExec(v, r) = [v EXCEPT !.e[d] = w], CompactExec(v, c) = [v EXCEPT !.e[d] = w]
    PROVE  Lockstep(v, r, c, index)
  <1> DEFINE x == [v EXCEPT !.e[d] = w]
  <1>1. v \in Machine /\ v.host = v.mode
    BY DEF Running
  <1>2. x \in Machine
    BY <1>1 DEF Machine
  <1>3. x.host = v.host /\ x.mode = v.mode /\ x.pc = v.pc
    BY <1>1 DEF Machine
  <1> HIDE DEF x
  <1>4. ReferenceExec(v, r) = x /\ CompactExec(v, c) = x
    BY DEF x
  <1> QED
    BY <1>1, <1>2, <1>3, <1>4, SameHost, Zenon DEF Lockstep, Running

\* An effect on one word of the scratchpad.
LEMMA StoreEffect ==
    ASSUME NEW v, Running(v), NEW r, NEW c, NEW index, NEW k \in Scratch, NEW w \in Word,
           ReferenceExec(v, r) = [v EXCEPT !.sp[k] = w], CompactExec(v, c) = [v EXCEPT !.sp[k] = w]
    PROVE  Lockstep(v, r, c, index)
  <1> DEFINE x == [v EXCEPT !.sp[k] = w]
  <1>1. v \in Machine /\ v.host = v.mode
    BY DEF Running
  <1>2. x \in Machine
    BY <1>1 DEF Machine
  <1>3. x.host = v.host /\ x.mode = v.mode /\ x.pc = v.pc
    BY <1>1 DEF Machine
  <1> HIDE DEF x
  <1>4. ReferenceExec(v, r) = x /\ CompactExec(v, c) = x
    BY DEF x
  <1> QED
    BY <1>1, <1>2, <1>3, <1>4, SameHost, Zenon DEF Lockstep, Running

\* An instruction without effect.
LEMMA NoEffect ==
    ASSUME NEW v, Running(v), NEW r, NEW c, NEW index, ReferenceExec(v, r) = v, CompactExec(v, c) = v
    PROVE  Lockstep(v, r, c, index)
  BY SameHost, Zenon DEF Lockstep, Running

MemoryOps == {"IADD_M", "ISUB_M", "IMUL_M", "IMULH_M", "ISMULH_M", "IXOR_M"}

\* The opcodes of each table of forms.
LEMMA FormDomains ==
    /\ DOMAIN MemoryForms = MemoryOps
    /\ DOMAIN RegisterForms = {"ISUB_R", "IMUL_R", "IXOR_R", "IROR_R", "IROL_R"}
    /\ DOMAIN HighForms = {"IMULH_R", "ISMULH_R"}
    /\ FloatOpcodes = ReferenceFloats
  BY DEF MemoryForms, RegisterForms, HighForms, FloatForms, FloatMemoryForms, FloatOpcodes, ReferenceFloats, MemoryOps

Opcode(raw) == OpcodeIn(CompactOpcodes, raw.op)

\* Both decoders read the opcode byte alike.
LEMMA SameOpcode ==
    ASSUME NEW raw
    PROVE  OpcodeIn(ReferenceOpcodes, raw.op) = Opcode(raw)
  <1>1. ReferenceOpcodes = CompactOpcodes
    BY Zenon DEF ReferenceOpcodes, CompactOpcodes
  <1> QED
    BY <1>1, Zenon DEF Opcode

\* What the decoders make of an integer instruction on memory.
LEMMA MemoryDecoded ==
    ASSUME NEW raw, NEW index, NEW usg, Opcode(raw) \in MemoryOps
    PROVE  /\ CompactDecode(raw, index, usg).instr
                = IF raw.dst % MaxReg = raw.src % MaxReg
                  THEN NewMemory("m", AluOf[Opcode(raw)], raw.dst % MaxReg, NoReg, raw.imm & MemoryMask("L3"), "L3")
                  ELSE NewMemory("m", AluOf[Opcode(raw)], raw.dst % MaxReg, raw.src % MaxReg, SignExtend(raw.imm),
                                 IF raw.mem = 0 THEN "L2" ELSE "L1")
           /\ ReferenceDecode(raw, index, usg).instr = NewLcacheInstr(Opcode(raw), RReg(raw.dst), raw)
  <1> DEFINE op == Opcode(raw)
  <1>1. op \notin FloatOpcodes /\ op \notin ReferenceFloats /\ op # "CBRANCH" /\ op # "CFROUND" /\ op # "ISTORE" /\ op # "IADD_RS"
    BY FormDomains DEF MemoryOps, ReferenceFloats
  <1>2. op \in DOMAIN MemoryForms /\ AluOf[op] = MemoryForms[op]
    BY FormDomains DEF MemoryOps, MemoryForms, AluOf
  <1> HIDE DEF op
  <1>3. CompactDecode(raw, index, usg).instr = CompactInteger(op, raw, raw.dst % MaxReg, raw.src % MaxReg)
    BY <1>1 DEF CompactDecode, op, Opcode
  <1>4. ReferenceDecode(raw, index, usg).instr = ReferenceInteger(op, raw, SignedHalf(raw.imm), RReg(raw.dst), RReg(raw.src))
    BY <1>1, SameOpcode DEF ReferenceDecode, op
  <1>5. ReferenceDecode(raw, index, usg).instr = NewLcacheInstr(op, RReg(raw.dst), raw)
    BY <1>1, <1>4 DEF ReferenceInteger, op, MemoryOps
  <1>6. CASE raw.dst % MaxReg = raw.src % MaxReg
    BY <1>1, <1>2, <1>3, <1>5, <1>6, FormDomains DEF CompactInteger, DecodeMemory, op, MemoryOps
  <1>7. CASE raw.dst % MaxReg # raw.src % MaxReg
    BY <1>1, <1>2, <1>3, <1>5, <1>7, FormDomains DEF CompactInteger, DecodeMemory, op, MemoryOps
  <1> QED
    BY <1>6, <1>7

-----------------------------------------------------------------------------
(* Operands.                                                               *)

\* The byte offset of the register d, and of the floating-point register d.
IsRegister(o, d) == o # NoReg /\ o \div WordBytes = d /\ RegisterOffset(o)
IsFloat(o, d) == o # NoReg /\ o \div FloatBytes = d /\ FloatOffset(o)

\* The byte offset of an integer register names it.
LEMMA RegisterBytes ==
    ASSUME NEW d \in Reg
    PROVE  IsRegister(ByteOffset(d, WordBytes), d)
  <1>1. d \in Nat /\ d <= 7 /\ WordBytes \in Nat /\ WordBytes >= 1 /\ 8 * WordBytes <= 255 /\ MaxReg = 8
    BY Sizes DEF Reg, MaxReg
  <1>2. PICK o \in Int : o = WordBytes * d
    BY <1>1
  <1>3. o <= WordBytes * 7 /\ o >= 0
    BY <1>1, <1>2
  <1>4. d # NoReg /\ d * WordBytes = o
    BY <1>1, <1>2 DEF NoReg
  <1>5. o = WordBytes * d + 0 /\ 0 \in 0 .. WordBytes - 1
    BY <1>1, <1>2
  <1>6. o \div WordBytes = d /\ o % WordBytes = 0
    BY <1>1, <1>5, DivModUnique
  <1>7. ByteOffset(d, WordBytes) = o
    BY <1>4 DEF ByteOffset
  <1>8. o # NoReg /\ o < MaxReg * WordBytes
    BY <1>1, <1>3 DEF NoReg
  <1> QED
    BY <1>6, <1>7, <1>8, Zenon DEF IsRegister, RegisterOffset

\* The byte offset of a floating-point register names it.
LEMMA FloatBytesOffset ==
    ASSUME NEW d \in FloatReg
    PROVE  IsFloat(ByteOffset(d, FloatBytes), d)
  <1>1. d \in Nat /\ d <= 3 /\ WordBytes \in Nat /\ WordBytes >= 1 /\ 8 * WordBytes <= 255 /\ MaxFloat = 4
    BY Sizes DEF FloatReg, MaxFloat
  <1>2. PICK n \in Nat : n = FloatBytes /\ n > 0 /\ 4 * n <= 255
    BY <1>1 DEF FloatBytes
  <1>3. PICK o \in Int : o = n * d
    BY <1>1
  <1>4. o <= n * 3 /\ o >= 0
    BY <1>1, <1>2, <1>3
  <1>5. d # NoReg /\ d * n = o
    BY <1>1, <1>3 DEF NoReg
  <1>6. o = n * d + 0 /\ 0 \in 0 .. n - 1
    BY <1>1, <1>2, <1>3
  <1>7. o \div n = d /\ o % n = 0
    BY <1>1, <1>2, <1>6, DivModUnique
  <1>8. ByteOffset(d, FloatBytes) = o
    BY <1>2, <1>5 DEF ByteOffset
  <1>9. o # NoReg /\ o < MaxFloat * n
    BY <1>1, <1>2, <1>4 DEF NoReg
  <1> QED
    BY <1>2, <1>7, <1>8, <1>9, Zenon DEF IsFloat, FloatOffset

\* Registers of an instruction.
LEMMA Registers ==
    ASSUME NEW raw \in RawInstr
    PROVE  /\ raw.dst % MaxReg \in Reg /\ raw.src % MaxReg \in Reg
           /\ raw.dst % MaxFloat \in FloatReg /\ raw.src % MaxFloat \in FloatReg
           /\ raw.imm \in Half /\ raw.cond \in 0 .. 15 /\ raw.shft \in 0 .. 3
  BY DEF RawInstr, MaxReg, MaxFloat, Reg, FloatReg

\* The immediate that both interpreters use.
LEMMA Immediate ==
    ASSUME NEW imm \in Half
    PROVE  /\ FromImm(SignedHalf(imm)) = SignExtend(imm) /\ FromImm(imm) = SignExtend(imm)
           /\ SignedHalf(imm) # NoImm /\ imm # NoImm
           /\ SignedHalf(imm) % HalfRange = imm
  <1>1. imm \in Nat /\ imm < HalfRange /\ HalfRange \in Nat /\ HalfRange >= 256
    BY HalfWord, Ranges
  <1>2. imm % HalfRange = imm
    BY <1>1
  <1>3. PICK s \in Int : s = SignedHalf(imm) /\ (s = imm \/ s = imm - HalfRange)
    <2>1. SignedHalf(imm) \in Int /\ (SignedHalf(imm) = imm \/ SignedHalf(imm) = imm - HalfRange)
      BY <1>1 DEF SignedHalf
    <2> QED
      BY <2>1, Zenon
  <1>4. s % HalfRange = imm
    BY <1>1, <1>3
  <1>5. s # -HalfRange /\ imm # -HalfRange
    BY <1>1, <1>3 DEF SignedHalf
  <1> QED
    BY <1>2, <1>3, <1>4, <1>5, Zenon DEF FromImm, NoImm

Sized == {L1Size, L2Size, L3Size}

\* A cache level is a whole number of words, and fits an immediate.
LEMMA SizedWhole ==
    ASSUME NEW size \in Sized
    PROVE  \E n \in Nat : n > 1 /\ size = WordBytes * n /\ n <= ScratchWords
  <1>1. PICK m \in Nat : m > 0 /\ L3Size = LineSize * m /\ ScratchWords = 8 * m
    BY ScratchLines
  <1>2. /\ WordBytes \in Nat /\ WordBytes >= 1 /\ LineSize = 8 * WordBytes /\ size \in Nat /\ size <= L3Size
        /\ size % WordBytes = 0 /\ L3Size \in Nat
    BY Sizes DEF Sized
  <1>3. PICK w \in Nat : w = ScratchWords /\ L3Size = WordBytes * w /\ w > 1
    BY <1>1, <1>2
  <1>4. WordBytes < size
    <2>1. WordBytes * 1 < WordBytes * w
      BY <1>2, <1>3
    <2>2. WordBytes < L3Size
      BY <1>2, <1>3, <2>1
    <2> QED
      BY <2>2, Sizes DEF Sized
  <1>5. PICK q \in Nat, r \in Nat : q = size \div WordBytes /\ r = size % WordBytes /\ size = WordBytes * q + r
    BY <1>2, DivMod, DivNat
  <1>6. size = WordBytes * q
    BY <1>2, <1>5
  <1>7. q > 1
    BY <1>2, <1>4, <1>6
  <1>8. q <= w
    <2>1. SUFFICES ASSUME q >= w + 1 PROVE FALSE
      BY <1>3
    <2>2. WordBytes * q >= WordBytes * (w + 1)
      BY <1>2, <1>3, <2>1
    <2>3. WordBytes * (w + 1) = WordBytes * w + WordBytes
      BY <1>2, <1>3
    <2> QED
      BY <1>2, <1>3, <1>6, <2>2, <2>3
  <1> QED
    BY <1>3, <1>6, <1>7, <1>8

\* A masked address is that of a word of the scratchpad.
InScratch(o) == ScratchOffset(o) /\ o \div WordBytes \in Scratch

\* A masked address is the start of a word of the scratchpad.
LEMMA MaskedWord ==
    ASSUME NEW x \in Int, NEW size \in Sized, NEW mask, mask = size - WordBytes
    PROVE  /\ mask \in Nat /\ mask # 0 /\ InScratch(x & mask)
           /\ x & mask \in Nat /\ x & mask <= mask
  <1>1. PICK n \in Nat : n > 1 /\ size = WordBytes * n /\ n <= ScratchWords
    BY SizedWhole
  <1>2. PICK j \in Nat : WordBytes = Pow2[j]
    BY VmAssumption
  <1>3. PICK m \in Nat : ScratchWords = 8 * m /\ L3Size = LineSize * m
    BY ScratchLines
  <1>4. WordBytes \in Nat /\ WordBytes >= 1 /\ LineSize = 8 * WordBytes
    BY Sizes
  <1>5. PICK p \in Nat : p = n - 1 /\ p > 0
    BY <1>1
  <1>6. mask = WordBytes * p /\ mask \in Nat /\ mask > 0
    <2>1. WordBytes * n = WordBytes * p + WordBytes
      BY <1>4, <1>5
    <2>2. WordBytes * p \in Nat /\ WordBytes * p > 0
      BY <1>4, <1>5
    <2> QED
      BY <1>1, <1>4, <2>1, <2>2
  <1>7. mask = Pow2[j] * p
    BY <1>2, <1>6, Zenon
  <1>8. PICK d \in Nat : x & mask = Pow2[j] * d
    BY <1>6, <1>7, AndMultiple
  <1>9. PICK y \in Nat : y = x & mask /\ y <= mask
    BY <1>6, AndBelow
  <1>10. y = WordBytes * d
    BY <1>2, <1>8, <1>9, Zenon
  <1>11. d <= p
    <2>1. SUFFICES ASSUME d >= p + 1 PROVE FALSE
      OBVIOUS
    <2>2. WordBytes * d >= WordBytes * (p + 1)
      BY <1>4, <2>1
    <2>3. WordBytes * (p + 1) = WordBytes * p + WordBytes
      BY <1>4
    <2> QED
      BY <1>4, <1>6, <1>9, <1>10, <2>2, <2>3
  <1>12. y \div WordBytes = d /\ y % WordBytes = 0
    <2>1. y = WordBytes * d + 0 /\ 0 \in 0 .. WordBytes - 1
      BY <1>4, <1>10
    <2> QED
      BY <1>4, <2>1, DivModUnique
  <1>13. y + WordBytes <= L3Size
    <2>1. PICK w \in Nat : w = ScratchWords /\ L3Size = WordBytes * w
      BY <1>3, <1>4
    <2>2. WordBytes * (d + 1) <= WordBytes * w
      BY <1>1, <1>4, <1>5, <1>11, <2>1
    <2>3. WordBytes * (d + 1) = WordBytes * d + WordBytes
      BY <1>4
    <2> QED
      BY <1>10, <2>1, <2>2, <2>3
  <1>14. d \in Scratch
    BY <1>1, <1>3, <1>5, <1>11 DEF Scratch
  <1>15. InScratch(y)
    BY <1>12, <1>13, <1>14, Zenon DEF InScratch, ScratchOffset
  <1> QED
    BY <1>6, <1>9, <1>15

\* The absolute address of a load from L3.
LEMMA Absolute ==
    ASSUME NEW imm \in Half
    PROVE  FromImm(imm & L3Mask) = imm & L3Mask /\ imm & L3Mask \in Half /\ imm & L3Mask # NoImm
  <1>1. imm \in Int /\ HalfRange \in Nat /\ HalfRange >= 256
    BY HalfWord, Ranges
  <1>2. PICK m \in Nat : m = L3Mask /\ m < HalfRange \div 2 /\ imm & m \in Nat /\ imm & m <= m
    <2>1. L3Size \in Sized /\ L3Mask = L3Size - WordBytes
      BY DEF Sized, L3Mask
    <2>2. L3Mask \in Nat /\ imm & L3Mask \in Nat /\ imm & L3Mask <= L3Mask
      BY <1>1, <2>1, MaskedWord
    <2>3. L3Mask < HalfRange \div 2
      BY <1>1, <2>1, Sizes
    <2> QED
      BY <2>2, <2>3
  <1>3. PICK y \in Nat : y = imm & L3Mask /\ y < HalfRange \div 2
    BY <1>1, <1>2
  <1>4. y \in Half /\ SignExtend(y) = y
    BY <1>1, <1>3 DEF Half, SignExtend
  <1>5. FromImm(y) = y /\ y # NoImm
    BY <1>4, Immediate
  <1> QED
    BY <1>3, <1>4, <1>5

\* Exactness of a decoded reciprocal.
ExactReciprocal(i) ==
    i.reciprocal # 0 =>
        /\ i.reciprocal \in WordRange \div 2 .. WordRange - 1
        /\ \E x \in Bits .. Bits + HalfBits : i.reciprocal = Pow2[x] \div (i.imm % HalfRange)

\* What is shown of every pair of decoded instructions.
Verified(v, r, c, index) ==
    /\ Lockstep(v, r, c, index)
    /\ NeverPanics(r)
    /\ AccessesAsserted(v, c)
    /\ ExactReciprocal(r)

\* The fields of a reference instruction.
LEMMA InstrFields ==
    ASSUME NEW op, NEW dst, NEW src, NEW imm, NEW mode
    PROVE  LET i == Instr(op, dst, src, imm, mode)
           IN  /\ i.op = op /\ i.dst = dst /\ i.src = src /\ i.imm = imm /\ i.mode = mode
               /\ i.target = -1 /\ i.reciprocal = 0
  BY DEF Instr

\* The fields of a compact instruction.
LEMMA NewFields ==
    ASSUME NEW form, NEW op, NEW dst, NEW src, NEW imm, NEW mode
    PROVE  LET i == New(form, op, dst, src, imm, mode)
           IN  /\ i.form = form /\ i.op = op /\ i.dst = ByteOffset(dst, WordBytes)
               /\ i.src = ByteOffset(src, WordBytes) /\ i.imm = imm /\ i.mode = mode
               /\ i.mask = 0 /\ i.target = 0
  BY DEF New

\* The fields of one with a memory operand.
LEMMA NewMemoryFields ==
    ASSUME NEW form, NEW op, NEW dst, NEW src, NEW imm, NEW mode
    PROVE  LET i == NewMemory(form, op, dst, src, imm, mode)
           IN  /\ i.form = form /\ i.op = op /\ i.dst = ByteOffset(dst, WordBytes)
               /\ i.src = ByteOffset(src, WordBytes) /\ i.imm = imm /\ i.mode = mode
               /\ i.mask = MemoryMask(mode)
  BY DEF New, NewMemory

\* The fields of one on floating-point registers.
LEMMA NewFloatFields ==
    ASSUME NEW form, NEW op, NEW dst, NEW src
    PROVE  LET i == NewFloat(form, op, dst, src)
           IN  /\ i.form = form /\ i.op = op /\ i.dst = ByteOffset(dst, FloatBytes)
               /\ i.src = ByteOffset(src, FloatBytes)
  BY DEF New, NewFloat

\* The fields of an operand of the reference.
LEMMA StoreFields ==
    ASSUME NEW kind, NEW i
    PROVE  Store(kind, i).kind = kind /\ Store(kind, i).i = i
  BY DEF Store

-----------------------------------------------------------------------------
(* Loads and stores.                                                       *)

\* The two interpreters load from the same word of the scratchpad.
LoadsMatch(v, r, c) ==
    /\ InScratch(SrcOffset(v, c)) /\ SrcIx(v, r) = SrcOffset(v, c) \div WordBytes
    /\ c.mask # 0 /\ (c.src # NoReg => RegisterOffset(c.src))
    /\ r.src.kind \in Caches /\ r.imm # NoImm
StoresMatch(v, r, c) ==
    /\ InScratch(DstOffset(v, c)) /\ DstIx(v, r) = DstOffset(v, c) \div WordBytes
    /\ c.mask # 0 /\ r.dst.kind \in Caches /\ r.imm # NoImm

\* The mask of a level is its size less a word.
LEMMA Masks ==
    ASSUME NEW mode \in Caches
    PROVE  \E size \in Sized :
              /\ MemoryMask(mode) = size - WordBytes
              /\ (mode = "L1" => size = L1Size) /\ (mode = "L2" => size = L2Size) /\ (mode = "L3" => size = L3Size)
  BY DEF Caches, MemoryMask, Sized

\* The address in a register.
LEMMA AddressMatches ==
    ASSUME NEW v \in Machine, NEW mode \in Caches, NEW s \in Reg, NEW imm \in Half
    PROVE  LET x == WrappingAdd(R(v, ByteOffset(s, WordBytes)), SignExtend(imm)) & MemoryMask(mode)
           IN  InScratch(x) /\ MemoryMask(mode) # 0
               /\ ByteAddress(v, Store(mode, s), SignedHalf(imm)) = x
  <1>1. PICK size \in Sized : /\ MemoryMask(mode) = size - WordBytes
              /\ (mode = "L1" => size = L1Size) /\ (mode = "L2" => size = L2Size) /\ (mode = "L3" => size = L3Size)
    BY Masks
  <1>2. R(v, ByteOffset(s, WordBytes)) = v.r[s]
    BY RegisterBytes, Zenon DEF R, IsRegister
  <1>3. PICK sum \in Int : sum = WrappingAdd(v.r[s], SignExtend(imm))
    <2>1. v.r[s] \in Word
      BY DEF Machine
    <2>2. v.r[s] \in Int /\ SignExtend(imm) \in Int
      BY <2>1, SignExtendWord, WordInt
    <2>3. WrappingAdd(v.r[s], SignExtend(imm)) \in Word
      BY <2>2, Wrapping
    <2> QED
      BY <2>3, WordInt
  <1>4. InScratch(sum & MemoryMask(mode)) /\ MemoryMask(mode) # 0
    BY <1>1, MaskedWord
  <1>5. FromImm(SignedHalf(imm)) = SignExtend(imm)
    BY Immediate
  <1>6. ByteAddress(v, Store(mode, s), SignedHalf(imm)) = sum & MemoryMask(mode)
    <2>1. Store(mode, s).kind = mode /\ Store(mode, s).i = s
      BY StoreFields
    <2>2. WrappingAdd(v.r[Store(mode, s).i], FromImm(SignedHalf(imm))) = sum
      BY <1>3, <1>5, <2>1, Zenon
    <2>3. CASE mode = "L1"
      BY <1>1, <2>1, <2>2, <2>3 DEF ByteAddress
    <2>4. CASE mode = "L2"
      BY <1>1, <2>1, <2>2, <2>4 DEF ByteAddress
    <2>5. CASE mode = "L3"
      BY <1>1, <2>1, <2>2, <2>5 DEF ByteAddress, L3Mask
    <2> QED
      BY <2>3, <2>4, <2>5 DEF Caches
  <1> QED
    BY <1>2, <1>3, <1>4, <1>6, Zenon

\* A load through a register is from the same word on both sides.
LEMMA IndirectLoad ==
    ASSUME NEW v \in Machine, NEW mode \in Caches, NEW s \in Reg, NEW imm \in Half, NEW r, NEW c,
           c.src = ByteOffset(s, WordBytes), c.imm = SignExtend(imm), c.mask = MemoryMask(mode),
           r.src = Store(mode, s), r.imm = SignedHalf(imm)
    PROVE  LoadsMatch(v, r, c)
  <1>1. PICK x : /\ x = WrappingAdd(R(v, ByteOffset(s, WordBytes)), SignExtend(imm)) & MemoryMask(mode)
                 /\ InScratch(x) /\ MemoryMask(mode) # 0
                 /\ ByteAddress(v, Store(mode, s), SignedHalf(imm)) = x
    BY AddressMatches, Zenon
  <1>2. c.src # NoReg /\ RegisterOffset(c.src)
    BY RegisterBytes, Zenon DEF IsRegister
  <1>3. SrcOffset(v, c) = x
    BY <1>1, <1>2 DEF SrcOffset
  <1>4. r.src # LImm /\ r.src.kind = mode
    BY DEF LImm, Store, Reg, MaxReg
  <1>5. SrcIx(v, r) = x \div WordBytes
    BY <1>1, <1>4 DEF SrcIx
  <1>6. r.imm # NoImm
    BY Immediate, Zenon
  <1> QED
    BY <1>1, <1>2, <1>3, <1>4, <1>5, <1>6, Zenon DEF LoadsMatch

\* So is a load from an immediate address.
LEMMA DirectLoad ==
    ASSUME NEW v \in Machine, NEW imm \in Half, NEW r, NEW c,
           c.src = NoReg, c.imm = imm & MemoryMask("L3"), c.mask = MemoryMask("L3"),
           r.src = LImm, r.imm = imm & L3Mask
    PROVE  LoadsMatch(v, r, c)
  <1>1. MemoryMask("L3") = L3Mask /\ L3Size \in Sized /\ L3Mask = L3Size - WordBytes
    BY DEF MemoryMask, L3Mask, Sized
  <1>2. PICK y \in Int : y = imm & L3Mask /\ FromImm(y) = y /\ y # NoImm
    BY Absolute DEF Half
  <1>3. InScratch(y & L3Mask) /\ L3Mask # 0
    BY <1>1, MaskedWord
  <1>4. SrcOffset(v, c) = y & L3Mask
    BY <1>1, <1>2, Zenon DEF SrcOffset
  <1>5. SrcIx(v, r) = (y & L3Mask) \div WordBytes
    BY <1>2, Zenon DEF SrcIx
  <1>6. r.src.kind \in Caches
    BY DEF LImm, Store, Caches
  <1>7. c.mask # 0 /\ r.imm # NoImm
    BY <1>1, <1>2, <1>3, Zenon
  <1> QED
    BY <1>3, <1>4, <1>5, <1>6, <1>7, Zenon DEF LoadsMatch

\* So is a store.
LEMMA IndirectStore ==
    ASSUME NEW v \in Machine, NEW mode \in Caches, NEW s \in Reg, NEW imm \in Half, NEW r, NEW c,
           c.dst = ByteOffset(s, WordBytes), c.imm = SignExtend(imm), c.mask = MemoryMask(mode),
           r.dst = Store(mode, s), r.imm = SignedHalf(imm)
    PROVE  StoresMatch(v, r, c)
  <1>1. PICK x : /\ x = WrappingAdd(R(v, ByteOffset(s, WordBytes)), SignExtend(imm)) & MemoryMask(mode)
                 /\ InScratch(x) /\ MemoryMask(mode) # 0
                 /\ ByteAddress(v, Store(mode, s), SignedHalf(imm)) = x
    BY AddressMatches, Zenon
  <1>2. DstOffset(v, c) = x
    BY <1>1, Zenon DEF DstOffset
  <1>3. r.dst.kind = mode
    BY StoreFields
  <1>4. DstIx(v, r) = x \div WordBytes
    BY <1>1, Zenon DEF DstIx
  <1>5. r.imm # NoImm
    BY Immediate, Zenon
  <1> QED
    BY <1>1, <1>2, <1>3, <1>4, <1>5, Zenon DEF StoresMatch

-----------------------------------------------------------------------------
(* Integer instructions with a memory operand.                             *)

\* The same load, operation and destination have the same effect.
LEMMA MemoryExecuted ==
    ASSUME NEW v, Running(v), NEW r, NEW c, NEW index, NEW d \in Reg,
           r.op \in MemoryOps, r.dst = Store("R", d), r.reciprocal = 0,
           c.form = "m", c.op = AluOf[r.op], c.dst = ByteOffset(d, WordBytes),
           LoadsMatch(v, r, c)
    PROVE  Verified(v, r, c, index)
  <1>1. v \in Machine
    BY DEF Running
  <1>2. PICK k \in Scratch : k = SrcOffset(v, c) \div WordBytes /\ SrcIx(v, r) = k
    BY DEF LoadsMatch, InScratch
  <1>3. c.op \in AluOps
    BY DEF MemoryOps, AluOf, AluOps
  <1>4. PICK w \in Word : w = Alu(c.op, v.r[d], v.sp[k])
    <2>1. v.r[d] \in Word /\ v.sp[k] \in Word
      BY <1>1 DEF Machine
    <2> QED
      BY <1>3, <2>1, AluWord
  <1>5. IsRegister(c.dst, d)
    BY RegisterBytes
  <1>6. r.dst.kind = "R" /\ r.dst.i = d
    BY StoreFields
  <1>7. ReferenceExec(v, r) = [v EXCEPT !.r[d] = w]
    <2>1. ReferenceExec(v, r) = ReferenceExecInteger(v, r)
      BY DEF ReferenceExec, MemoryOps, ReferenceFloats
    <2>2. ReferenceExecInteger(v, r) = [v EXCEPT !.r[r.dst.i] = Alu(AluOf[r.op], v.r[r.dst.i], v.sp[SrcIx(v, r)])]
      BY DEF ReferenceExecInteger, MemoryOps
    <2> QED
      BY <1>2, <1>4, <1>6, <2>1, <2>2, Zenon
  <1>8. CompactExec(v, c) = [v EXCEPT !.r[d] = w]
    <2>1. CompactExec(v, c) = CompactExecInteger(v, c)
      BY DEF CompactExec, FloatEffects
    <2>2. CompactExecInteger(v, c) = SetR(v, c.dst, Alu(c.op, R(v, c.dst), ScratchAt(v, SrcOffset(v, c))))
      BY DEF CompactExecInteger
    <2>3. R(v, c.dst) = v.r[d] /\ c.dst \div WordBytes = d
      BY <1>5, Zenon DEF R, IsRegister
    <2>4. ScratchAt(v, SrcOffset(v, c)) = v.sp[k]
      BY <1>2, Zenon DEF ScratchAt
    <2> QED
      BY <1>4, <2>1, <2>2, <2>3, <2>4, Zenon DEF SetR
  <1>9. Lockstep(v, r, c, index)
    BY <1>7, <1>8, RegisterEffect
  <1>10. NeverPanics(r)
    BY <1>6 DEF NeverPanics, MemoryOps, LoadsMatch, AluOf
  <1>11. AccessesAsserted(v, c)
    BY <1>5 DEF AccessesAsserted, LoadsMatch, InScratch, IsRegister, FloatEffects
  <1> QED
    BY <1>9, <1>10, <1>11 DEF Verified, ExactReciprocal

\* IADD_M, ISUB_M, IMUL_M, IMULH_M, ISMULH_M and IXOR_M.
LEMMA MemoryVerified ==
    ASSUME NEW v, Running(v), NEW raw \in RawInstr, NEW index, NEW usg, Opcode(raw) \in MemoryOps
    PROVE  Verified(v, ReferenceDecode(raw, index, usg).instr, CompactDecode(raw, index, usg).instr, index)
  <1>1. PICK r : r = ReferenceDecode(raw, index, usg).instr
    OBVIOUS
  <1>2. PICK c : c = CompactDecode(raw, index, usg).instr
    OBVIOUS
  <1>3. PICK d \in Reg, s \in Reg : d = raw.dst % MaxReg /\ s = raw.src % MaxReg
    BY Registers
  <1>4. PICK imm \in Half : imm = raw.imm
    BY Registers
  <1>5. v \in Machine
    BY DEF Running
  <1>6. RReg(raw.dst) = Store("R", d) /\ (RReg(raw.src) = RReg(raw.dst) <=> s = d)
    BY <1>3 DEF RReg, Store
  <1>7. PICK op \in MemoryOps : op = Opcode(raw)
    OBVIOUS
  <1>8. CASE s = d
    <2>1. c = NewMemory("m", AluOf[op], d, NoReg, imm & MemoryMask("L3"), "L3")
      BY <1>2, <1>3, <1>4, <1>7, <1>8, MemoryDecoded
    <2>2. r = Instr(op, Store("R", d), LImm, imm & L3Mask, NoMode)
      <3>1. r = NewLcacheInstr(op, RReg(raw.dst), raw)
        BY <1>1, <1>7, MemoryDecoded
      <3> QED
        BY <1>4, <1>6, <1>8, <3>1 DEF NewLcacheInstr
    <2>3. /\ c.form = "m" /\ c.op = AluOf[op] /\ c.dst = ByteOffset(d, WordBytes) /\ c.src = ByteOffset(NoReg, WordBytes)
          /\ c.imm = imm & MemoryMask("L3") /\ c.mask = MemoryMask("L3")
      BY <2>1, NewMemoryFields
    <2>4. c.src = NoReg
      BY <2>3 DEF ByteOffset
    <2>5. r.op = op /\ r.dst = Store("R", d) /\ r.src = LImm /\ r.imm = imm & L3Mask /\ r.reciprocal = 0
      BY <2>2, InstrFields
    <2>6. LoadsMatch(v, r, c)
      BY <1>5, <2>3, <2>4, <2>5, DirectLoad
    <2> QED
      BY <1>1, <1>2, <2>3, <2>5, <2>6, MemoryExecuted
  <1>9. CASE s # d
    <2>0. PICK mode \in Caches : mode = IF raw.mem = 0 THEN "L2" ELSE "L1"
      BY DEF Caches
    <2>1. c = NewMemory("m", AluOf[op], d, s, SignExtend(imm), mode)
      BY <1>2, <1>3, <1>4, <1>7, <1>9, <2>0, MemoryDecoded
    <2>2. r = Instr(op, Store("R", d), Store(mode, s), SignedHalf(imm), NoMode)
      <3>1. r = NewLcacheInstr(op, RReg(raw.dst), raw)
        BY <1>1, <1>7, MemoryDecoded
      <3>2. L12Cache(raw.src, raw) = Store(mode, s)
        BY <1>3, <2>0 DEF L12Cache
      <3> QED
        BY <1>4, <1>6, <1>9, <3>1, <3>2 DEF NewLcacheInstr
    <2>3. /\ c.form = "m" /\ c.op = AluOf[op] /\ c.dst = ByteOffset(d, WordBytes) /\ c.src = ByteOffset(s, WordBytes)
          /\ c.imm = SignExtend(imm) /\ c.mask = MemoryMask(mode)
      BY <2>1, NewMemoryFields
    <2>5. r.op = op /\ r.dst = Store("R", d) /\ r.src = Store(mode, s) /\ r.imm = SignedHalf(imm) /\ r.reciprocal = 0
      BY <2>2, InstrFields
    <2>6. LoadsMatch(v, r, c)
      BY <1>5, <2>3, <2>5, IndirectLoad
    <2> QED
      BY <1>1, <1>2, <2>3, <2>5, <2>6, MemoryExecuted
  <1> QED
    BY <1>8, <1>9

-----------------------------------------------------------------------------
(* Integer instructions on registers.                                      *)

NotInteger == ReferenceFloats \cup {"CBRANCH", "CFROUND", "ISTORE"}
RotateOps  == {"IROR_R", "IROL_R"}
RegisterOps == {"ISUB_R", "IMUL_R", "IXOR_R", "IROR_R", "IROL_R"}
HighOps    == {"IMULH_R", "ISMULH_R"}

\* What the decoders make of other integer instructions.
LEMMA IntegerDecoded ==
    ASSUME NEW raw, NEW index, NEW usg, Opcode(raw) \notin NotInteger
    PROVE  /\ CompactDecode(raw, index, usg).instr
                = CompactInteger(Opcode(raw), raw, raw.dst % MaxReg, raw.src % MaxReg)
           /\ ReferenceDecode(raw, index, usg).instr
                = ReferenceInteger(Opcode(raw), raw, SignedHalf(raw.imm), RReg(raw.dst), RReg(raw.src))
  <1>1. /\ Opcode(raw) \notin FloatOpcodes /\ Opcode(raw) \notin ReferenceFloats
        /\ Opcode(raw) # "CBRANCH" /\ Opcode(raw) # "CFROUND" /\ Opcode(raw) # "ISTORE"
    BY FormDomains DEF NotInteger
  <1>2. CompactDecode(raw, index, usg).instr = CompactInteger(Opcode(raw), raw, raw.dst % MaxReg, raw.src % MaxReg)
    BY <1>1 DEF CompactDecode, Opcode
  <1>3. ReferenceDecode(raw, index, usg).instr
           = ReferenceInteger(Opcode(raw), raw, SignedHalf(raw.imm), RReg(raw.dst), RReg(raw.src))
    BY <1>1, SameOpcode DEF ReferenceDecode
  <1> QED
    BY <1>2, <1>3

\* The same operands and destination have the same effect.
LEMMA RegisterExecuted ==
    ASSUME NEW v, Running(v), NEW r, NEW c, NEW index, NEW d \in Reg, NEW w \in Word, NEW o \in AluOps,
           w = Alu(o, v.r[d], IF c.form = "imm" THEN c.imm ELSE R(v, c.src)),
           c.form \in {"r", "imm"}, c.op = o, c.dst = ByteOffset(d, WordBytes),
           c.form = "r" => RegisterOffset(c.src),
           r.op \in RegisterOps \cup HighOps, AluOf[r.op] = o, r.dst = Store("R", d), r.reciprocal = 0,
           r.op \in RegisterOps => /\ w = Alu(o, v.r[d], ImmOrR(v, r))
                                   /\ r.src.kind = "R" \/ (r.src = None /\ r.imm # NoImm),
           r.op \in HighOps => w = Alu(o, v.r[d], v.r[r.src.i]) /\ r.src.kind = "R"
    PROVE  Verified(v, r, c, index)
  <1>1. v \in Machine
    BY DEF Running
  <1>2. IsRegister(c.dst, d)
    BY RegisterBytes
  <1>3. r.dst.kind = "R" /\ r.dst.i = d
    BY StoreFields
  <1>4. ReferenceExec(v, r) = [v EXCEPT !.r[d] = w]
    <2>1. ReferenceExec(v, r) = ReferenceExecInteger(v, r)
      BY DEF ReferenceExec, RegisterOps, HighOps, ReferenceFloats
    <2>2. CASE r.op \in RegisterOps
      <3>1. ReferenceExecInteger(v, r) = [v EXCEPT !.r[r.dst.i] = Alu(AluOf[r.op], v.r[r.dst.i], ImmOrR(v, r))]
        BY <2>2 DEF ReferenceExecInteger, RegisterOps
      <3> QED
        BY <1>3, <2>1, <2>2, <3>1, Zenon
    <2>3. CASE r.op \in HighOps
      <3>1. ReferenceExecInteger(v, r) = [v EXCEPT !.r[r.dst.i] = Alu(AluOf[r.op], v.r[r.dst.i], v.r[r.src.i])]
        BY <2>3 DEF ReferenceExecInteger, HighOps
      <3> QED
        BY <1>3, <2>1, <2>3, <3>1, Zenon
    <2> QED
      BY <2>2, <2>3
  <1>5. CompactExec(v, c) = [v EXCEPT !.r[d] = w]
    <2>1. CompactExec(v, c) = CompactExecInteger(v, c)
      BY DEF CompactExec, FloatEffects
    <2>2. R(v, c.dst) = v.r[d] /\ c.dst \div WordBytes = d
      BY <1>2, Zenon DEF R, IsRegister
    <2>3. CASE c.form = "r"
      <3>1. CompactExecInteger(v, c) = SetR(v, c.dst, Alu(c.op, R(v, c.dst), R(v, c.src)))
        BY <2>3 DEF CompactExecInteger
      <3>2. w = Alu(o, v.r[d], R(v, c.src))
        BY <2>3
      <3> QED
        BY <2>1, <2>2, <3>1, <3>2, Zenon DEF SetR
    <2>4. CASE c.form = "imm"
      <3>1. CompactExecInteger(v, c) = SetR(v, c.dst, Alu(c.op, R(v, c.dst), c.imm))
        BY <2>4 DEF CompactExecInteger
      <3>2. w = Alu(o, v.r[d], c.imm)
        BY <2>4
      <3> QED
        BY <2>1, <2>2, <3>1, <3>2, Zenon DEF SetR
    <2> QED
      BY <2>3, <2>4
  <1>6. Lockstep(v, r, c, index)
    BY <1>4, <1>5, RegisterEffect
  <1>7. NeverPanics(r)
    BY <1>3 DEF NeverPanics, RegisterOps, HighOps, AluOf
  <1>8. AccessesAsserted(v, c)
    BY <1>2 DEF AccessesAsserted, IsRegister, FloatEffects
  <1> QED
    BY <1>6, <1>7, <1>8 DEF Verified, ExactReciprocal

\* Reading a register by its byte offset.
LEMMA RegisterOperand ==
    ASSUME NEW v, v \in Machine, NEW s \in Reg
    PROVE  /\ R(v, ByteOffset(s, WordBytes)) = v.r[s] /\ v.r[s] \in Word
           /\ RegisterOffset(ByteOffset(s, WordBytes))
  <1>1. v.r[s] \in Word
    BY DEF Machine
  <1> QED
    BY <1>1, RegisterBytes, Zenon DEF R, IsRegister

\* An operand that is a register or, when the registers are equal, an immediate.
LEMMA RegOrImm ==
    ASSUME NEW v, Running(v), NEW r, NEW c, NEW index, NEW d \in Reg, NEW s \in Reg, NEW op \in RegisterOps,
           NEW x \in Half, NEW y, FromImm(y) = SignExtend(x), y # NoImm,
           r = NewInstr(op, Store("R", d), Store("R", s), y), c = DecodeRegOrImm(AluOf[op], d, s, x)
    PROVE  Verified(v, r, c, index)
  <1>1. v \in Machine
    BY DEF Running
  <1>2. PICK o \in AluOps : o = AluOf[op]
    BY DEF RegisterOps, AluOf, AluOps
  <1>3. v.r[d] \in Word
    BY <1>1, RegisterOperand
  <1>4. Store("R", d) = Store("R", s) <=> d = s
    BY DEF Store
  <1>5. CASE d = s
    <2>1. r = Instr(op, Store("R", d), None, y, NoMode)
      BY <1>4, <1>5 DEF NewInstr
    <2>2. c = New("imm", o, d, NoReg, SignExtend(x), 0)
      BY <1>2, <1>5 DEF DecodeRegOrImm
    <2>3. r.op = op /\ r.dst = Store("R", d) /\ r.src = None /\ r.imm = y /\ r.reciprocal = 0
      BY <2>1, InstrFields
    <2>4. c.form = "imm" /\ c.op = o /\ c.dst = ByteOffset(d, WordBytes) /\ c.imm = SignExtend(x)
      BY <2>2, NewFields
    <2>5. ImmOrR(v, r) = SignExtend(x)
      BY <2>3 DEF ImmOrR
    <2>6. PICK w \in Word : w = Alu(o, v.r[d], SignExtend(x))
      BY <1>3, SignExtendWord, AluWord
    <2>7. op \notin HighOps
      BY DEF HighOps, RegisterOps
    <2> QED
      BY <1>2, <2>3, <2>4, <2>5, <2>6, <2>7, RegisterExecuted
  <1>6. CASE d # s
    <2>1. r = Instr(op, Store("R", d), Store("R", s), NoImm, NoMode)
      BY <1>4, <1>6 DEF NewInstr
    <2>2. c = New("r", o, d, s, 0, 0)
      BY <1>2, <1>6 DEF DecodeRegOrImm
    <2>3. r.op = op /\ r.dst = Store("R", d) /\ r.src = Store("R", s) /\ r.reciprocal = 0
      BY <2>1, InstrFields
    <2>4. c.form = "r" /\ c.op = o /\ c.dst = ByteOffset(d, WordBytes) /\ c.src = ByteOffset(s, WordBytes)
      BY <2>2, NewFields
    <2>5. ImmOrR(v, r) = v.r[s] /\ r.src.kind = "R"
      BY <2>3 DEF ImmOrR, Store, None
    <2>6. R(v, c.src) = v.r[s] /\ v.r[s] \in Word /\ RegisterOffset(c.src)
      BY <1>1, <2>4, RegisterOperand
    <2>7. PICK w \in Word : w = Alu(o, v.r[d], v.r[s])
      BY <1>3, <2>6, AluWord
    <2>8. op \notin HighOps
      BY DEF HighOps, RegisterOps
    <2> QED
      BY <1>2, <2>3, <2>4, <2>5, <2>6, <2>7, <2>8, RegisterExecuted
  <1> QED
    BY <1>5, <1>6

\* ISUB_R, IMUL_R, IXOR_R, IROR_R and IROL_R.
LEMMA RegisterVerified ==
    ASSUME NEW v, Running(v), NEW raw \in RawInstr, NEW index, NEW usg, Opcode(raw) \in RegisterOps
    PROVE  Verified(v, ReferenceDecode(raw, index, usg).instr, CompactDecode(raw, index, usg).instr, index)
  <1>1. PICK r : r = ReferenceDecode(raw, index, usg).instr
    OBVIOUS
  <1>2. PICK c : c = CompactDecode(raw, index, usg).instr
    OBVIOUS
  <1>3. PICK d \in Reg, s \in Reg : d = raw.dst % MaxReg /\ s = raw.src % MaxReg
    BY Registers
  <1>4. PICK imm \in Half : imm = raw.imm
    BY Registers
  <1>5. RReg(raw.dst) = Store("R", d) /\ RReg(raw.src) = Store("R", s)
    BY <1>3 DEF RReg
  <1>6. PICK op \in RegisterOps : op = Opcode(raw)
    OBVIOUS
  <1>7. op \notin NotInteger /\ AluOf[op] = RegisterForms[op]
    BY DEF RegisterOps, NotInteger, ReferenceFloats, AluOf, RegisterForms
  <1>8. c = CompactInteger(op, raw, d, s) /\ r = ReferenceInteger(op, raw, SignedHalf(imm), Store("R", d), Store("R", s))
    BY <1>1, <1>2, <1>3, <1>4, <1>5, <1>6, <1>7, IntegerDecoded
  <1>9. CASE op \in RotateOps
    <2>1. PICK x \in Half : x = imm % Bits
      <3>1. imm \in Nat /\ imm < HalfRange /\ HalfRange \in Nat /\ Bits \in Nat /\ Bits > 0
        BY Ranges, HalfWord
      <3>2. imm % Bits \in Nat /\ imm % Bits <= imm
        BY <3>1
      <3> QED
        BY <3>1, <3>2 DEF Half
    <2>2. c = DecodeRegOrImm(AluOf[op], d, s, x)
      BY <1>4, <1>7, <1>8, <1>9, <2>1, FormDomains DEF CompactInteger, RotateOps, MemoryOps
    <2>3. r = NewInstr(op, Store("R", d), Store("R", s), x)
      BY <1>4, <1>8, <1>9, <2>1 DEF ReferenceInteger, RotateOps
    <2> QED
      BY <1>1, <1>2, <2>2, <2>3, Immediate, RegOrImm
  <1>10. CASE op \notin RotateOps
    <2>1. c = DecodeRegOrImm(AluOf[op], d, s, imm)
      BY <1>4, <1>7, <1>8, <1>10, FormDomains DEF CompactInteger, RotateOps, RegisterOps, MemoryOps
    <2>2. r = NewInstr(op, Store("R", d), Store("R", s), SignedHalf(imm))
      BY <1>8, <1>10 DEF ReferenceInteger, RotateOps, RegisterOps
    <2> QED
      BY <1>1, <1>2, <2>1, <2>2, Immediate, RegOrImm
  <1> QED
    BY <1>9, <1>10

\* IMULH_R and ISMULH_R.
LEMMA HighVerified ==
    ASSUME NEW v, Running(v), NEW raw \in RawInstr, NEW index, NEW usg, Opcode(raw) \in HighOps
    PROVE  Verified(v, ReferenceDecode(raw, index, usg).instr, CompactDecode(raw, index, usg).instr, index)
  <1>1. PICK r : r = ReferenceDecode(raw, index, usg).instr
    OBVIOUS
  <1>2. PICK c : c = CompactDecode(raw, index, usg).instr
    OBVIOUS
  <1>3. PICK d \in Reg, s \in Reg : d = raw.dst % MaxReg /\ s = raw.src % MaxReg
    BY Registers
  <1>4. RReg(raw.dst) = Store("R", d) /\ RReg(raw.src) = Store("R", s)
    BY <1>3 DEF RReg
  <1>5. PICK op \in HighOps : op = Opcode(raw)
    OBVIOUS
  <1>6. op \notin NotInteger /\ AluOf[op] = HighForms[op] /\ AluOf[op] \in AluOps
    BY DEF HighOps, NotInteger, ReferenceFloats, AluOf, HighForms, AluOps
  <1>7. c = CompactInteger(op, raw, d, s) /\ r = ReferenceInteger(op, raw, SignedHalf(raw.imm), Store("R", d), Store("R", s))
    BY <1>1, <1>2, <1>3, <1>4, <1>5, <1>6, IntegerDecoded
  <1>8. c = New("r", AluOf[op], d, s, 0, 0)
    BY <1>6, <1>7, FormDomains DEF CompactInteger, HighOps, MemoryOps
  <1>9. r = Instr(op, Store("R", d), Store("R", s), NoImm, NoMode)
    BY <1>7 DEF ReferenceInteger, HighOps
  <1>10. r.op = op /\ r.dst = Store("R", d) /\ r.src = Store("R", s) /\ r.reciprocal = 0
    BY <1>9, InstrFields
  <1>11. c.form = "r" /\ c.op = AluOf[op] /\ c.dst = ByteOffset(d, WordBytes) /\ c.src = ByteOffset(s, WordBytes)
    BY <1>8, NewFields
  <1>12. r.src.kind = "R" /\ r.src.i = s
    BY <1>10, StoreFields
  <1>13. R(v, c.src) = v.r[s] /\ v.r[s] \in Word /\ RegisterOffset(c.src) /\ v.r[d] \in Word
    BY <1>11, RegisterOperand DEF Running
  <1>14. PICK w \in Word : w = Alu(AluOf[op], v.r[d], v.r[s])
    BY <1>6, <1>13, AluWord
  <1>15. op \notin RegisterOps
    BY DEF HighOps, RegisterOps
  <1> QED
    BY <1>1, <1>2, <1>6, <1>10, <1>11, <1>12, <1>13, <1>14, <1>15, RegisterExecuted

\* Adding zero wraps nothing.
LEMMA AddZero == \A x \in Word : WrappingAdd(x, 0) = x
  <1>1. \A x \in Word : x \in Nat /\ x < WordRange /\ WordRange \in Nat
    BY WordInt, Ranges
  <1> QED
    BY <1>1 DEF WrappingAdd

\* IADD_RS, with the displaced register and without.
LEMMA AddVerified ==
    ASSUME NEW v, Running(v), NEW raw \in RawInstr, NEW index, NEW usg, Opcode(raw) = "IADD_RS"
    PROVE  Verified(v, ReferenceDecode(raw, index, usg).instr, CompactDecode(raw, index, usg).instr, index)
  <1>1. PICK r : r = ReferenceDecode(raw, index, usg).instr
    OBVIOUS
  <1>2. PICK c : c = CompactDecode(raw, index, usg).instr
    OBVIOUS
  <1>3. PICK d \in Reg, s \in Reg : d = raw.dst % MaxReg /\ s = raw.src % MaxReg
    BY Registers
  <1>4. PICK imm \in Half : imm = raw.imm
    BY Registers
  <1>5. PICK n \in Nat : n = raw.shft
    BY Registers
  <1>6. RReg(raw.dst) = Store("R", d) /\ RReg(raw.src) = Store("R", s) /\ (Store("R", d) = RReg(5) <=> d = 5)
    BY <1>3 DEF RReg, Store, MaxReg
  <1>7. PICK x : x = IF d = 5 THEN SignExtend(imm) ELSE 0
    OBVIOUS
  <1>8. PICK y : y = IF d = 5 THEN SignedHalf(imm) ELSE NoImm
    OBVIOUS
  <1>9. c = New("iadd_rs", "add", d, s, x, n)
    <2>1. c = CompactInteger("IADD_RS", raw, d, s)
      BY <1>2, <1>3, IntegerDecoded DEF NotInteger, ReferenceFloats
    <2> QED
      BY <1>4, <1>5, <1>7, <2>1, FormDomains DEF CompactInteger, MemoryOps
  <1>10. r = Instr("IADD_RS", Store("R", d), Store("R", s), y, Shft(n))
    <2>1. r = ReferenceInteger("IADD_RS", raw, SignedHalf(imm), Store("R", d), Store("R", s))
      BY <1>1, <1>4, <1>6, IntegerDecoded DEF NotInteger, ReferenceFloats
    <2> QED
      BY <1>5, <1>6, <1>8, <2>1 DEF ReferenceInteger
  <1>11. /\ c.form = "iadd_rs" /\ c.dst = ByteOffset(d, WordBytes) /\ c.src = ByteOffset(s, WordBytes)
         /\ c.imm = x /\ c.mode = n
    BY <1>9, NewFields
  <1>12. r.op = "IADD_RS" /\ r.dst = Store("R", d) /\ r.src = Store("R", s) /\ r.imm = y /\ r.mode.kind = "Shft" /\ r.mode.x = n /\ r.reciprocal = 0
    BY <1>10, InstrFields DEF Shft
  <1>13. r.dst.kind = "R" /\ r.dst.i = d /\ r.src.kind = "R" /\ r.src.i = s
    BY <1>12, StoreFields
  <1>14. /\ R(v, c.src) = v.r[s] /\ v.r[s] \in Word /\ RegisterOffset(c.src)
         /\ R(v, c.dst) = v.r[d] /\ v.r[d] \in Word /\ RegisterOffset(c.dst)
    BY <1>11, RegisterOperand DEF Running
  <1>15. c.dst \div WordBytes = d
    BY <1>11, RegisterBytes DEF IsRegister
  <1>16. PICK p \in Word : p = WrappingMul(v.r[s], Pow2[n])
    <2>1. v.r[s] \in Int /\ Pow2[n] \in Int
      BY <1>14, WordInt, Pow2Positive
    <2>2. WrappingMul(v.r[s], Pow2[n]) \in Word
      BY <2>1, Wrapping
    <2> QED
      BY <2>2
  <1>17. PICK z \in Word : z = WrappingAdd(p, x) /\ z = (IF y = NoImm THEN p ELSE WrappingAdd(p, FromImm(y)))
    <2>1. CASE d = 5
      <3>1. x = SignExtend(imm) /\ FromImm(y) = x /\ y # NoImm
        BY <1>7, <1>8, <2>1, Immediate
      <3>2. WrappingAdd(p, x) \in Word
        BY <3>1, SignExtendWord, WordInt, Wrapping
      <3> QED
        BY <3>1, <3>2
    <2>2. CASE d # 5
      BY <1>7, <1>8, <2>2, AddZero
    <2> QED
      BY <2>1, <2>2
  <1>18. PICK w \in Word : w = WrappingAdd(v.r[d], z)
    BY <1>14, WordInt, Wrapping
  <1>19. CompactExec(v, c) = [v EXCEPT !.r[d] = w]
    <2>1. CompactExec(v, c) = CompactExecInteger(v, c)
      BY <1>11 DEF CompactExec, FloatEffects
    <2>2. CompactExecInteger(v, c)
            = SetR(v, c.dst, WrappingAdd(R(v, c.dst), WrappingAdd(WrappingMul(R(v, c.src), Pow2[c.mode]), c.imm)))
      BY <1>11 DEF CompactExecInteger
    <2> QED
      BY <1>11, <1>14, <1>15, <1>16, <1>17, <1>18, <2>1, <2>2, Zenon DEF SetR
  <1>20. ReferenceExec(v, r) = [v EXCEPT !.r[d] = w]
    <2>1. ReferenceExec(v, r) = ReferenceExecInteger(v, r)
      BY <1>12 DEF ReferenceExec, ReferenceFloats
    <2>2. ReferenceExecInteger(v, r)
            = [v EXCEPT !.r[r.dst.i] = WrappingAdd(v.r[r.dst.i],
                  IF r.imm = NoImm THEN WrappingMul(v.r[r.src.i], Pow2[r.mode.x])
                  ELSE WrappingAdd(WrappingMul(v.r[r.src.i], Pow2[r.mode.x]), FromImm(r.imm)))]
      BY <1>12 DEF ReferenceExecInteger
    <2> QED
      BY <1>12, <1>13, <1>16, <1>17, <1>18, <2>1, <2>2, Zenon
  <1>21. Lockstep(v, r, c, index)
    BY <1>19, <1>20, RegisterEffect
  <1>22. NeverPanics(r)
    BY <1>12, <1>13 DEF NeverPanics, AluOf
  <1>23. AccessesAsserted(v, c)
    BY <1>11, <1>14 DEF AccessesAsserted, FloatEffects
  <1> QED
    BY <1>1, <1>2, <1>12, <1>21, <1>22, <1>23 DEF Verified, ExactReciprocal

\* INEG_R.
LEMMA NegVerified ==
    ASSUME NEW v, Running(v), NEW raw \in RawInstr, NEW index, NEW usg, Opcode(raw) = "INEG_R"
    PROVE  Verified(v, ReferenceDecode(raw, index, usg).instr, CompactDecode(raw, index, usg).instr, index)
  <1>1. PICK r : r = ReferenceDecode(raw, index, usg).instr
    OBVIOUS
  <1>2. PICK c : c = CompactDecode(raw, index, usg).instr
    OBVIOUS
  <1>3. PICK d \in Reg : d = raw.dst % MaxReg
    BY Registers
  <1>4. RReg(raw.dst) = Store("R", d)
    BY <1>3 DEF RReg
  <1>5. c = New("ineg_r", "neg", d, NoReg, 0, 0)
    <2>1. c = CompactInteger("INEG_R", raw, d, raw.src % MaxReg)
      BY <1>2, <1>3, IntegerDecoded DEF NotInteger, ReferenceFloats
    <2> QED
      BY <2>1, FormDomains DEF CompactInteger, MemoryOps
  <1>6. r = Instr("INEG_R", Store("R", d), None, NoImm, NoMode)
    <2>1. r = ReferenceInteger("INEG_R", raw, SignedHalf(raw.imm), Store("R", d), RReg(raw.src))
      BY <1>1, <1>4, IntegerDecoded DEF NotInteger, ReferenceFloats
    <2>2. r = NewInstr("INEG_R", Store("R", d), None, SignedHalf(raw.imm))
      BY <2>1 DEF ReferenceInteger
    <2>3. None # Store("R", d)
      BY DEF None, Store
    <2> QED
      BY <2>2, <2>3 DEF NewInstr
  <1>7. c.form = "ineg_r" /\ c.dst = ByteOffset(d, WordBytes)
    BY <1>5, NewFields
  <1>8. r.op = "INEG_R" /\ r.dst = Store("R", d) /\ r.reciprocal = 0
    BY <1>6, InstrFields
  <1>9. r.dst.kind = "R" /\ r.dst.i = d
    BY <1>8, StoreFields
  <1>10. R(v, c.dst) = v.r[d] /\ v.r[d] \in Word /\ RegisterOffset(c.dst)
    BY <1>7, RegisterOperand DEF Running
  <1>11. c.dst \div WordBytes = d
    BY <1>7, RegisterBytes DEF IsRegister
  <1>12. PICK w \in Word : w = Negated(v.r[d])
    BY <1>10, NegatedWord
  <1>13. CompactExec(v, c) = [v EXCEPT !.r[d] = w]
    <2>1. CompactExec(v, c) = CompactExecInteger(v, c)
      BY <1>7 DEF CompactExec, FloatEffects
    <2>2. CompactExecInteger(v, c) = SetR(v, c.dst, Negated(R(v, c.dst)))
      BY <1>7 DEF CompactExecInteger
    <2> QED
      BY <1>10, <1>11, <1>12, <2>1, <2>2, Zenon DEF SetR
  <1>14. ReferenceExec(v, r) = [v EXCEPT !.r[d] = w]
    <2>1. ReferenceExec(v, r) = ReferenceExecInteger(v, r)
      BY <1>8 DEF ReferenceExec, ReferenceFloats
    <2>2. ReferenceExecInteger(v, r) = [v EXCEPT !.r[r.dst.i] = Negated(v.r[r.dst.i])]
      BY <1>8 DEF ReferenceExecInteger
    <2> QED
      BY <1>9, <1>12, <2>1, <2>2, Zenon
  <1>15. Lockstep(v, r, c, index)
    BY <1>13, <1>14, RegisterEffect
  <1>16. NeverPanics(r)
    BY <1>8, <1>9 DEF NeverPanics, AluOf
  <1>17. AccessesAsserted(v, c)
    BY <1>7, <1>10 DEF AccessesAsserted, FloatEffects
  <1> QED
    BY <1>1, <1>2, <1>8, <1>15, <1>16, <1>17 DEF Verified, ExactReciprocal

\* Two registers at once.
Swapped(v, d, s, w, z) == [v EXCEPT !.r[d] = w, !.r[s] = z]

\* An effect on two registers.
LEMMA SwapEffect ==
    ASSUME NEW v, Running(v), NEW r, NEW c, NEW index, NEW d \in Reg, NEW s \in Reg,
           NEW w \in Word, NEW z \in Word,
           ReferenceExec(v, r) = Swapped(v, d, s, w, z), CompactExec(v, c) = Swapped(v, d, s, w, z)
    PROVE  Lockstep(v, r, c, index)
  <1> DEFINE x == Swapped(v, d, s, w, z)
  <1>1. v \in Machine /\ v.host = v.mode
    BY DEF Running
  <1>2. x \in Machine
    BY <1>1 DEF Machine, Swapped
  <1>3. x.host = v.host /\ x.mode = v.mode /\ x.pc = v.pc
    BY <1>1 DEF Machine, Swapped
  <1> HIDE DEF x
  <1>4. ReferenceExec(v, r) = x /\ CompactExec(v, c) = x
    BY DEF x
  <1> QED
    BY <1>1, <1>2, <1>3, <1>4, SameHost, Zenon DEF Lockstep, Running

\* ISWAP_R, also of a register with itself.
LEMMA SwapVerified ==
    ASSUME NEW v, Running(v), NEW raw \in RawInstr, NEW index, NEW usg, Opcode(raw) = "ISWAP_R"
    PROVE  Verified(v, ReferenceDecode(raw, index, usg).instr, CompactDecode(raw, index, usg).instr, index)
  <1>1. PICK r : r = ReferenceDecode(raw, index, usg).instr
    OBVIOUS
  <1>2. PICK c : c = CompactDecode(raw, index, usg).instr
    OBVIOUS
  <1>3. PICK d \in Reg, s \in Reg : d = raw.dst % MaxReg /\ s = raw.src % MaxReg
    BY Registers
  <1>4. RReg(raw.dst) = Store("R", d) /\ RReg(raw.src) = Store("R", s) /\ (Store("R", d) = Store("R", s) <=> d = s)
    BY <1>3 DEF RReg, Store
  <1>5. c = CompactInteger("ISWAP_R", raw, d, s)
    BY <1>2, <1>3, IntegerDecoded DEF NotInteger, ReferenceFloats
  <1>6. r = ReferenceInteger("ISWAP_R", raw, SignedHalf(raw.imm), Store("R", d), Store("R", s))
    BY <1>1, <1>4, IntegerDecoded DEF NotInteger, ReferenceFloats
  <1>7. CASE d = s
    <2>1. c = New("nop", "nop", NoReg, NoReg, 0, 0)
      BY <1>5, <1>7, FormDomains DEF CompactInteger, MemoryOps, Nop
    <2>2. r = Instr("NOP", None, None, SignedHalf(raw.imm), NoMode)
      <3>1. r = NewInstr("NOP", None, None, SignedHalf(raw.imm))
        BY <1>4, <1>6, <1>7 DEF ReferenceInteger
      <3> QED
        BY <3>1 DEF NewInstr
    <2>3. c.form = "nop"
      BY <2>1, NewFields
    <2>4. r.op = "NOP" /\ r.reciprocal = 0
      BY <2>2, InstrFields
    <2>5. CompactExec(v, c) = v
      <3>1. CompactExec(v, c) = CompactExecInteger(v, c)
        BY <2>3 DEF CompactExec, FloatEffects
      <3> QED
        BY <2>3, <3>1 DEF CompactExecInteger
    <2>6. ReferenceExec(v, r) = v
      <3>1. ReferenceExec(v, r) = ReferenceExecInteger(v, r)
        BY <2>4 DEF ReferenceExec, ReferenceFloats
      <3> QED
        BY <2>4, <3>1 DEF ReferenceExecInteger
    <2>7. Lockstep(v, r, c, index)
      BY <2>5, <2>6, NoEffect
    <2>8. NeverPanics(r)
      BY <2>4 DEF NeverPanics, AluOf
    <2>9. AccessesAsserted(v, c)
      BY <2>3 DEF AccessesAsserted, FloatEffects
    <2> QED
      BY <1>1, <1>2, <2>4, <2>7, <2>8, <2>9 DEF Verified, ExactReciprocal
  <1>8. CASE d # s
    <2>1. c = New("iswap_r", "swap", d, s, 0, 0)
      BY <1>5, <1>8, FormDomains DEF CompactInteger, MemoryOps
    <2>2. r = Instr("ISWAP_R", Store("R", d), Store("R", s), NoImm, NoMode)
      BY <1>4, <1>6, <1>8 DEF ReferenceInteger
    <2>3. c.form = "iswap_r" /\ c.dst = ByteOffset(d, WordBytes) /\ c.src = ByteOffset(s, WordBytes)
      BY <2>1, NewFields
    <2>4. r.op = "ISWAP_R" /\ r.dst = Store("R", d) /\ r.src = Store("R", s) /\ r.reciprocal = 0
      BY <2>2, InstrFields
    <2>5. r.dst.kind = "R" /\ r.dst.i = d /\ r.src.kind = "R" /\ r.src.i = s
      BY <2>4, StoreFields
    <2>6. /\ R(v, c.src) = v.r[s] /\ v.r[s] \in Word /\ RegisterOffset(c.src)
          /\ R(v, c.dst) = v.r[d] /\ v.r[d] \in Word /\ RegisterOffset(c.dst)
      BY <2>3, RegisterOperand DEF Running
    <2>7. c.dst \div WordBytes = d /\ c.src \div WordBytes = s
      BY <2>3, RegisterBytes DEF IsRegister
    <2>8. CompactExec(v, c) = [[v EXCEPT !.r[d] = v.r[s]] EXCEPT !.r[s] = v.r[d]]
      <3>1. CompactExec(v, c) = CompactExecInteger(v, c)
        BY <2>3 DEF CompactExec, FloatEffects
      <3>2. CompactExecInteger(v, c) = SetR(SetR(v, c.dst, R(v, c.src)), c.src, R(v, c.dst))
        BY <2>3 DEF CompactExecInteger
      <3> QED
        BY <2>6, <2>7, <3>1, <3>2, Zenon DEF SetR
    <2>9. ReferenceExec(v, r) = [v EXCEPT !.r[d] = v.r[s], !.r[s] = v.r[d]]
      <3>1. ReferenceExec(v, r) = ReferenceExecInteger(v, r)
        BY <2>4 DEF ReferenceExec, ReferenceFloats
      <3>2. ReferenceExecInteger(v, r) = [v EXCEPT !.r[r.dst.i] = v.r[r.src.i], !.r[r.src.i] = v.r[r.dst.i]]
        BY <2>4 DEF ReferenceExecInteger
      <3> QED
        BY <2>5, <3>1, <3>2, Zenon
    <2>10. Lockstep(v, r, c, index)
      <3>1. PICK w \in Word, z \in Word : w = v.r[s] /\ z = v.r[d]
        BY <2>6
      <3>2. CompactExec(v, c) = Swapped(v, d, s, w, z)
        BY <2>8, <3>1, Zenon DEF Swapped
      <3>3. ReferenceExec(v, r) = Swapped(v, d, s, w, z)
        BY <2>9, <3>1, Zenon DEF Swapped
      <3> QED
        BY <3>2, <3>3, SwapEffect
    <2>11. NeverPanics(r)
      BY <2>4, <2>5 DEF NeverPanics, AluOf
    <2>12. AccessesAsserted(v, c)
      BY <2>3, <2>6 DEF AccessesAsserted, FloatEffects
    <2> QED
      BY <1>1, <1>2, <2>4, <2>10, <2>11, <2>12 DEF Verified, ExactReciprocal
  <1> QED
    BY <1>7, <1>8

-----------------------------------------------------------------------------
(* Branches, rounding modes and stores.                                    *)

\* CBRANCH: a branch goes to just after the last use of its register.
LEMMA BranchVerified ==
    ASSUME NEW v, Running(v), NEW raw \in RawInstr, NEW index \in Nat, NEW usg \in [Reg -> -1 .. index - 1],
           Opcode(raw) = "CBRANCH"
    PROVE  Verified(v, ReferenceDecode(raw, index, usg).instr, CompactDecode(raw, index, usg).instr, index)
  <1>1. PICK r : r = ReferenceDecode(raw, index, usg).instr
    OBVIOUS
  <1>2. PICK c : c = CompactDecode(raw, index, usg).instr
    OBVIOUS
  <1>3. PICK d \in Reg : d = raw.dst % MaxReg
    BY Registers
  <1>4. PICK imm \in Half : imm = raw.imm
    BY Registers
  <1>5. PICK shift \in Nat : shift = raw.cond + CondBits /\ shift >= 1
    BY Registers, Sizes
  <1>6. PICK t \in -1 .. index - 1 : t = usg[d]
    OBVIOUS
  <1>7. PICK inc \in Int : inc = BranchIncrement(imm, shift)
    <2>1. shift \in Nat /\ shift - 1 \in Nat
      BY <1>5
    <2>2. Pow2[shift] \in Int /\ Pow2[shift - 1] \in Int /\ SignExtend(imm) \in Int /\ WordRange \in Int
      BY <2>1, Pow2Positive, SignExtendWord, WordInt, Ranges
    <2>3. PICK p \in Int : p = SignExtend(imm) | Pow2[shift]
      BY <2>2, BitwiseWord, WordInt
    <2>4. PICK q \in Int : q = WordRange - 1 - Pow2[shift - 1]
      BY <2>2
    <2>5. p & q \in Int
      BY BitwiseWord, WordInt
    <2> QED
      BY <2>3, <2>4, <2>5, Zenon DEF BranchIncrement
  <1>8. c = [New("cbranch", "add", d, NoReg, inc, shift) EXCEPT !.target = t]
    <2>1. CompactDecode(raw, index, usg).instr
            = [New("cbranch", "add", raw.dst % MaxReg, NoReg, BranchIncrement(raw.imm, raw.cond + CondBits), raw.cond + CondBits)
                EXCEPT !.target = usg[raw.dst % MaxReg]]
      BY FormDomains DEF CompactDecode, Opcode, ReferenceFloats
    <2> QED
      BY <1>2, <1>3, <1>4, <1>5, <1>6, <1>7, <2>1, Zenon
  <1>9. r = [Instr("CBRANCH", Store("R", d), None, SignedHalf(imm), Cond(raw.cond)) EXCEPT !.target = t]
    <2>1. ReferenceDecode(raw, index, usg).instr
            = [Instr("CBRANCH", RReg(raw.dst), None, SignedHalf(raw.imm), Cond(raw.cond)) EXCEPT !.target = usg[raw.dst % MaxReg]]
      BY SameOpcode DEF ReferenceDecode, ReferenceFloats
    <2> QED
      BY <1>1, <1>3, <1>4, <1>6, <2>1, Zenon DEF RReg
  <1>10. /\ c.form = "cbranch" /\ c.dst = ByteOffset(d, WordBytes) /\ c.imm = inc /\ c.mode = shift /\ c.target = t
    BY <1>8 DEF New
  <1>11. /\ r.op = "CBRANCH" /\ r.dst = Store("R", d) /\ r.imm = SignedHalf(imm) /\ r.mode.kind = "Cond" /\ r.mode.x = raw.cond /\ r.target = t
         /\ r.reciprocal = 0
    BY <1>9 DEF Instr, Cond
  <1>12. r.dst.kind = "R" /\ r.dst.i = d /\ r.imm # NoImm /\ FromImm(r.imm) = SignExtend(imm)
    BY <1>11, StoreFields, Immediate
  <1>13. R(v, c.dst) = v.r[d] /\ v.r[d] \in Word /\ RegisterOffset(c.dst) /\ c.dst \div WordBytes = d
    BY <1>10, RegisterOperand, RegisterBytes DEF Running, IsRegister
  <1>14. PICK sum \in Word : sum = WrappingAdd(v.r[d], inc)
    BY <1>13, WordInt, Wrapping
  <1>15. PICK pc : pc = IF sum & ((Pow2[CondBits] - 1) * Pow2[shift]) = 0 THEN t ELSE v.pc
    OBVIOUS
  <1>16. pc = v.pc \/ pc \in -1 .. index - 1
    BY <1>15
  <1>17. pc \in Int
    BY <1>16 DEF Running, Machine
  <1> DEFINE x == [v EXCEPT !.r[d] = sum, !.pc = pc]
  <1>18. ReferenceExec(v, r) = x
    <2>1. r.mode.x + CondBits = shift
      BY <1>5, <1>11
    <2>2. (FromImm(r.imm) | Pow2[shift]) & (WordRange - 1 - Pow2[shift - 1]) = inc
      BY <1>7, <1>12, Zenon DEF BranchIncrement
    <2>3. ReferenceExec(v, r)
            = LET step == (FromImm(r.imm) | Pow2[r.mode.x + CondBits]) & (WordRange - 1 - Pow2[(r.mode.x + CondBits) - 1])
                  total == WrappingAdd(v.r[r.dst.i], step)
              IN  [v EXCEPT !.r[r.dst.i] = total,
                     !.pc = IF total & ((Pow2[CondBits] - 1) * Pow2[r.mode.x + CondBits]) = 0 THEN r.target ELSE v.pc]
      BY <1>11 DEF ReferenceExec, ReferenceFloats
    <2> QED
      BY <1>11, <1>12, <1>14, <1>15, <2>1, <2>2, <2>3, Zenon
  <1>19. v \in Machine /\ v.host = v.mode
    BY DEF Running
  <1>20. x \in Machine /\ x.host = v.host /\ x.mode = v.mode /\ x.pc = pc
    BY <1>17, <1>19 DEF Machine
  <1>21. CompactExec(v, c) = x
    <2>1. CompactExec(v, c)
            = [SetR(v, c.dst, WrappingAdd(R(v, c.dst), c.imm)) EXCEPT
                 !.pc = IF WrappingAdd(R(v, c.dst), c.imm) & ((Pow2[CondBits] - 1) * Pow2[c.mode]) = 0 THEN c.target ELSE v.pc]
      BY <1>10 DEF CompactExec, FloatEffects
    <2>2. CompactExec(v, c) = [[v EXCEPT !.r[d] = sum] EXCEPT !.pc = pc]
      BY <1>10, <1>13, <1>14, <1>15, <2>1, Zenon DEF SetR
    <2> QED
      BY <2>2
  <1> HIDE DEF x
  <1>22. Lockstep(v, r, c, index)
    BY <1>16, <1>18, <1>19, <1>20, <1>21, SameHost, Zenon DEF Lockstep, Running
  <1>23. NeverPanics(r)
    BY <1>11, <1>12 DEF NeverPanics, AluOf
  <1>24. AccessesAsserted(v, c)
    BY <1>10, <1>13 DEF AccessesAsserted, FloatEffects
  <1> QED
    BY <1>1, <1>2, <1>11, <1>22, <1>23, <1>24 DEF Verified, ExactReciprocal

\* CFROUND: the mode of the machine and of the host.
LEMMA RoundVerified ==
    ASSUME NEW v, Running(v), NEW raw \in RawInstr, NEW index, NEW usg, Opcode(raw) = "CFROUND"
    PROVE  Verified(v, ReferenceDecode(raw, index, usg).instr, CompactDecode(raw, index, usg).instr, index)
  <1>1. PICK r : r = ReferenceDecode(raw, index, usg).instr
    OBVIOUS
  <1>2. PICK c : c = CompactDecode(raw, index, usg).instr
    OBVIOUS
  <1>3. PICK s \in Reg : s = raw.src % MaxReg
    BY Registers
  <1>4. PICK n \in Nat : n = raw.imm % Bits
    BY Registers, HalfWord, Ranges, DivMod
  <1>5. c = New("cfround", "round", NoReg, s, n, 0)
    <2>1. CompactDecode(raw, index, usg).instr = New("cfround", "round", NoReg, raw.src % MaxReg, raw.imm % Bits, 0)
      BY FormDomains DEF CompactDecode, Opcode, ReferenceFloats
    <2> QED
      BY <1>2, <1>3, <1>4, <2>1, Zenon
  <1>6. r = Instr("CFROUND", None, Store("R", s), n, NoMode)
    <2>1. ReferenceDecode(raw, index, usg).instr = Instr("CFROUND", None, RReg(raw.src), raw.imm % Bits, NoMode)
      BY SameOpcode DEF ReferenceDecode, ReferenceFloats
    <2> QED
      BY <1>1, <1>3, <1>4, <2>1, Zenon DEF RReg
  <1>7. c.form = "cfround" /\ c.src = ByteOffset(s, WordBytes) /\ c.imm = n
    BY <1>5, NewFields
  <1>8. r.op = "CFROUND" /\ r.src = Store("R", s) /\ r.imm = n /\ r.reciprocal = 0
    BY <1>6, InstrFields
  <1>9. r.src.kind = "R" /\ r.src.i = s /\ r.imm # NoImm
    BY <1>8, StoreFields, Ranges DEF NoImm
  <1>10. v \in Machine /\ v.host = v.mode
    BY DEF Running
  <1>11. PICK m \in 0 .. 3 : m = RotateRight(v.r[s], n) % 4
    <2>1. RotateRight(v.r[s], n) \in Word
      BY <1>10, RegisterOperand, RotateRightWord
    <2> QED
      BY <2>1, WordInt
  <1> DEFINE x == [v EXCEPT !.mode = m, !.host = m]
  <1>12. ReferenceExec(v, r) = x
    <2>1. ReferenceExec(v, r) = SetRoundingMode(v, RotateRight(v.r[r.src.i], r.imm) % 4)
      BY <1>8 DEF ReferenceExec, ReferenceFloats
    <2> QED
      BY <1>8, <1>9, <1>11, <2>1, Zenon DEF SetRoundingMode
  <1>13. x \in Machine /\ x.host = m /\ x.mode = m /\ x.pc = v.pc
    BY <1>10 DEF Machine
  <1>14. PICK o : o = OnHost(v, m) /\ o \in Machine /\ o.r = v.r
    <2>1. OnHost(v, m) \in Machine /\ OnHost(v, m).r = v.r
      BY <1>10 DEF OnHost, Machine
    <2> QED
      BY <2>1, Zenon
  <1>15. R(o, c.src) = v.r[s] /\ RegisterOffset(c.src)
    BY <1>7, <1>14, RegisterOperand
  <1>16. CompactExec(o, c) = SetRoundingMode(o, m)
    <2>1. CompactExec(o, c) = SetRoundingMode(o, FroundMode(R(o, c.src), c.imm))
      BY <1>7 DEF CompactExec, FloatEffects
    <2> QED
      BY <1>7, <1>11, <1>15, <2>1, Zenon DEF FroundMode
  <1>17. SetRoundingMode(o, m) = x
    BY <1>10, <1>14 DEF SetRoundingMode, OnHost, Machine
  <1> HIDE DEF x
  <1>18. Lockstep(v, r, c, index)
    BY <1>12, <1>13, <1>14, <1>16, <1>17, Zenon DEF Lockstep, Running
  <1>19. NeverPanics(r)
    BY <1>8, <1>9 DEF NeverPanics, AluOf
  <1>20. AccessesAsserted(v, c)
    BY <1>7, <1>15 DEF AccessesAsserted, FloatEffects
  <1> QED
    BY <1>1, <1>2, <1>8, <1>18, <1>19, <1>20 DEF Verified, ExactReciprocal

\* ISTORE, at the level its condition selects.
LEMMA StoreVerified ==
    ASSUME NEW v, Running(v), NEW raw \in RawInstr, NEW index, NEW usg, Opcode(raw) = "ISTORE"
    PROVE  Verified(v, ReferenceDecode(raw, index, usg).instr, CompactDecode(raw, index, usg).instr, index)
  <1>1. PICK r : r = ReferenceDecode(raw, index, usg).instr
    OBVIOUS
  <1>2. PICK c : c = CompactDecode(raw, index, usg).instr
    OBVIOUS
  <1>3. PICK d \in Reg, s \in Reg : d = raw.dst % MaxReg /\ s = raw.src % MaxReg
    BY Registers
  <1>4. PICK imm \in Half : imm = raw.imm
    BY Registers
  <1>5. PICK mode \in Caches : mode = StoreMode(raw)
    BY DEF StoreMode, Caches
  <1>6. c = NewMemory("istore", "store", d, s, SignExtend(imm), mode)
    <2>1. CompactDecode(raw, index, usg).instr
            = NewMemory("istore", "store", raw.dst % MaxReg, raw.src % MaxReg, SignExtend(raw.imm), StoreMode(raw))
      BY FormDomains DEF CompactDecode, Opcode, ReferenceFloats
    <2> QED
      BY <1>2, <1>3, <1>4, <1>5, <2>1, Zenon
  <1>7. r = Instr("ISTORE", Store(mode, d), Store("R", s), SignedHalf(imm), NoMode)
    <2>1. ReferenceDecode(raw, index, usg).instr = Instr("ISTORE", LCache(raw.dst, raw), RReg(raw.src), SignedHalf(raw.imm), NoMode)
      BY SameOpcode DEF ReferenceDecode, ReferenceFloats
    <2>2. LCache(raw.dst, raw) = Store(mode, d)
      <3>1. raw.cond \in Int /\ StoreL3Condition \in Int
        BY Registers, Sizes
      <3>2. CASE raw.cond < StoreL3Condition
        BY <1>3, <1>5, <3>1, <3>2 DEF LCache, L12Cache, StoreMode
      <3>3. CASE raw.cond >= StoreL3Condition
        BY <1>3, <1>5, <3>1, <3>3 DEF LCache, StoreMode
      <3> QED
        BY <3>1, <3>2, <3>3
    <2> QED
      BY <1>1, <1>3, <1>4, <2>1, <2>2, Zenon DEF RReg
  <1>8. /\ c.form = "istore" /\ c.dst = ByteOffset(d, WordBytes) /\ c.src = ByteOffset(s, WordBytes)
        /\ c.imm = SignExtend(imm) /\ c.mask = MemoryMask(mode)
    BY <1>6, NewMemoryFields
  <1>9. r.op = "ISTORE" /\ r.dst = Store(mode, d) /\ r.src = Store("R", s) /\ r.imm = SignedHalf(imm) /\ r.reciprocal = 0
    BY <1>7, InstrFields
  <1>10. r.src.kind = "R" /\ r.src.i = s
    BY <1>9, StoreFields
  <1>11. v \in Machine
    BY DEF Running
  <1>12. StoresMatch(v, r, c)
    BY <1>8, <1>9, <1>11, IndirectStore
  <1>13. PICK k \in Scratch : k = DstOffset(v, c) \div WordBytes /\ DstIx(v, r) = k
    BY <1>12 DEF StoresMatch, InScratch
  <1>14. R(v, c.src) = v.r[s] /\ v.r[s] \in Word /\ RegisterOffset(c.src) /\ RegisterOffset(c.dst)
    BY <1>8, <1>11, RegisterOperand
  <1>15. CompactExec(v, c) = [v EXCEPT !.sp[k] = v.r[s]]
    <2>1. CompactExec(v, c) = [v EXCEPT !.sp[DstOffset(v, c) \div WordBytes] = R(v, c.src)]
      BY <1>8 DEF CompactExec, FloatEffects
    <2> QED
      BY <1>13, <1>14, <2>1, Zenon
  <1>16. ReferenceExec(v, r) = [v EXCEPT !.sp[k] = v.r[s]]
    <2>1. ReferenceExec(v, r) = [v EXCEPT !.sp[DstIx(v, r)] = v.r[r.src.i]]
      BY <1>9 DEF ReferenceExec, ReferenceFloats
    <2> QED
      BY <1>10, <1>13, <2>1, Zenon
  <1>17. Lockstep(v, r, c, index)
    BY <1>14, <1>15, <1>16, StoreEffect
  <1>18. NeverPanics(r)
    BY <1>9, <1>10, <1>12 DEF NeverPanics, AluOf, StoresMatch
  <1>19. AccessesAsserted(v, c)
    BY <1>8, <1>12, <1>14 DEF AccessesAsserted, FloatEffects, StoresMatch, InScratch
  <1> QED
    BY <1>1, <1>2, <1>9, <1>17, <1>18, <1>19 DEF Verified, ExactReciprocal

-----------------------------------------------------------------------------
(* Floating-point instructions.                                            *)

HostOps == {"add", "sub", "mul", "div", "sqrt"}

\* A floating-point register is two words.
LEMMA PairWords == \A x \in Pair : x[1] \in Word /\ x[2] \in Word
  BY DEF Pair

\* An operation of the host gives a word.
LEMMA HostLaneWord ==
    ASSUME NEW op \in HostOps, NEW x \in Word, NEW y \in Word, NEW mode \in 0 .. 3
    PROVE  HostLane(op, x, y, mode) \in Word
  <1>1. x \in Int /\ y \in Int /\ mode \in Int
    BY WordInt
  <1>2. WrappingMul(x, y) \in Int
    BY <1>1, Wrapping, WordInt
  <1>3. CASE op = "add"
    BY <1>1, <1>3, ModWord DEF HostLane
  <1>4. CASE op = "sub"
    BY <1>1, <1>4, ModWord DEF HostLane
  <1>5. CASE op = "mul"
    BY <1>1, <1>2, <1>5, ModWord DEF HostLane
  <1>6. CASE op = "div"
    BY <1>1, <1>6, ModWord DEF HostLane
  <1>7. CASE op = "sqrt"
    BY <1>1, <1>7, ModWord DEF HostLane
  <1> QED
    BY <1>3, <1>4, <1>5, <1>6, <1>7 DEF HostOps

\* On both lanes, a pair.
LEMMA HostFloatPair ==
    ASSUME NEW op \in HostOps, NEW x \in Pair, NEW y \in Pair, NEW mode \in 0 .. 3
    PROVE  HostFloat(op, x, y, mode) \in Pair
  <1>1. HostLane(op, x[1], y[1], mode) \in Word /\ HostLane(op, x[2], y[2], mode) \in Word
    BY PairWords, HostLaneWord
  <1> QED
    BY <1>1 DEF HostFloat, Pair

\* The host may swap the operands of an addition or a multiplication.
LEMMA HostCommutes ==
    ASSUME NEW op \in {"add", "mul"}, NEW x \in Pair, NEW y \in Pair, NEW mode \in 0 .. 3
    PROVE  HostFloat(op, x, y, mode) = HostFloat(op, y, x, mode)
  <1>1. ASSUME NEW p \in Word, NEW q \in Word
        PROVE  HostLane(op, p, q, mode) = HostLane(op, q, p, mode)
    <2>1. p \in Int /\ q \in Int /\ Signed(p) \in Int /\ Signed(q) \in Int
      BY WordInt, SignedInt
    <2>2. p + q = q + p /\ Signed(p) * Signed(q) = Signed(q) * Signed(p)
      BY <2>1
    <2>3. WrappingMul(p, q) = WrappingMul(q, p)
      BY <2>2, Zenon DEF WrappingMul
    <2>4. CASE op = "add"
      <3>1. p + q + mode = q + p + mode
        BY <2>1
      <3> QED
        BY <2>4, <3>1 DEF HostLane
    <2>5. CASE op = "mul"
      BY <2>3, <2>5 DEF HostLane
    <2> QED
      BY <2>4, <2>5
  <1>2. HostLane(op, x[1], y[1], mode) = HostLane(op, y[1], x[1], mode)
    BY <1>1, PairWords
  <1>3. HostLane(op, x[2], y[2], mode) = HostLane(op, y[2], x[2], mode)
    BY <1>1, PairWords
  <1> QED
    BY <1>2, <1>3, Zenon DEF HostFloat

\* The compact interpreter rounds as the host would in the mode of the machine.
LEMMA RoundedByHost ==
    ASSUME NEW v, Running(v), NEW op, NEW x, NEW y
    PROVE  Rounded(v, op, x, y) = HostFloat(op, x, y, v.host)
  BY DEF Rounded, SoftFloat, Running

\* A word converts to a pair.
LEMMA ToFloatPair ==
    ASSUME NEW w \in Word
    PROVE  ToFloat(w) \in Pair
  <1>1. w \in Nat /\ w < WordRange /\ HalfRange \in Nat /\ HalfRange > 0 /\ WordRange = HalfRange * HalfRange
    BY WordInt, Ranges
  <1>2. w % HalfRange \in Half
    BY <1>1, DivMod DEF Half
  <1>3. w \div HalfRange \in Half
    <2>1. w < HalfRange * HalfRange
      BY <1>1
    <2>2. w \div HalfRange \in Nat /\ w \div HalfRange < HalfRange
      BY <1>1, <2>1, DivBelow
    <2> QED
      BY <1>1, <2>2 DEF Half
  <1>4. SignExtend(w % HalfRange) \in Word /\ SignExtend(w \div HalfRange) \in Word
    BY <1>2, <1>3, SignExtendWord
  <1> QED
    BY <1>4 DEF ToFloat, Pair

\* Masking the exponents of a pair gives a pair.
LEMMA MaskPair ==
    ASSUME NEW v \in Machine, NEW x \in Pair
    PROVE  MaskExponent(v, x) \in Pair
  <1>1. v.e_mask \in Pair
    BY DEF Machine
  <1>2. PICK n \in Nat : n = DynamicExponent * MantissaRange /\ n > 0
    <2>1. Bits - 12 \in Nat
      BY Ranges
    <2> QED
      BY <2>1, Pow2Positive DEF DynamicExponent, MantissaRange
  <1>3. ASSUME NEW p \in Word, NEW q \in Word
        PROVE  (p % n) | q \in Word
    <2>1. p % n \in Int /\ q \in Int
      BY <1>2, WordInt, DivMod
    <2> QED
      BY <2>1, BitwiseWord
  <1>4. (x[1] % n) | v.e_mask[1] \in Word
    BY <1>1, <1>3, PairWords
  <1>5. (x[2] % n) | v.e_mask[2] \in Word
    BY <1>1, <1>3, PairWords
  <1>6. MaskExponent(v, x) = <<(x[1] % n) | v.e_mask[1], (x[2] % n) | v.e_mask[2]>>
    BY <1>2, Zenon DEF MaskExponent
  <1> QED
    BY <1>4, <1>5, <1>6 DEF Pair

\* The reference's own copy masks alike.
LEMMA SameMask == \A v, x : ReferenceMask(v, x) = MaskExponent(v, x)
  BY Zenon DEF ReferenceMask, MaskExponent

\* So does the exclusive or,
LEMMA XorPair ==
    ASSUME NEW x \in Pair, NEW y, y[1] \in Int, y[2] \in Int
    PROVE  FloatXor(x, y) \in Pair
  <1>1. x[1] \in Int /\ x[2] \in Int
    BY PairWords, WordInt
  <1>2. x[1] ^^ y[1] \in Word /\ x[2] ^^ y[2] \in Word
    BY <1>1, BitwiseWord
  <1> QED
    BY <1>2 DEF FloatXor, Pair

\* and swapping the lanes.
LEMMA ShufflePair ==
    ASSUME NEW x \in Pair
    PROVE  Shuffle1(x) \in Pair
  BY DEF Shuffle1, Pair

\* What the decoders make of a floating-point instruction.
LEMMA FloatDecoded ==
    ASSUME NEW raw, NEW index, NEW usg, Opcode(raw) \in ReferenceFloats
    PROVE  /\ CompactDecode(raw, index, usg).instr
                = CompactFloat(Opcode(raw), raw, raw.dst % MaxFloat, raw.src % MaxFloat)
           /\ ReferenceDecode(raw, index, usg).instr = ReferenceFloat(Opcode(raw), raw, SignedHalf(raw.imm))
  <1>1. Opcode(raw) # "CBRANCH" /\ Opcode(raw) # "CFROUND" /\ Opcode(raw) # "ISTORE" /\ Opcode(raw) \in FloatOpcodes
    BY FormDomains DEF ReferenceFloats
  <1>2. CompactDecode(raw, index, usg).instr = CompactFloat(Opcode(raw), raw, raw.dst % MaxFloat, raw.src % MaxFloat)
    BY <1>1 DEF CompactDecode, Opcode
  <1>3. ReferenceDecode(raw, index, usg).instr = ReferenceFloat(Opcode(raw), raw, SignedHalf(raw.imm))
    BY <1>1, SameOpcode DEF ReferenceDecode
  <1> QED
    BY <1>2, <1>3

\* The tables of floating-point forms.
LEMMA FloatFormDomains ==
    /\ DOMAIN FloatForms = {"FADD_R", "FSUB_R", "FMUL_R"}
    /\ DOMAIN FloatMemoryForms = {"FADD_M", "FSUB_M", "FDIV_M"}
    /\ FloatForms["FADD_R"] = "add" /\ FloatForms["FSUB_R"] = "sub" /\ FloatForms["FMUL_R"] = "mul"
    /\ FloatMemoryForms["FADD_M"] = "add" /\ FloatMemoryForms["FSUB_M"] = "sub" /\ FloatMemoryForms["FDIV_M"] = "div"
  BY DEF FloatForms, FloatMemoryForms

\* Writing a register of the group F, and of the group E.
LEMMA FExecuted ==
    ASSUME NEW v, Running(v), NEW r, NEW c, NEW index, NEW d \in FloatReg, NEW w \in Pair,
           r.op \in ReferenceFloats, r.dst = Store("F", d), r.reciprocal = 0,
           c.form \in FloatEffects, c.dst = ByteOffset(d, FloatBytes),
           ReferenceExecFloat(v, r) = WriteFloat(v, r.dst, w), CompactExecFloat(v, c) = SetF(v, c.dst, w)
    PROVE  Lockstep(v, r, c, index) /\ r.dst.kind = "F" /\ FloatOffset(c.dst) /\ ExactReciprocal(r)
  <1>1. r.dst.kind = "F" /\ r.dst.i = d
    BY StoreFields
  <1>2. c.dst \div FloatBytes = d /\ FloatOffset(c.dst)
    BY FloatBytesOffset DEF IsFloat
  <1>3. ReferenceExec(v, r) = [v EXCEPT !.f[d] = w]
    <2>1. ReferenceExec(v, r) = ReferenceExecFloat(v, r)
      BY DEF ReferenceExec, ReferenceFloats
    <2>2. WriteFloat(v, r.dst, w) = [v EXCEPT !.f[r.dst.i] = w]
      BY <1>1 DEF WriteFloat
    <2> QED
      BY <1>1, <2>1, <2>2, Zenon
  <1>4. CompactExec(v, c) = [v EXCEPT !.f[d] = w]
    <2>1. CompactExec(v, c) = CompactExecFloat(v, c)
      BY DEF CompactExec, FloatEffects
    <2> QED
      BY <1>2, <2>1, Zenon DEF SetF
  <1>5. Lockstep(v, r, c, index)
    BY <1>3, <1>4, FEffect
  <1> QED
    BY <1>1, <1>2, <1>5 DEF ExactReciprocal

\* The same for group E.
LEMMA EExecuted ==
    ASSUME NEW v, Running(v), NEW r, NEW c, NEW index, NEW d \in FloatReg, NEW w \in Pair,
           r.op \in ReferenceFloats, r.dst = Store("E", d), r.reciprocal = 0,
           c.form \in FloatEffects, c.dst = ByteOffset(d, FloatBytes),
           ReferenceExecFloat(v, r) = WriteFloat(v, r.dst, w), CompactExecFloat(v, c) = SetE(v, c.dst, w)
    PROVE  Lockstep(v, r, c, index) /\ r.dst.kind = "E" /\ FloatOffset(c.dst) /\ ExactReciprocal(r)
  <1>1. r.dst.kind = "E" /\ r.dst.i = d
    BY StoreFields
  <1>2. c.dst \div FloatBytes = d /\ FloatOffset(c.dst)
    BY FloatBytesOffset DEF IsFloat
  <1>3. ReferenceExec(v, r) = [v EXCEPT !.e[d] = w]
    <2>1. ReferenceExec(v, r) = ReferenceExecFloat(v, r)
      BY DEF ReferenceExec, ReferenceFloats
    <2>2. WriteFloat(v, r.dst, w) = [v EXCEPT !.e[r.dst.i] = w]
      BY <1>1 DEF WriteFloat
    <2> QED
      BY <1>1, <2>1, <2>2, Zenon
  <1>4. CompactExec(v, c) = [v EXCEPT !.e[d] = w]
    <2>1. CompactExec(v, c) = CompactExecFloat(v, c)
      BY DEF CompactExec, FloatEffects
    <2> QED
      BY <1>2, <2>1, Zenon DEF SetE
  <1>5. Lockstep(v, r, c, index)
    BY <1>3, <1>4, EEffect
  <1> QED
    BY <1>1, <1>2, <1>5 DEF ExactReciprocal

\* What the two read.
LEMMA FloatOperands ==
    ASSUME NEW v, v \in Machine, NEW d \in FloatReg
    PROVE  /\ v.f[d] \in Pair /\ v.e[d] \in Pair /\ v.a[d] \in Pair
           /\ ReadFloat(v, Store("F", d)) = v.f[d] /\ ReadFloat(v, Store("E", d)) = v.e[d]
           /\ ByteOffset(d, FloatBytes) \div FloatBytes = d
  <1>1. v.f[d] \in Pair /\ v.e[d] \in Pair /\ v.a[d] \in Pair
    BY DEF Machine
  <1>2. ReadFloat(v, Store("F", d)) = v.f[d] /\ ReadFloat(v, Store("E", d)) = v.e[d]
    BY DEF ReadFloat, Store
  <1> QED
    BY <1>1, <1>2, FloatBytesOffset DEF IsFloat

\* The fields of both kinds of floating-point instruction.
LEMMA NewInstrFields ==
    ASSUME NEW op, NEW dst, NEW src, NEW imm, src # dst
    PROVE  LET i == NewInstr(op, dst, src, imm)
           IN  i.op = op /\ i.dst = dst /\ i.src = src /\ i.reciprocal = 0
  BY DEF NewInstr, Instr

\* The registers of a floating-point instruction.
LEMMA FloatRegisters ==
    ASSUME NEW raw \in RawInstr
    PROVE  \E d \in FloatReg, s \in FloatReg :
              /\ d = raw.dst % MaxFloat /\ s = raw.src % MaxFloat
              /\ FReg(raw.dst) = Store("F", d) /\ EReg(raw.dst) = Store("E", d) /\ AReg(raw.src) = Store("A", s)
              /\ Store("F", d) # None /\ Store("E", d) # None
              /\ Store("A", s) # Store("F", d) /\ Store("A", s) # Store("E", d)
  <1>1. PICK d \in FloatReg, s \in FloatReg : d = raw.dst % MaxFloat /\ s = raw.src % MaxFloat
    BY Registers
  <1>2. FReg(raw.dst) = Store("F", d) /\ EReg(raw.dst) = Store("E", d) /\ AReg(raw.src) = Store("A", s)
    BY <1>1 DEF FReg, EReg, AReg
  <1>3. /\ Store("F", d) # None /\ Store("E", d) # None
        /\ Store("A", s) # Store("F", d) /\ Store("A", s) # Store("E", d)
    BY DEF Store, None
  <1> QED
    BY <1>1, <1>2, <1>3

\* FSWAP_R, on groups F and E.
LEMMA FSwapVerified ==
    ASSUME NEW v, Running(v), NEW raw \in RawInstr, NEW index, NEW usg, Opcode(raw) = "FSWAP_R"
    PROVE  Verified(v, ReferenceDecode(raw, index, usg).instr, CompactDecode(raw, index, usg).instr, index)
  <1>1. PICK r : r = ReferenceDecode(raw, index, usg).instr
    OBVIOUS
  <1>2. PICK c : c = CompactDecode(raw, index, usg).instr
    OBVIOUS
  <1>3. PICK d \in FloatReg :
              /\ d = raw.dst % MaxFloat
              /\ FReg(raw.dst) = Store("F", d) /\ EReg(raw.dst) = Store("E", d)
              /\ Store("F", d) # None /\ Store("E", d) # None
    BY FloatRegisters
  <1>4. v \in Machine
    BY DEF Running
  <1>5. c = CompactFloat("FSWAP_R", raw, d, raw.src % MaxFloat)
    BY <1>2, <1>3, FloatDecoded DEF ReferenceFloats
  <1>6. r = ReferenceFloat("FSWAP_R", raw, SignedHalf(raw.imm))
    BY <1>1, FloatDecoded DEF ReferenceFloats
  <1>7. v.f[d] \in Pair /\ v.e[d] \in Pair /\ ReadFloat(v, Store("F", d)) = v.f[d] /\ ReadFloat(v, Store("E", d)) = v.e[d]
    BY <1>4, FloatOperands
  <1>8. CASE raw.dst % MaxReg >= MaxFloat
    <2>1. c = NewFloat("fswap_e", "swap", d, NoReg)
      BY <1>5, <1>8, FloatFormDomains DEF CompactFloat
    <2>2. r = NewInstr("FSWAP_R", Store("E", d), None, SignedHalf(raw.imm))
      BY <1>3, <1>6, <1>8 DEF ReferenceFloat
    <2>3. c.form = "fswap_e" /\ c.dst = ByteOffset(d, FloatBytes)
      BY <2>1, NewFloatFields
    <2>4. r.op = "FSWAP_R" /\ r.dst = Store("E", d) /\ r.reciprocal = 0
      BY <1>3, <2>2, NewInstrFields
    <2>5. PICK w \in Pair : w = Shuffle1(v.e[d])
      BY <1>7, ShufflePair
    <2>6. ReferenceExecFloat(v, r) = WriteFloat(v, r.dst, w)
      <3>1. ReferenceExecFloat(v, r) = WriteFloat(v, r.dst, Shuffle1(ReadFloat(v, r.dst)))
        BY <2>4 DEF ReferenceExecFloat
      <3> QED
        BY <1>7, <2>4, <2>5, <3>1, Zenon
    <2>7. CompactExecFloat(v, c) = SetE(v, c.dst, w)
      <3>1. CompactExecFloat(v, c) = SetE(v, c.dst, Shuffle1(v.e[c.dst \div FloatBytes]))
        BY <2>3 DEF CompactExecFloat
      <3> QED
        BY <1>4, <2>3, <2>5, <3>1, FloatOperands, Zenon
    <2>8. Lockstep(v, r, c, index) /\ r.dst.kind = "E" /\ FloatOffset(c.dst) /\ ExactReciprocal(r)
      BY <2>3, <2>4, <2>6, <2>7, EExecuted DEF ReferenceFloats, FloatEffects
    <2>9. NeverPanics(r)
      BY <2>4, <2>8 DEF NeverPanics, AluOf
    <2>10. AccessesAsserted(v, c)
      BY <2>3, <2>8 DEF AccessesAsserted, FloatEffects
    <2> QED
      BY <1>1, <1>2, <2>8, <2>9, <2>10 DEF Verified
  <1>9. CASE ~(raw.dst % MaxReg >= MaxFloat)
    <2>1. c = NewFloat("fswap_f", "swap", d, NoReg)
      BY <1>5, <1>9, FloatFormDomains DEF CompactFloat
    <2>2. r = NewInstr("FSWAP_R", Store("F", d), None, SignedHalf(raw.imm))
      BY <1>3, <1>6, <1>9 DEF ReferenceFloat
    <2>3. c.form = "fswap_f" /\ c.dst = ByteOffset(d, FloatBytes)
      BY <2>1, NewFloatFields
    <2>4. r.op = "FSWAP_R" /\ r.dst = Store("F", d) /\ r.reciprocal = 0
      BY <1>3, <2>2, NewInstrFields
    <2>5. PICK w \in Pair : w = Shuffle1(v.f[d])
      BY <1>7, ShufflePair
    <2>6. ReferenceExecFloat(v, r) = WriteFloat(v, r.dst, w)
      <3>1. ReferenceExecFloat(v, r) = WriteFloat(v, r.dst, Shuffle1(ReadFloat(v, r.dst)))
        BY <2>4 DEF ReferenceExecFloat
      <3> QED
        BY <1>7, <2>4, <2>5, <3>1, Zenon
    <2>7. CompactExecFloat(v, c) = SetF(v, c.dst, w)
      <3>1. CompactExecFloat(v, c) = SetF(v, c.dst, Shuffle1(v.f[c.dst \div FloatBytes]))
        BY <2>3 DEF CompactExecFloat
      <3> QED
        BY <1>4, <2>3, <2>5, <3>1, FloatOperands, Zenon
    <2>8. Lockstep(v, r, c, index) /\ r.dst.kind = "F" /\ FloatOffset(c.dst) /\ ExactReciprocal(r)
      BY <2>3, <2>4, <2>6, <2>7, FExecuted DEF ReferenceFloats, FloatEffects
    <2>9. NeverPanics(r)
      BY <2>4, <2>8 DEF NeverPanics, AluOf
    <2>10. AccessesAsserted(v, c)
      BY <2>3, <2>8 DEF AccessesAsserted, FloatEffects
    <2> QED
      BY <1>1, <1>2, <2>8, <2>9, <2>10 DEF Verified
  <1> QED
    BY <1>8, <1>9

\* FSCAL_R.
LEMMA FScalVerified ==
    ASSUME NEW v, Running(v), NEW raw \in RawInstr, NEW index, NEW usg, Opcode(raw) = "FSCAL_R"
    PROVE  Verified(v, ReferenceDecode(raw, index, usg).instr, CompactDecode(raw, index, usg).instr, index)
  <1>1. PICK r : r = ReferenceDecode(raw, index, usg).instr
    OBVIOUS
  <1>2. PICK c : c = CompactDecode(raw, index, usg).instr
    OBVIOUS
  <1>3. PICK d \in FloatReg : d = raw.dst % MaxFloat /\ FReg(raw.dst) = Store("F", d) /\ Store("F", d) # None
    BY FloatRegisters
  <1>4. v \in Machine
    BY DEF Running
  <1>5. v.f[d] \in Pair /\ ReadFloat(v, Store("F", d)) = v.f[d] /\ ByteOffset(d, FloatBytes) \div FloatBytes = d
    BY <1>4, FloatOperands
  <1>6. c = NewFloat("fscal_r", "scal", d, NoReg)
    <2>1. c = CompactFloat("FSCAL_R", raw, d, raw.src % MaxFloat)
      BY <1>2, <1>3, FloatDecoded DEF ReferenceFloats
    <2> QED
      BY <2>1, FloatFormDomains DEF CompactFloat
  <1>7. r = NewInstr("FSCAL_R", Store("F", d), None, SignedHalf(raw.imm))
    <2>1. r = ReferenceFloat("FSCAL_R", raw, SignedHalf(raw.imm))
      BY <1>1, FloatDecoded DEF ReferenceFloats
    <2> QED
      BY <1>3, <2>1 DEF ReferenceFloat
  <1>8. c.form = "fscal_r" /\ c.dst = ByteOffset(d, FloatBytes)
    BY <1>6, NewFloatFields
  <1>9. r.op = "FSCAL_R" /\ r.dst = Store("F", d) /\ r.reciprocal = 0
    BY <1>3, <1>7, NewInstrFields
  <1>10. PICK m \in Int : m = ScaleMask
    <2>1. Bits - 16 \in Nat
      BY Ranges
    <2>2. Pow2[Bits - 16] \in Nat
      BY <2>1, Pow2Positive
    <2> QED
      BY <2>2 DEF ScaleMask
  <1>11. PICK w \in Pair : w = FloatXor(v.f[d], <<m, m>>)
    BY <1>5, XorPair
  <1>12. ReferenceExecFloat(v, r) = WriteFloat(v, r.dst, w)
    <2>1. ReferenceExecFloat(v, r)
            = WriteFloat(v, r.dst, FloatXor(ReadFloat(v, r.dst), <<33008 * Pow2[Bits - 16], 33008 * Pow2[Bits - 16]>>))
      BY <1>9 DEF ReferenceExecFloat
    <2>2. 33008 * Pow2[Bits - 16] = m
      BY <1>10 DEF ScaleMask
    <2>3. ReferenceExecFloat(v, r) = WriteFloat(v, r.dst, FloatXor(ReadFloat(v, r.dst), <<m, m>>))
      BY <2>1, <2>2
    <2> QED
      BY <1>5, <1>9, <1>11, <2>3, Zenon
  <1>13. CompactExecFloat(v, c) = SetF(v, c.dst, w)
    <2>1. CompactExecFloat(v, c) = SetF(v, c.dst, FloatXor(v.f[c.dst \div FloatBytes], <<ScaleMask, ScaleMask>>))
      BY <1>8 DEF CompactExecFloat
    <2> QED
      BY <1>5, <1>8, <1>10, <1>11, <2>1, Zenon
  <1>14. Lockstep(v, r, c, index) /\ r.dst.kind = "F" /\ FloatOffset(c.dst) /\ ExactReciprocal(r)
    BY <1>8, <1>9, <1>12, <1>13, FExecuted DEF ReferenceFloats, FloatEffects
  <1>15. NeverPanics(r)
    BY <1>9, <1>14 DEF NeverPanics, AluOf
  <1>16. AccessesAsserted(v, c)
    BY <1>8, <1>14 DEF AccessesAsserted, FloatEffects
  <1> QED
    BY <1>1, <1>2, <1>14, <1>15, <1>16 DEF Verified

\* FSQRT_R.
LEMMA FSqrtVerified ==
    ASSUME NEW v, Running(v), NEW raw \in RawInstr, NEW index, NEW usg, Opcode(raw) = "FSQRT_R"
    PROVE  Verified(v, ReferenceDecode(raw, index, usg).instr, CompactDecode(raw, index, usg).instr, index)
  <1>1. PICK r : r = ReferenceDecode(raw, index, usg).instr
    OBVIOUS
  <1>2. PICK c : c = CompactDecode(raw, index, usg).instr
    OBVIOUS
  <1>3. PICK d \in FloatReg : d = raw.dst % MaxFloat /\ EReg(raw.dst) = Store("E", d) /\ Store("E", d) # None
    BY FloatRegisters
  <1>4. v \in Machine /\ v.host \in 0 .. 3
    BY DEF Running, Machine
  <1>5. v.e[d] \in Pair /\ ReadFloat(v, Store("E", d)) = v.e[d] /\ ByteOffset(d, FloatBytes) \div FloatBytes = d
    BY <1>4, FloatOperands
  <1>6. c = NewFloat("fsqrt_r", "sqrt", d, NoReg)
    <2>1. c = CompactFloat("FSQRT_R", raw, d, raw.src % MaxFloat)
      BY <1>2, <1>3, FloatDecoded DEF ReferenceFloats
    <2> QED
      BY <2>1, FloatFormDomains DEF CompactFloat
  <1>7. r = NewInstr("FSQRT_R", Store("E", d), None, SignedHalf(raw.imm))
    <2>1. r = ReferenceFloat("FSQRT_R", raw, SignedHalf(raw.imm))
      BY <1>1, FloatDecoded DEF ReferenceFloats
    <2> QED
      BY <1>3, <2>1 DEF ReferenceFloat
  <1>8. c.form = "fsqrt_r" /\ c.dst = ByteOffset(d, FloatBytes)
    BY <1>6, NewFloatFields
  <1>9. r.op = "FSQRT_R" /\ r.dst = Store("E", d) /\ r.reciprocal = 0
    BY <1>3, <1>7, NewInstrFields
  <1>10. <<0, 0>> \in Pair
    BY Ranges DEF Pair, Word
  <1>11. PICK w \in Pair : w = HostFloat("sqrt", v.e[d], <<0, 0>>, v.host)
    BY <1>4, <1>5, <1>10, HostFloatPair DEF HostOps
  <1>12. ReferenceExecFloat(v, r) = WriteFloat(v, r.dst, w)
    <2>1. ReferenceExecFloat(v, r) = WriteFloat(v, r.dst, HostFloat("sqrt", ReadFloat(v, r.dst), <<0, 0>>, v.host))
      BY <1>9 DEF ReferenceExecFloat
    <2> QED
      BY <1>5, <1>9, <1>11, <2>1, Zenon
  <1>13. CompactExecFloat(v, c) = SetE(v, c.dst, w)
    <2>1. CompactExecFloat(v, c) = SetE(v, c.dst, Rounded(v, "sqrt", v.e[c.dst \div FloatBytes], <<0, 0>>))
      BY <1>8 DEF CompactExecFloat
    <2>2. Rounded(v, "sqrt", v.e[d], <<0, 0>>) = w
      BY <1>11, RoundedByHost
    <2> QED
      BY <1>5, <1>8, <2>1, <2>2, Zenon
  <1>14. Lockstep(v, r, c, index) /\ r.dst.kind = "E" /\ FloatOffset(c.dst) /\ ExactReciprocal(r)
    BY <1>8, <1>9, <1>12, <1>13, EExecuted DEF ReferenceFloats, FloatEffects
  <1>15. NeverPanics(r)
    BY <1>9, <1>14 DEF NeverPanics, AluOf
  <1>16. AccessesAsserted(v, c)
    BY <1>8, <1>14 DEF AccessesAsserted, FloatEffects
  <1> QED
    BY <1>1, <1>2, <1>14, <1>15, <1>16 DEF Verified

\* Operations on a register of the group A.
LEMMA FArithmetic ==
    ASSUME NEW v, Running(v), NEW raw \in RawInstr, NEW index, NEW usg, Opcode(raw) \in {"FADD_R", "FSUB_R", "FMUL_R"}
    PROVE  Verified(v, ReferenceDecode(raw, index, usg).instr, CompactDecode(raw, index, usg).instr, index)
  <1>1. PICK r : r = ReferenceDecode(raw, index, usg).instr
    OBVIOUS
  <1>2. PICK c : c = CompactDecode(raw, index, usg).instr
    OBVIOUS
  <1>3. PICK d \in FloatReg, s \in FloatReg :
              /\ d = raw.dst % MaxFloat /\ s = raw.src % MaxFloat
              /\ FReg(raw.dst) = Store("F", d) /\ EReg(raw.dst) = Store("E", d) /\ AReg(raw.src) = Store("A", s)
              /\ Store("A", s) # Store("F", d) /\ Store("A", s) # Store("E", d)
    BY FloatRegisters
  <1>4. v \in Machine /\ v.host \in 0 .. 3
    BY DEF Running, Machine
  <1>5. /\ v.f[d] \in Pair /\ v.e[d] \in Pair /\ v.a[s] \in Pair
        /\ ReadFloat(v, Store("F", d)) = v.f[d] /\ ReadFloat(v, Store("E", d)) = v.e[d]
        /\ ByteOffset(d, FloatBytes) \div FloatBytes = d /\ ByteOffset(s, FloatBytes) \div FloatBytes = s
    BY <1>4, FloatOperands
  <1>6. PICK op \in {"FADD_R", "FSUB_R", "FMUL_R"} : op = Opcode(raw)
    OBVIOUS
  <1>7. c = NewFloat("f", FloatForms[op], d, s)
    <2>1. c = CompactFloat(op, raw, d, s)
      BY <1>2, <1>3, <1>6, FloatDecoded DEF ReferenceFloats
    <2> QED
      BY <2>1, FloatFormDomains DEF CompactFloat
  <1>8. c.form = "f" /\ c.op = FloatForms[op] /\ c.dst = ByteOffset(d, FloatBytes) /\ c.src = ByteOffset(s, FloatBytes)
    BY <1>7, NewFloatFields
  <1>9. r = ReferenceFloat(op, raw, SignedHalf(raw.imm))
    BY <1>1, <1>6, FloatDecoded DEF ReferenceFloats
  <1>10. FloatOffset(c.src)
    BY <1>8, FloatBytesOffset DEF IsFloat
  <1>11. CASE op \in {"FADD_R", "FSUB_R"}
    <2>1. r = NewInstr(op, Store("F", d), Store("A", s), SignedHalf(raw.imm))
      BY <1>3, <1>9, <1>11 DEF ReferenceFloat
    <2>2. r.op = op /\ r.dst = Store("F", d) /\ r.src = Store("A", s) /\ r.reciprocal = 0
      BY <1>3, <2>1, NewInstrFields
    <2>3. r.src.kind = "A" /\ r.src.i = s
      BY <2>2, StoreFields
    <2>4. PICK o \in HostOps : o = FloatForms[op] /\ o = IF op = "FADD_R" THEN "add" ELSE "sub"
      BY <1>11, FloatFormDomains DEF HostOps
    <2>5. PICK w \in Pair : w = HostFloat(o, v.f[d], v.a[s], v.host)
      BY <1>4, <1>5, HostFloatPair
    <2>6. ReferenceExecFloat(v, r) = WriteFloat(v, r.dst, w)
      <3>1. CASE op = "FADD_R"
        <4>1. ReferenceExecFloat(v, r) = WriteFloat(v, r.dst, HostFloat("add", v.a[r.src.i], ReadFloat(v, r.dst), v.host))
          BY <2>2, <3>1 DEF ReferenceExecFloat
        <4>2. HostFloat("add", v.a[s], v.f[d], v.host) = w
          BY <1>4, <1>5, <2>4, <2>5, <3>1, HostCommutes
        <4> QED
          BY <1>5, <2>2, <2>3, <4>1, <4>2, Zenon
      <3>2. CASE op = "FSUB_R"
        <4>1. ReferenceExecFloat(v, r) = WriteFloat(v, r.dst, HostFloat("sub", ReadFloat(v, r.dst), v.a[r.src.i], v.host))
          BY <2>2, <3>2 DEF ReferenceExecFloat
        <4>2. HostFloat("sub", v.f[d], v.a[s], v.host) = w
          BY <2>4, <2>5, <3>2
        <4> QED
          BY <1>5, <2>2, <2>3, <4>1, <4>2, Zenon
      <3> QED
        BY <1>11, <3>1, <3>2
    <2>7. CompactExecFloat(v, c) = SetF(v, c.dst, w)
      <3>1. CompactExecFloat(v, c) = SetF(v, c.dst, Rounded(v, c.op, v.f[c.dst \div FloatBytes], v.a[c.src \div FloatBytes]))
        BY <1>8, <2>4 DEF CompactExecFloat
      <3>2. Rounded(v, o, v.f[d], v.a[s]) = w
        BY <2>5, RoundedByHost
      <3> QED
        BY <1>5, <1>8, <2>4, <3>1, <3>2, Zenon
    <2>8. Lockstep(v, r, c, index) /\ r.dst.kind = "F" /\ FloatOffset(c.dst) /\ ExactReciprocal(r)
      BY <1>8, <2>2, <2>6, <2>7, FExecuted DEF ReferenceFloats, FloatEffects
    <2>9. NeverPanics(r)
      BY <1>11, <2>2, <2>3, <2>8 DEF NeverPanics, AluOf
    <2>10. AccessesAsserted(v, c)
      BY <1>8, <1>10, <2>8 DEF AccessesAsserted, FloatEffects
    <2> QED
      BY <1>1, <1>2, <2>8, <2>9, <2>10 DEF Verified
  <1>12. CASE op = "FMUL_R"
    <2>1. r = NewInstr("FMUL_R", Store("E", d), Store("A", s), SignedHalf(raw.imm))
      BY <1>3, <1>9, <1>12 DEF ReferenceFloat
    <2>2. r.op = "FMUL_R" /\ r.dst = Store("E", d) /\ r.src = Store("A", s) /\ r.reciprocal = 0
      BY <1>3, <2>1, NewInstrFields
    <2>3. r.src.kind = "A" /\ r.src.i = s
      BY <2>2, StoreFields
    <2>4. c.op = "mul"
      BY <1>8, <1>12, FloatFormDomains
    <2>5. PICK w \in Pair : w = HostFloat("mul", v.e[d], v.a[s], v.host)
      BY <1>4, <1>5, HostFloatPair DEF HostOps
    <2>6. ReferenceExecFloat(v, r) = WriteFloat(v, r.dst, w)
      <3>1. ReferenceExecFloat(v, r) = WriteFloat(v, r.dst, HostFloat("mul", v.a[r.src.i], ReadFloat(v, r.dst), v.host))
        BY <2>2 DEF ReferenceExecFloat
      <3>2. HostFloat("mul", v.a[s], v.e[d], v.host) = w
        BY <1>4, <1>5, <2>5, HostCommutes
      <3> QED
        BY <1>5, <2>2, <2>3, <3>1, <3>2, Zenon
    <2>7. CompactExecFloat(v, c) = SetE(v, c.dst, w)
      <3>1. CompactExecFloat(v, c) = SetE(v, c.dst, Rounded(v, "mul", v.e[c.dst \div FloatBytes], v.a[c.src \div FloatBytes]))
        BY <1>8, <2>4 DEF CompactExecFloat
      <3>2. Rounded(v, "mul", v.e[d], v.a[s]) = w
        BY <2>5, RoundedByHost
      <3> QED
        BY <1>5, <1>8, <3>1, <3>2, Zenon
    <2>8. Lockstep(v, r, c, index) /\ r.dst.kind = "E" /\ FloatOffset(c.dst) /\ ExactReciprocal(r)
      BY <1>8, <2>2, <2>6, <2>7, EExecuted DEF ReferenceFloats, FloatEffects
    <2>9. NeverPanics(r)
      BY <2>2, <2>3, <2>8 DEF NeverPanics, AluOf
    <2>10. AccessesAsserted(v, c)
      BY <1>8, <1>10, <2>8 DEF AccessesAsserted, FloatEffects
    <2> QED
      BY <1>1, <1>2, <2>8, <2>9, <2>10 DEF Verified
  <1> QED
    BY <1>11, <1>12

\* Operations on a word of the scratchpad.
LEMMA FMemory ==
    ASSUME NEW v, Running(v), NEW raw \in RawInstr, NEW index, NEW usg, Opcode(raw) \in {"FADD_M", "FSUB_M", "FDIV_M"}
    PROVE  Verified(v, ReferenceDecode(raw, index, usg).instr, CompactDecode(raw, index, usg).instr, index)
  <1>1. PICK r : r = ReferenceDecode(raw, index, usg).instr
    OBVIOUS
  <1>2. PICK c : c = CompactDecode(raw, index, usg).instr
    OBVIOUS
  <1>3. PICK d \in FloatReg, fs \in FloatReg :
              /\ d = raw.dst % MaxFloat /\ fs = raw.src % MaxFloat
              /\ FReg(raw.dst) = Store("F", d) /\ EReg(raw.dst) = Store("E", d)
    BY FloatRegisters
  <1>4. PICK s \in Reg : s = raw.src % MaxReg
    BY Registers
  <1>5. PICK imm \in Half : imm = raw.imm
    BY Registers
  <1>6. PICK mode \in Caches : mode = IF raw.mem = 0 THEN "L2" ELSE "L1"
    BY DEF Caches
  <1>7. v \in Machine /\ v.host \in 0 .. 3
    BY DEF Running, Machine
  <1>8. /\ v.f[d] \in Pair /\ v.e[d] \in Pair
        /\ ReadFloat(v, Store("F", d)) = v.f[d] /\ ReadFloat(v, Store("E", d)) = v.e[d]
        /\ ByteOffset(d, FloatBytes) \div FloatBytes = d
    BY <1>7, FloatOperands
  <1>9. PICK op \in {"FADD_M", "FSUB_M", "FDIV_M"} : op = Opcode(raw)
    OBVIOUS
  <1>10. c = [NewMemory("fm", FloatMemoryForms[op], d, s, SignExtend(imm), mode) EXCEPT !.dst = ByteOffset(d, FloatBytes)]
    <2>1. c = CompactFloat(op, raw, d, fs)
      BY <1>2, <1>3, <1>9, FloatDecoded DEF ReferenceFloats
    <2>2. c = DecodeFloatMemory(FloatMemoryForms[op], d, s, raw)
      BY <1>4, <2>1, FloatFormDomains DEF CompactFloat
    <2> QED
      BY <1>5, <1>6, <2>2 DEF DecodeFloatMemory, DecodeMemory
  <1>11. /\ c.form = "fm" /\ c.op = FloatMemoryForms[op] /\ c.dst = ByteOffset(d, FloatBytes) /\ c.src = ByteOffset(s, WordBytes)
         /\ c.imm = SignExtend(imm) /\ c.mask = MemoryMask(mode)
    BY <1>10 DEF NewMemory, New
  <1>12. PICK dst : dst = (IF op = "FDIV_M" THEN Store("E", d) ELSE Store("F", d))
    OBVIOUS
  <1>13. r = Instr(op, dst, Store(mode, s), SignedHalf(imm), NoMode)
    <2>1. r = ReferenceFloat(op, raw, SignedHalf(raw.imm))
      BY <1>1, <1>9, FloatDecoded DEF ReferenceFloats
    <2>2. r = NewLcacheInstr(op, dst, raw)
      BY <1>3, <1>12, <2>1 DEF ReferenceFloat
    <2>3. RReg(raw.src) # dst
      BY <1>12 DEF RReg, Store
    <2>4. L12Cache(raw.src, raw) = Store(mode, s)
      BY <1>4, <1>6 DEF L12Cache
    <2> QED
      BY <1>5, <2>2, <2>3, <2>4 DEF NewLcacheInstr
  <1>14. r.op = op /\ r.dst = dst /\ r.src = Store(mode, s) /\ r.imm = SignedHalf(imm) /\ r.reciprocal = 0
    BY <1>13, InstrFields
  <1>15. LoadsMatch(v, r, c)
    BY <1>7, <1>11, <1>14, IndirectLoad
  <1>16. PICK k \in Scratch : k = SrcOffset(v, c) \div WordBytes /\ SrcIx(v, r) = k
    BY <1>15 DEF LoadsMatch, InScratch
  <1>17. PICK m \in Pair : m = ToFloat(v.sp[k])
    <2>1. v.sp[k] \in Word
      BY <1>7 DEF Machine
    <2> QED
      BY <2>1, ToFloatPair
  <1>18. m = ToFloat(ScratchAt(v, SrcOffset(v, c))) /\ m = ToFloat(v.sp[SrcIx(v, r)])
    BY <1>16, <1>17, Zenon DEF ScratchAt
  <1>19. CASE op \in {"FADD_M", "FSUB_M"}
    <2>1. PICK o \in HostOps : o = FloatMemoryForms[op] /\ o = IF op = "FADD_M" THEN "add" ELSE "sub"
      BY <1>19, FloatFormDomains DEF HostOps
    <2>2. r.dst = Store("F", d)
      BY <1>12, <1>14, <1>19
    <2>3. PICK w \in Pair : w = HostFloat(o, v.f[d], m, v.host)
      BY <1>7, <1>8, HostFloatPair
    <2>4. ReferenceExecFloat(v, r) = WriteFloat(v, r.dst, w)
      <3>1. ReferenceExecFloat(v, r) = WriteFloat(v, r.dst, HostFloat(o, ReadFloat(v, r.dst), ToFloat(v.sp[SrcIx(v, r)]), v.host))
        BY <1>14, <1>19, <2>1 DEF ReferenceExecFloat
      <3> QED
        BY <1>8, <1>18, <2>2, <2>3, <3>1, Zenon
    <2>5. CompactExecFloat(v, c) = SetF(v, c.dst, w)
      <3>1. CompactExecFloat(v, c)
              = SetF(v, c.dst, Rounded(v, c.op, v.f[c.dst \div FloatBytes], ToFloat(ScratchAt(v, SrcOffset(v, c)))))
        BY <1>11, <2>1 DEF CompactExecFloat
      <3>2. Rounded(v, o, v.f[d], m) = w
        BY <2>3, RoundedByHost
      <3> QED
        BY <1>8, <1>11, <1>18, <2>1, <3>1, <3>2, Zenon
    <2>6. Lockstep(v, r, c, index) /\ r.dst.kind = "F" /\ FloatOffset(c.dst) /\ ExactReciprocal(r)
      BY <1>11, <1>14, <2>2, <2>4, <2>5, FExecuted DEF ReferenceFloats, FloatEffects
    <2>7. NeverPanics(r)
      BY <1>14, <1>15, <1>19, <2>6 DEF NeverPanics, AluOf, LoadsMatch
    <2>8. AccessesAsserted(v, c)
      BY <1>11, <1>15, <2>6 DEF AccessesAsserted, FloatEffects, LoadsMatch, InScratch
    <2> QED
      BY <1>1, <1>2, <2>6, <2>7, <2>8 DEF Verified
  <1>20. CASE op = "FDIV_M"
    <2>1. c.op = "div"
      BY <1>11, <1>20, FloatFormDomains
    <2>2. r.dst = Store("E", d)
      BY <1>12, <1>14, <1>20
    <2>3. PICK n \in Pair : n = MaskExponent(v, m)
      BY <1>7, MaskPair
    <2>4. PICK w \in Pair : w = HostFloat("div", v.e[d], n, v.host)
      BY <1>7, <1>8, HostFloatPair DEF HostOps
    <2>5. ReferenceExecFloat(v, r) = WriteFloat(v, r.dst, w)
      <3>1. ReferenceExecFloat(v, r)
              = WriteFloat(v, r.dst, HostFloat("div", ReadFloat(v, r.dst), ReferenceMask(v, ToFloat(v.sp[SrcIx(v, r)])), v.host))
        BY <1>14, <1>20 DEF ReferenceExecFloat
      <3>2. ReferenceMask(v, ToFloat(v.sp[SrcIx(v, r)])) = MaskExponent(v, ToFloat(v.sp[SrcIx(v, r)]))
        BY SameMask, Zenon
      <3> QED
        BY <1>8, <1>18, <2>2, <2>3, <2>4, <3>1, <3>2, Zenon
    <2>6. CompactExecFloat(v, c) = SetE(v, c.dst, w)
      <3>1. CompactExecFloat(v, c)
              = SetE(v, c.dst, Rounded(v, "div", v.e[c.dst \div FloatBytes],
                                       MaskExponent(v, ToFloat(ScratchAt(v, SrcOffset(v, c))))))
        BY <1>11, <2>1 DEF CompactExecFloat
      <3>2. Rounded(v, "div", v.e[d], n) = w
        BY <2>4, RoundedByHost
      <3> QED
        BY <1>8, <1>11, <1>18, <2>3, <3>1, <3>2, Zenon
    <2>7. Lockstep(v, r, c, index) /\ r.dst.kind = "E" /\ FloatOffset(c.dst) /\ ExactReciprocal(r)
      BY <1>11, <1>14, <1>20, <2>2, <2>5, <2>6, EExecuted DEF ReferenceFloats, FloatEffects
    <2>8. NeverPanics(r)
      BY <1>14, <1>15, <1>20, <2>7 DEF NeverPanics, AluOf, LoadsMatch
    <2>9. AccessesAsserted(v, c)
      BY <1>11, <1>15, <2>7 DEF AccessesAsserted, FloatEffects, LoadsMatch, InScratch
    <2> QED
      BY <1>1, <1>2, <2>7, <2>8, <2>9 DEF Verified
  <1> QED
    BY <1>19, <1>20

-----------------------------------------------------------------------------
(* Reciprocals.                                                            *)

\* k has n binary digits.
Wide(k, n) == n \in Nat /\ k < Pow2[n] /\ (n > 0 => Pow2[n - 1] <= k)

\* A number has one length in bits.
LEMMA WideUnique ==
    ASSUME NEW k \in Nat, NEW m, NEW n, Wide(k, m), Wide(k, n)
    PROVE  m = n
  <1>1. ASSUME NEW i \in Nat, NEW j \in Nat, Wide(k, i), Wide(k, j), i < j
        PROVE  FALSE
    <2>1. j - 1 \in Nat /\ i <= j - 1 /\ j > 0
      BY <1>1
    <2>2. Pow2[i] \in Nat /\ Pow2[j - 1] \in Nat /\ Pow2[i] <= Pow2[j - 1]
      BY <2>1, Pow2Grows, Pow2Positive
    <2>3. k < Pow2[i] /\ Pow2[j - 1] <= k
      BY <1>1, <2>1 DEF Wide
    <2> QED
      BY <2>2, <2>3
  <1>2. m \in Nat /\ n \in Nat
    BY DEF Wide
  <1>3. ~(m < n) /\ ~(n < m)
    BY <1>1, <1>2
  <1> QED
    BY <1>2, <1>3

\* The digits of half of k, and of k.
LEMMA WideHalf ==
    ASSUME NEW k \in Nat, k > 0, NEW n \in Nat
    PROVE  Wide(k, n + 1) <=> Wide(k \div 2, n)
  <1>1. PICK h \in Nat : h = k \div 2 /\ 2 * h <= k /\ k <= 2 * h + 1
    BY DivNat, SMT
  <1>2. PICK p \in Nat : p = Pow2[n] /\ Pow2[n + 1] = 2 * p /\ p >= 1
    BY Pow2Doubles, Pow2Positive
  <1>3. (k < 2 * p) <=> (h < p)
    BY <1>1
  <1>4. n + 1 \in Nat /\ n + 1 > 0 /\ (n + 1) - 1 = n
    OBVIOUS
  <1>5. CASE n = 0
    <2>1. p = 1
      BY <1>2, <1>5, Pow2Doubles
    <2> QED
      BY <1>1, <1>2, <1>3, <1>4, <1>5, <2>1 DEF Wide
  <1>6. CASE n > 0
    <2>1. n - 1 \in Nat /\ (n - 1) + 1 = n
      BY <1>6
    <2>2. PICK o \in Nat : o = Pow2[n - 1] /\ p = 2 * o
      BY <1>2, <2>1, Pow2Doubles, Pow2Positive
    <2>3. (2 * o <= k) <=> (o <= h)
      BY <1>1
    <2> QED
      BY <1>1, <1>2, <1>3, <1>4, <1>6, <2>2, <2>3 DEF Wide
  <1> QED
    BY <1>5, <1>6

\* Every number has one.
LEMMA WideExists ==
    ASSUME NEW k \in Half
    PROVE  \E n \in Nat : Wide(k, n)
  <1>1. k \in Nat /\ k < Pow2[HalfBits] /\ HalfBits \in Nat
    BY HalfWord, Ranges DEF HalfRange
  <1> DEFINE S == {n \in Nat : k < Pow2[n]}
  <1>2. S \in SUBSET Nat /\ S # {}
    BY <1>1
  <1>3. PICK n \in S : \A m \in S : n <= m
    <2> HIDE DEF S
    <2> QED
      BY <1>2, LeastNat
  <1>4. n > 0 => Pow2[n - 1] <= k
    <2>1. SUFFICES ASSUME n > 0 PROVE Pow2[n - 1] <= k
      OBVIOUS
    <2>2. n - 1 \in Nat /\ ~(n <= n - 1)
      BY <2>1
    <2>3. n - 1 \notin S
      BY <1>3, <2>2
    <2>4. Pow2[n - 1] \in Nat
      BY <2>2, Pow2Positive
    <2> QED
      BY <1>1, <2>2, <2>3, <2>4
  <1> QED
    BY <1>3, <1>4 DEF Wide

\* The function that BitLength applies.
Width == LET width[k \in Half] == IF k = 0 THEN 0 ELSE 1 + width[k \div 2] IN width

\* Halving an immediate ends at zero.
LEMMA HalfDown == \A k \in Half : k \in Nat /\ (k # 0 => k > 0 /\ k \div 2 \in Half /\ k \div 2 < k)
  <1>1. \A k \in Half : k \in Nat /\ k < HalfRange
    BY HalfWord
  <1>2. HalfRange \in Nat
    BY Ranges
  <1> QED
    BY <1>1, <1>2, SMT DEF Half

\* Zero has no bits.
LEMMA ZeroWide == Wide(0, 0)
  BY Pow2Doubles DEF Wide

\* The loop that counts bits has a result, so its unfolding holds.
LEMMA WidthExists == Width = [k \in Half |-> IF k = 0 THEN 0 ELSE 1 + Width[k \div 2]]
  <1> DEFINE W == [k \in Half |-> CHOOSE n \in Nat : Wide(k, n)]
  <1>1. ASSUME NEW k \in Half PROVE W[k] \in Nat /\ Wide(k, W[k])
    <2>1. W[k] = CHOOSE n \in Nat : Wide(k, n)
      OBVIOUS
    <2>2. \E n \in Nat : Wide(k, n)
      BY WideExists
    <2> QED
      BY <2>1, <2>2, Zenon
  <1>2. ASSUME NEW k \in Half PROVE W[k] = IF k = 0 THEN 0 ELSE 1 + W[k \div 2]
    <2> HIDE DEF W
    <2>1. k \in Nat
      BY HalfDown
    <2>2. CASE k = 0
      <3>1. Wide(k, W[k]) /\ Wide(k, 0)
        BY <1>1, <2>2, ZeroWide
      <3>2. W[k] = 0
        BY <2>1, <3>1, WideUnique
      <3> QED
        BY <2>2, <3>2
    <2>3. CASE k # 0
      <3>1. k > 0 /\ k \div 2 \in Half
        BY <2>3, HalfDown
      <3>2. PICK m \in Nat : m = W[k \div 2] /\ Wide(k \div 2, m)
        BY <1>1, <3>1
      <3>3. Wide(k, m + 1)
        BY <2>1, <3>1, <3>2, WideHalf
      <3>4. W[k] = m + 1
        BY <1>1, <2>1, <3>3, WideUnique
      <3> QED
        BY <2>3, <3>2, <3>4
    <2> QED
      BY <2>2, <2>3
  <1>3. W = [k \in Half |-> IF k = 0 THEN 0 ELSE 1 + W[k \div 2]]
    <2>1. W = [k \in Half |-> W[k]]
      OBVIOUS
    <2> HIDE DEF W
    <2> QED
      BY <1>2, <2>1
  <1> HIDE DEF W
  <1> QED
    BY <1>3, Zenon DEF Width

\* The loop counts the digits of its operand.
LEMMA BitLengthWide ==
    ASSUME NEW n \in Half
    PROVE  BitLength(n) \in Nat /\ Wide(n, BitLength(n)) /\ BitLength(n) <= HalfBits
  <1> DEFINE Right(k) == Width[k] \in Nat /\ Wide(k, Width[k])
             S == {k \in Half : ~Right(k)}
  <1>1. S = {}
    <2>1. SUFFICES ASSUME S # {} PROVE FALSE
      OBVIOUS
    <2>2. S \in SUBSET Nat
      BY HalfDown
    <2>3. PICK k \in S : \A j \in S : k <= j
      <3> HIDE DEF S
      <3> QED
        BY <2>1, <2>2, LeastNat
    <2>4. k \in Half /\ k \in Nat
      BY HalfDown
    <2>5. Width[k] = IF k = 0 THEN 0 ELSE 1 + Width[k \div 2]
      BY <2>4, WidthExists
    <2>6. CASE k = 0
      BY <2>5, <2>6, ZeroWide
    <2>7. CASE k # 0
      <3>1. k > 0 /\ k \div 2 \in Half /\ k \div 2 \in Nat /\ k \div 2 < k
        BY <2>4, <2>7, HalfDown
      <3>2. ~(k <= k \div 2)
        BY <2>4, <3>1
      <3>3. k \div 2 \notin S
        BY <2>3, <3>2
      <3>4. PICK m \in Nat : m = Width[k \div 2] /\ Wide(k \div 2, m)
        BY <3>1, <3>3
      <3>5. Wide(k, m + 1)
        BY <2>4, <3>1, <3>4, WideHalf
      <3>6. Width[k] = m + 1
        BY <2>5, <2>7, <3>4
      <3> QED
        BY <3>5, <3>6
    <2> QED
      BY <2>6, <2>7
  <1>2. BitLength(n) = Width[n]
    BY DEF BitLength, Width
  <1>3. PICK m \in Nat : m = Width[n] /\ Wide(n, m)
    BY <1>1
  <1>4. m <= HalfBits
    <2>1. SUFFICES ASSUME m > HalfBits PROVE FALSE
      BY Ranges
    <2>2. HalfBits \in Nat /\ m - 1 \in Nat /\ HalfBits <= m - 1 /\ m > 0
      BY <2>1, Ranges
    <2>3. Pow2[HalfBits] <= Pow2[m - 1] /\ Pow2[HalfBits] \in Nat /\ Pow2[m - 1] \in Nat
      BY <2>2, Pow2Grows, Pow2Positive
    <2>4. Pow2[m - 1] <= n
      BY <1>3, <2>2 DEF Wide
    <2>5. n \in Nat /\ n < Pow2[HalfBits]
      BY HalfWord DEF HalfRange
    <2> QED
      BY <2>3, <2>4, <2>5
  <1> QED
    BY <1>2, <1>3, <1>4

\* Zero has no bit in common with anything.
LEMMA AndLowZero ==
    ASSUME NEW n \in 0 .. Bits
    PROVE  \A q \in Int : AndLow(n, 0, q) = 0
  <1> DEFINE P == {k \in 0 .. Bits : \A q \in Int : AndLow(k, 0, q) = 0}
  <1>0. Bits \in Nat /\ 0 \in Int
    BY Ranges
  <1>1. 0 \in P
    BY <1>0, AndSteps
  <1>2. ASSUME NEW k \in 1 .. Bits, k - 1 \in P PROVE k \in P
    <2>1. ASSUME NEW q \in Int PROVE AndLow(k, 0, q) = 0
      <3>1. PICK q0 \in 0 .. 1, h \in Int : q0 = q % 2 /\ h = q \div 2
        OBVIOUS
      <3>2. 0 % 2 = 0 /\ 0 \div 2 = 0
        OBVIOUS
      <3>3. AndLow(k, 0, q) = ((0 % 2) * (q % 2)) + 2 * AndLow(k - 1, 0 \div 2, q \div 2)
        BY <1>0, AndSteps
      <3>4. AndLow(k, 0, q) = (0 * q0) + 2 * AndLow(k - 1, 0, h)
        BY <3>1, <3>2, <3>3, Zenon
      <3>5. AndLow(k - 1, 0, h) = 0
        BY <1>2
      <3> QED
        BY <3>4, <3>5
    <2> QED
      BY <1>0, <2>1
  <1> HIDE DEF P
  <1>3. \A k \in 0 .. Bits : k \in P
    BY <1>0, <1>1, <1>2, Upward
  <1> QED
    BY <1>3 DEF P

\* A divisor that is_zero_or_power_of_2 refuses is neither.
LEMMA NotPower ==
    ASSUME NEW d \in Half, ~is_zero_or_power_of_2(d)
    PROVE  d # 0 /\ \A n \in Nat : d # Pow2[n]
  <1>0. d \in Nat /\ d < HalfRange /\ WordRange \in Nat /\ WordRange >= HalfRange /\ Bits \in 0 .. Bits /\ HalfRange \in Nat
    BY HalfWord, Ranges
  <1>1. d # 0
    <2>1. SUFFICES ASSUME d = 0 PROVE FALSE
      OBVIOUS
    <2>2. PICK y \in Int : y = WrappingSub(d, 1)
      BY <1>0, Wrapping, WordInt
    <2>3. 0 & y = 0
      <3>1. AndLow(Bits, 0, y) = 0
        BY <1>0, AndLowZero
      <3>2. 0 & y = AndLow(Bits, 0, y)
        BY AndIsLow
      <3> QED
        BY <3>1, <3>2
    <2> QED
      BY <2>1, <2>2, <2>3 DEF is_zero_or_power_of_2
  <1>2. ASSUME NEW n \in Nat, d = Pow2[n] PROVE FALSE
    <2>1. WrappingSub(d, 1) = d - 1
      <3>1. d - 1 \in Nat /\ d - 1 < WordRange
        BY <1>0, <1>1
      <3>2. (d - 1) % WordRange = d - 1
        BY <1>0, <3>1
      <3> QED
        BY <3>2 DEF WrappingSub
    <2>2. d \in Int /\ d - 1 \in Int
      BY <1>0
    <2>3. d & (d - 1) = AndLow(Bits, d, d - 1)
      BY <2>2, AndIsLow
    <2>4. AndLow(Bits, d, d - 1) = 0
      BY <1>0, <1>2, AndLowPower
    <2> QED
      BY <2>1, <2>3, <2>4 DEF is_zero_or_power_of_2
  <1> QED
    BY <1>1, <1>2

\* The states of the division by d, and a step of it.
Remainders(d) == [q : Word, r : 0 .. d - 1]
Doubled(d, s) ==
    IF s.r >= d - s.r
    THEN [q |-> WrappingAdd(WrappingMul(s.q, 2), 1), r |-> 2 * s.r - d]
    ELSE [q |-> WrappingMul(s.q, 2), r |-> 2 * s.r]
FirstState(d) == [q |-> (WordRange \div 2) \div d, r |-> (WordRange \div 2) % d]

Division(divisor) ==
    LET step[k \in 0 .. Bits] ==
            IF k = 0
            THEN [q |-> (WordRange \div 2) \div divisor,
                  r |-> (WordRange \div 2) % divisor]
            ELSE LET s == step[k - 1]
                 IN  IF s.r >= divisor - s.r
                     THEN [q |-> WrappingAdd(WrappingMul(s.q, 2), 1),
                           r |-> 2 * s.r - divisor]
                     ELSE [q |-> WrappingMul(s.q, 2), r |-> 2 * s.r]
    IN  step

\* A step of the doubling loop keeps a word and a remainder.
LEMMA DoubledState ==
    ASSUME NEW d \in Nat, NEW s \in Remainders(d)
    PROVE  Doubled(d, s) \in Remainders(d)
  <1>1. s.q \in Int /\ s.r \in Int /\ s.r >= 0 /\ s.r < d
    BY WordInt DEF Remainders
  <1>2. 2 \in Int /\ 1 \in Int
    OBVIOUS
  <1>3. PICK w \in Word : w = WrappingMul(s.q, 2)
    BY <1>1, <1>2, Wrapping
  <1>4. WrappingAdd(w, 1) \in Word
    BY <1>2, WordInt, Wrapping
  <1>5. CASE s.r >= d - s.r
    <2>1. 2 * s.r - d \in 0 .. d - 1
      BY <1>1, <1>5
    <2> QED
      BY <1>3, <1>4, <1>5, <2>1 DEF Doubled, Remainders
  <1>6. CASE ~(s.r >= d - s.r)
    <2>1. 2 * s.r \in 0 .. d - 1
      BY <1>1, <1>6
    <2> QED
      BY <1>3, <1>6, <2>1 DEF Doubled, Remainders
  <1> QED
    BY <1>5, <1>6

\* Half the range of a word is a power of two.
LEMMA HalfWordRange ==
    \E h \in Nat : h = WordRange \div 2 /\ h = Pow2[Bits - 1] /\ WordRange = 2 * h /\ h > 2
  <1>1. Bits \in Nat /\ Bits - 1 \in Nat /\ (Bits - 1) + 1 = Bits
    BY Ranges
  <1>2. PICK h \in Nat : h = Pow2[Bits - 1] /\ Pow2[Bits] = 2 * h
    <2>1. Pow2[(Bits - 1) + 1] = 2 * Pow2[Bits - 1] /\ Pow2[Bits - 1] \in Nat
      BY <1>1, Pow2Doubles, Pow2Positive
    <2> QED
      BY <1>1, <2>1
  <1>3. WordRange = 2 * h /\ WordRange >= 16
    BY <1>2, Ranges DEF WordRange
  <1>4. WordRange \div 2 = h /\ h > 2
    BY <1>3
  <1> QED
    BY <1>2, <1>3, <1>4

\* The loop starts from a word and a remainder.
LEMMA FirstStateIn ==
    ASSUME NEW d \in Nat, d > 0
    PROVE  FirstState(d) \in Remainders(d)
  <1>1. PICK h \in Nat : h = WordRange \div 2 /\ WordRange = 2 * h /\ h > 2
    BY HalfWordRange
  <1>2. PICK q \in Nat : q = h \div d /\ h % d \in 0 .. d - 1 /\ h = d * q + (h % d)
    BY DivNat, DivMod
  <1>3. q <= h
    <2>1. d * q <= h
      BY <1>2
    <2>2. q <= d * q
      OBVIOUS
    <2> QED
      BY <2>1, <2>2
  <1>4. q \in Word
    BY <1>1, <1>3 DEF Word
  <1> QED
    BY <1>1, <1>2, <1>4 DEF FirstState, Remainders

\* The doubling loop has a result, so its unfolding holds.
LEMMA DivisionExists ==
    ASSUME NEW d \in Nat, d > 0
    PROVE  /\ Division(d)[0] = FirstState(d)
           /\ \A k \in 1 .. Bits : Division(d)[k] = Doubled(d, Division(d)[k - 1])
           /\ \A k \in 0 .. Bits : Division(d)[k] \in Remainders(d)
  <1> DEFINE S == Remainders(d)
             step == [j \in 1 .. Bits |-> [s \in S |-> Doubled(d, s)]]
             F(g) == [k \in 0 .. Bits |-> IF k = 0 THEN FirstState(d) ELSE Doubled(d, g[k - 1])]
  <1>0. Bits \in Nat
    BY Ranges
  <1>1. step \in [1 .. Bits -> [S -> S]]
    <2> HIDE DEF S
    <2> QED
      BY DoubledState DEF S
  <1>2. PICK f : Iterates(f, Bits, S, FirstState(d), step)
    <2> HIDE DEF step, S
    <2>1. FirstState(d) \in S
      BY FirstStateIn DEF S
    <2> QED
      BY <1>0, <1>1, <2>1, Iterated, Zenon
  <1>3. f \in [0 .. Bits -> S] /\ f[0] = FirstState(d) /\ \A j \in 1 .. Bits : f[j] = step[j][f[j - 1]]
    <2> HIDE DEF step, S
    <2> QED
      BY <1>2 DEF Iterates
  <1>4. f = F(f)
    <2>1. ASSUME NEW k \in 0 .. Bits PROVE f[k] = IF k = 0 THEN FirstState(d) ELSE Doubled(d, f[k - 1])
      <3>1. CASE k = 0
        BY <1>3, <3>1
      <3>2. CASE k # 0
        <4>1. k \in 1 .. Bits /\ k - 1 \in 0 .. Bits
          BY <1>0, <3>2
        <4>2. f[k - 1] \in S
          BY <1>3, <4>1
        <4>3. f[k] = step[k][f[k - 1]]
          <5> HIDE DEF step
          <5> QED
            BY <1>3, <4>1
        <4> HIDE DEF S
        <4> QED
          BY <3>2, <4>1, <4>2, <4>3
      <3> QED
        BY <3>1, <3>2
    <2>2. f = [k \in 0 .. Bits |-> f[k]]
      BY <1>3
    <2> QED
      BY <2>1, <2>2, Zenon
  <1>5. Division(d) = CHOOSE g : g = F(g)
    BY Zenon DEF Division, FirstState, Doubled
  <1> HIDE DEF F
  <1>6. Division(d) = F(Division(d))
    BY <1>4, <1>5, Zenon
  <1> DEFINE g == Division(d)
  <1> HIDE DEF g
  <1>7. g = [k \in 0 .. Bits |-> IF k = 0 THEN FirstState(d) ELSE Doubled(d, g[k - 1])]
    BY <1>6 DEF F, g
  <1>8. g[0] = FirstState(d) /\ \A k \in 1 .. Bits : g[k] = Doubled(d, g[k - 1])
    BY <1>0, <1>7
  <1>9. \A k \in 0 .. Bits : g[k] \in S
    <2> DEFINE P == {k \in 0 .. Bits : g[k] \in S}
    <2>1. 0 \in P
      BY <1>0, <1>8, FirstStateIn
    <2>2. ASSUME NEW k \in 1 .. Bits, k - 1 \in P PROVE k \in P
      <3>1. g[k - 1] \in S /\ g[k] = Doubled(d, g[k - 1])
        BY <1>8, <2>2
      <3>2. g[k] \in S
        BY <3>1, DoubledState
      <3> QED
        BY <1>0, <3>2
    <2> HIDE DEF P
    <2>3. \A k \in 0 .. Bits : k \in P
      BY <1>0, <2>1, <2>2, Upward
    <2> QED
      BY <2>3 DEF P
  <1> QED
    BY <1>8, <1>9 DEF g

\* A quotient of at most a * e by more than a is below e.
LEMMA QuotientBelow ==
    ASSUME NEW d \in Nat, NEW q \in Nat, NEW a \in Nat, NEW e \in Nat, d * q <= a * e, d > a, e >= 1
    PROVE  q < e
  <1>1. SUFFICES ASSUME q >= e PROVE FALSE
    OBVIOUS
  <1>2. d * q >= d * e
    BY <1>1
  <1>3. d * e >= (a + 1) * e
    OBVIOUS
  <1>4. (a + 1) * e = a * e + e
    OBVIOUS
  <1>5. PICK x \in Nat, y \in Nat, z \in Nat : x = d * q /\ y = d * e /\ z = a * e
    OBVIOUS
  <1> QED
    BY <1>2, <1>3, <1>4, <1>5

\* Below half a word, doubling does not wrap.
LEMMA DoublesExactly ==
    ASSUME NEW q \in Nat, NEW h \in Nat, h = WordRange \div 2, q < h
    PROVE  WrappingMul(q, 2) = 2 * q /\ WrappingAdd(2 * q, 1) = 2 * q + 1
  <1>1. WordRange = 2 * h /\ h > 2 /\ WordRange \in Nat
    BY HalfWordRange
  <1>2. Signed(q) = q /\ Signed(2) = 2
    BY <1>1 DEF Signed
  <1>3. 2 * q \in Nat /\ 2 * q + 1 < WordRange
    BY <1>1
  <1>4. (2 * q) % WordRange = 2 * q /\ (2 * q + 1) % WordRange = 2 * q + 1
    BY <1>1, <1>3
  <1>5. q * 2 = 2 * q
    OBVIOUS
  <1> QED
    BY <1>2, <1>4, <1>5 DEF WrappingMul, WrappingAdd

\* A step doubles what the quotient and the remainder stand for.
LEMMA DoubledExact ==
    ASSUME NEW d \in Nat, NEW s \in Remainders(d), NEW h \in Nat, h = WordRange \div 2, s.q < h
    PROVE  d * Doubled(d, s).q + Doubled(d, s).r = 2 * (d * s.q + s.r)
  <1>1. PICK q \in Nat, r \in Nat : q = s.q /\ r = s.r /\ r < d
    BY WordInt DEF Remainders
  <1>2. WrappingMul(q, 2) = 2 * q /\ WrappingAdd(2 * q, 1) = 2 * q + 1
    BY <1>1, DoublesExactly
  <1>3. CASE r >= d - r
    <2>1. Doubled(d, s).q = 2 * q + 1 /\ Doubled(d, s).r = 2 * r - d
      BY <1>1, <1>2, <1>3 DEF Doubled
    <2>2. d * (2 * q + 1) + (2 * r - d) = 2 * (d * q + r)
      OBVIOUS
    <2> QED
      BY <1>1, <2>1, <2>2
  <1>4. CASE ~(r >= d - r)
    <2>1. Doubled(d, s).q = 2 * q /\ Doubled(d, s).r = 2 * r
      BY <1>1, <1>2, <1>4 DEF Doubled
    <2>2. d * (2 * q) + 2 * r = 2 * (d * q + r)
      OBVIOUS
    <2> QED
      BY <1>1, <2>1, <2>2
  <1> QED
    BY <1>3, <1>4

\* The division of 2^(Bits - 1 + k) by d after k steps, of the n that d has digits.
Stands(d, k) ==
    d * Division(d)[k].q + Division(d)[k].r = Pow2[(Bits - 1) + k]

\* After k steps the quotient is below 2^(Bits + k - n), n being the length of the divisor.
LEMMA StandsBelow ==
    ASSUME NEW d \in Nat, NEW n \in Nat, n > 0, n <= HalfBits, d > Pow2[n - 1], NEW k \in 0 .. n, Stands(d, k)
    PROVE  Division(d)[k].q < Pow2[(Bits + k) - n]
  <1>1. Bits \in Nat /\ HalfBits \in Nat /\ Bits = 2 * HalfBits /\ Bits >= 16
    BY Ranges DEF Bits
  <1>2. PICK e \in Nat, m \in Nat : e = (Bits + k) - n /\ m = n - 1 /\ m + e = (Bits - 1) + k
    BY <1>1
  <1>3. PICK a \in Nat, b \in Nat : a = Pow2[m] /\ b = Pow2[e] /\ b >= 1 /\ a * b = Pow2[(Bits - 1) + k]
    <2>1. Pow2[m] \in Nat /\ Pow2[e] \in Nat /\ Pow2[e] >= 1
      BY Pow2Positive
    <2>2. Pow2[m] * Pow2[e] = Pow2[m + e]
      BY Pow2Adds
    <2>3. Pow2[m] * Pow2[e] = Pow2[(Bits - 1) + k]
      BY <1>2, <2>2
    <2> QED
      BY <2>1, <2>3, Zenon
  <1>4. d > 0 /\ d > a
    BY <1>2, <1>3
  <1>5. k \in 0 .. Bits
    BY <1>1
  <1>6. PICK q \in Nat, r \in Nat : q = Division(d)[k].q /\ r = Division(d)[k].r
    <2>1. Division(d)[k] \in Remainders(d)
      BY <1>4, <1>5, DivisionExists
    <2> QED
      BY <2>1, WordInt DEF Remainders
  <1>7. d * q + r = a * b
    BY <1>3, <1>6 DEF Stands
  <1>8. d * q <= a * b
    <2>1. PICK x \in Nat : x = d * q
      OBVIOUS
    <2> QED
      BY <1>7, <2>1
  <1>9. q < b
    BY <1>3, <1>4, <1>8, QuotientBelow
  <1> QED
    BY <1>2, <1>3, <1>6, <1>9

\* After k steps the loop holds the quotient and remainder of 2^(Bits - 1 + k).
LEMMA StandsAlways ==
    ASSUME NEW d \in Nat, NEW n \in Nat, n > 0, n <= HalfBits, d > Pow2[n - 1]
    PROVE  \A k \in 0 .. n : Stands(d, k)
  <1>0. Bits \in Nat /\ HalfBits \in Nat /\ Bits = 2 * HalfBits /\ Bits >= 16
    BY Ranges DEF Bits
  <1>1. PICK h \in Nat : h = WordRange \div 2 /\ h = Pow2[Bits - 1]
    BY HalfWordRange
  <1>2. d > 0
    <2>1. n - 1 \in Nat
      OBVIOUS
    <2>2. Pow2[n - 1] \in Nat
      BY <2>1, Pow2Positive
    <2> QED
      BY <2>2
  <1> DEFINE P == {k \in 0 .. n : Stands(d, k)}
  <1>3. 0 \in P
    <2>1. Division(d)[0].q = h \div d /\ Division(d)[0].r = h % d
      <3>1. Division(d)[0] = FirstState(d)
        BY <1>2, DivisionExists
      <3>2. FirstState(d) = [q |-> h \div d, r |-> h % d]
        BY <1>1, Zenon DEF FirstState
      <3> QED
        BY <3>1, <3>2
    <2>2. h = d * (h \div d) + (h % d)
      BY <1>2, DivMod
    <2>3. (Bits - 1) + 0 = Bits - 1
      BY <1>0
    <2> QED
      BY <1>1, <2>1, <2>2, <2>3 DEF Stands
  <1>4. ASSUME NEW k \in 1 .. n, k - 1 \in P PROVE k \in P
    <2>1. k - 1 \in 0 .. n /\ k \in 0 .. n /\ k \in 1 .. Bits /\ k - 1 \in 0 .. Bits
      BY <1>0
    <2>2. Stands(d, k - 1)
      BY <1>4
    <2>3. PICK j \in 0 .. n : j = k - 1 /\ Stands(d, j) /\ j \in 0 .. Bits
      BY <2>1, <2>2
    <2>4. PICK s \in Remainders(d) : s = Division(d)[j]
      BY <1>2, <2>3, DivisionExists
    <2>5. s.q < h
      <3>1. s.q < Pow2[(Bits + j) - n]
        BY <2>3, <2>4, StandsBelow
      <3>2. (Bits + j) - n \in Nat /\ Bits - 1 \in Nat /\ (Bits + j) - n <= Bits - 1
        BY <1>0, <2>3
      <3>3. Pow2[(Bits + j) - n] <= h /\ Pow2[(Bits + j) - n] \in Nat
        BY <1>1, <3>2, Pow2Grows, Pow2Positive
      <3>4. s.q \in Nat
        BY WordInt DEF Remainders
      <3> QED
        BY <3>1, <3>3, <3>4
    <2>6. Division(d)[k] = Doubled(d, s)
      BY <1>2, <2>1, <2>3, <2>4, DivisionExists
    <2>7. d * Doubled(d, s).q + Doubled(d, s).r = 2 * (d * s.q + s.r)
      BY <1>1, <2>5, DoubledExact
    <2>8. d * s.q + s.r = Pow2[(Bits - 1) + j]
      BY <2>3, <2>4 DEF Stands
    <2>9. PICK i \in Nat : i = (Bits - 1) + j /\ i + 1 = (Bits - 1) + k
      BY <1>0, <2>3
    <2>10. Pow2[(Bits - 1) + k] = 2 * Pow2[(Bits - 1) + j]
      BY <2>9, Pow2Doubles
    <2>11. Stands(d, k)
      BY <2>6, <2>7, <2>8, <2>10 DEF Stands
    <2> QED
      BY <2>1, <2>11
  <1> HIDE DEF P
  <1>5. \A k \in 0 .. n : k \in P
    BY <1>3, <1>4, Upward
  <1> QED
    BY <1>5 DEF P

\* What randomx_reciprocal computes.
LEMMA ReciprocalIs ==
    ASSUME NEW d \in Half, ~is_zero_or_power_of_2(d)
    PROVE  /\ Reciprocal(d) \in WordRange \div 2 .. WordRange - 1
           /\ \E x \in Bits .. Bits + HalfBits : Reciprocal(d) = Pow2[x] \div d
  <1>0. d \in Nat /\ d # 0 /\ d > 0
    BY NotPower, HalfWord
  <1>1. PICK n \in Nat : n = BitLength(d) /\ Wide(d, n) /\ n <= HalfBits
    BY BitLengthWide
  <1>2. n > 0
    <2>1. n # 0
      BY <1>0, <1>1, Pow2Doubles DEF Wide
    <2> QED
      BY <2>1
  <1>3. n - 1 \in Nat /\ Pow2[n - 1] \in Nat /\ d > Pow2[n - 1]
    <2>1. n - 1 \in Nat
      BY <1>2
    <2>2. Pow2[n - 1] \in Nat /\ Pow2[n - 1] <= d /\ d # Pow2[n - 1]
      BY <1>1, <1>2, <2>1, NotPower, Pow2Positive DEF Wide
    <2> QED
      BY <1>0, <2>1, <2>2
  <1>4. Stands(d, n)
    BY <1>0, <1>1, <1>2, <1>3, StandsAlways
  <1>5. Bits \in Nat /\ HalfBits \in Nat /\ Bits = 2 * HalfBits /\ n \in 0 .. Bits /\ Bits >= 16
    BY <1>1, Ranges DEF Bits
  <1>6. PICK q \in Nat, r \in 0 .. d - 1 : q = Division(d)[n].q /\ r = Division(d)[n].r /\ q < WordRange
    <2>1. Division(d)[n] \in Remainders(d)
      BY <1>0, <1>5, DivisionExists
    <2> QED
      BY <2>1, WordInt DEF Remainders
  <1>7. Reciprocal(d) = q
    <2>1. Reciprocal(d) = Division(d)[BitLength(d)].q
      BY Zenon DEF Reciprocal, Division
    <2> QED
      BY <1>1, <1>6, <2>1
  <1>8. PICK x \in Nat : x = (Bits - 1) + n
    BY <1>5
  <1>9. PICK p \in Nat : p = Pow2[x] /\ p = d * q + r
    BY <1>4, <1>6, <1>8, Pow2Positive DEF Stands
  <1>10. p \div d = q
    BY <1>0, <1>9, DivModUnique
  <1>11. x \in Bits .. Bits + HalfBits
    BY <1>1, <1>2, <1>5, <1>8
  <1>12. PICK h \in Nat : h = WordRange \div 2 /\ h = Pow2[Bits - 1] /\ WordRange = 2 * h
    BY HalfWordRange
  <1>13. q >= h
    <2>1. SUFFICES ASSUME q <= h - 1 PROVE FALSE
      BY <1>6, <1>12
    <2>2. d * q <= d * (h - 1)
      BY <1>0, <1>12, <2>1
    <2>3. d * (h - 1) = d * h - d
      BY <1>0, <1>12
    <2>4. PICK y \in Nat : y = Pow2[n] /\ d < y
      BY <1>1, Pow2Positive DEF Wide
    <2>5. p = h * y
      <3>1. Bits - 1 \in Nat
        BY <1>5
      <3>2. Pow2[Bits - 1] * Pow2[n] = Pow2[(Bits - 1) + n]
        BY <3>1, Pow2Adds
      <3> QED
        BY <1>8, <1>9, <1>12, <2>4, <3>2
    <2>6. h * d <= h * y
      BY <1>0, <1>12, <2>4
    <2>7. PICK u \in Int, t \in Int, z \in Int : u = d * q /\ t = d * h /\ z = h * y
      BY <1>0, <1>6, <1>12, <2>4
    <2>8. h * d = d * h
      BY <1>0, <1>12
    <2>9. u <= t - d /\ p = u + r /\ p = z /\ t <= z
      BY <1>9, <2>2, <2>3, <2>5, <2>6, <2>7, <2>8
    <2> QED
      BY <1>0, <1>6, <2>9
  <1>14. q \in WordRange \div 2 .. WordRange - 1
    <2>1. q <= WordRange - 1 /\ WordRange - 1 \in Int /\ WordRange \div 2 \in Int
      BY <1>6, <1>12
    <2> QED
      BY <1>12, <1>13, <2>1
  <1> QED
    BY <1>7, <1>9, <1>10, <1>11, <1>14

\* The two copies of the test for such divisors are the same.
LEMMA SameTest == \A x : is_zero_or_power_of_2(x) <=> is_zero_or_power_of_two(x)
  BY DEF is_zero_or_power_of_2, is_zero_or_power_of_two

\* IMUL_RCP, also by zero and by powers of two.
LEMMA ReciprocalVerified ==
    ASSUME NEW v, Running(v), NEW raw \in RawInstr, NEW index, NEW usg, Opcode(raw) = "IMUL_RCP"
    PROVE  Verified(v, ReferenceDecode(raw, index, usg).instr, CompactDecode(raw, index, usg).instr, index)
  <1>1. PICK r : r = ReferenceDecode(raw, index, usg).instr
    OBVIOUS
  <1>2. PICK c : c = CompactDecode(raw, index, usg).instr
    OBVIOUS
  <1>3. PICK d \in Reg : d = raw.dst % MaxReg
    BY Registers
  <1>4. PICK imm \in Half : imm = raw.imm
    BY Registers
  <1>5. PICK rc : rc = IF is_zero_or_power_of_2(imm) THEN 0 ELSE Reciprocal(imm)
    OBVIOUS
  <1>6. RReg(raw.dst) = Store("R", d)
    BY <1>3 DEF RReg
  <1>7. rc = 0 \/ /\ rc \in WordRange \div 2 .. WordRange - 1
                  /\ \E x \in Bits .. Bits + HalfBits : rc = Pow2[x] \div imm
    BY <1>5, ReciprocalIs
  <1>8. rc \in Int
    BY <1>7
  <1>9. c = New("imul_rcp", "mul", d, NoReg, rc, 0)
    <2>1. c = CompactInteger("IMUL_RCP", raw, d, raw.src % MaxReg)
      BY <1>2, <1>3, IntegerDecoded DEF NotInteger, ReferenceFloats
    <2> QED
      BY <1>4, <1>5, <2>1, FormDomains, SameTest DEF CompactInteger, MemoryOps
  <1>10. r = [Instr("IMUL_RCP", Store("R", d), None, SignedHalf(imm), NoMode) EXCEPT !.reciprocal = rc]
    <2>1. r = ReferenceInteger("IMUL_RCP", raw, SignedHalf(imm), Store("R", d), RReg(raw.src))
      BY <1>1, <1>4, <1>6, IntegerDecoded DEF NotInteger, ReferenceFloats
    <2> QED
      BY <1>4, <1>5, <2>1 DEF ReferenceInteger
  <1>11. c.form = "imul_rcp" /\ c.dst = ByteOffset(d, WordBytes) /\ c.imm = rc
    BY <1>9, NewFields
  <1>12. r.op = "IMUL_RCP" /\ r.dst = Store("R", d) /\ r.imm = SignedHalf(imm) /\ r.reciprocal = rc
    BY <1>10 DEF Instr
  <1>13. r.dst.kind = "R" /\ r.dst.i = d /\ r.imm # NoImm /\ r.imm % HalfRange = imm
    BY <1>12, StoreFields, Immediate
  <1>14. R(v, c.dst) = v.r[d] /\ v.r[d] \in Word /\ RegisterOffset(c.dst) /\ c.dst \div WordBytes = d
    BY <1>11, RegisterOperand, RegisterBytes DEF Running, IsRegister
  <1>15. CompactExec(v, c) = CompactExecInteger(v, c)
    BY <1>11 DEF CompactExec, FloatEffects
  <1>16. ReferenceExec(v, r) = ReferenceExecInteger(v, r)
    BY <1>12 DEF ReferenceExec, ReferenceFloats
  <1>17. Lockstep(v, r, c, index)
    <2>1. CASE rc = 0
      <3>1. CompactExec(v, c) = v
        BY <1>11, <1>15, <2>1 DEF CompactExecInteger
      <3>2. ReferenceExec(v, r) = v
        BY <1>12, <1>16, <2>1 DEF ReferenceExecInteger
      <3> QED
        BY <3>1, <3>2, NoEffect
    <2>2. CASE rc # 0
      <3>1. PICK w \in Word : w = WrappingMul(v.r[d], rc)
        BY <1>8, <1>14, WordInt, Wrapping
      <3>2. CompactExec(v, c) = SetR(v, c.dst, WrappingMul(R(v, c.dst), c.imm))
        BY <1>11, <1>15, <2>2 DEF CompactExecInteger
      <3>3. CompactExec(v, c) = [v EXCEPT !.r[d] = w]
        BY <1>11, <1>14, <3>1, <3>2, Zenon DEF SetR
      <3>4. ReferenceExec(v, r) = [v EXCEPT !.r[r.dst.i] = WrappingMul(v.r[r.dst.i], r.reciprocal)]
        BY <1>12, <1>16, <2>2 DEF ReferenceExecInteger
      <3>5. ReferenceExec(v, r) = [v EXCEPT !.r[d] = w]
        BY <1>12, <1>13, <3>1, <3>4, Zenon
      <3> QED
        BY <3>3, <3>5, RegisterEffect
    <2> QED
      BY <2>1, <2>2
  <1>18. NeverPanics(r)
    BY <1>12, <1>13 DEF NeverPanics, AluOf
  <1>19. AccessesAsserted(v, c)
    BY <1>11, <1>14 DEF AccessesAsserted, FloatEffects
  <1>20. ExactReciprocal(r)
    BY <1>7, <1>12, <1>13 DEF ExactReciprocal
  <1> QED
    BY <1>1, <1>2, <1>17, <1>18, <1>19, <1>20 DEF Verified

-----------------------------------------------------------------------------
(* Every instruction.                                                      *)

OneDst == {"IADD_RS", "INEG_R"} \cup RegisterOps \cup HighOps \cup MemoryOps
OpcodeNames == OneDst \cup {"ISWAP_R", "IMUL_RCP", "CBRANCH", "CFROUND", "ISTORE"} \cup ReferenceFloats

\* The rows of the table of opcodes cover the bytes.
LEMMA OpcodeRows ==
    /\ DOMAIN CompactOpcodes = 1 .. 29
    /\ CompactOpcodes[29][2] = 256
    /\ \A n \in 1 .. 29 : CompactOpcodes[n][2] \in Nat
    /\ \A n \in 1 .. 29 : CompactOpcodes[n][1] \in OpcodeNames
  <1>1. DOMAIN CompactOpcodes = 1 .. 29 /\ CompactOpcodes[29][2] = 256
    BY DEF CompactOpcodes
  <1>2. ASSUME NEW n \in 1 .. 29 PROVE CompactOpcodes[n][2] \in Nat /\ CompactOpcodes[n][1] \in OpcodeNames
    <2>1. CASE n \in 1 .. 10
      BY <2>1 DEF CompactOpcodes, OpcodeNames, OneDst, RegisterOps, HighOps, MemoryOps, ReferenceFloats
    <2>2. CASE n \in 11 .. 20
      BY <2>2 DEF CompactOpcodes, OpcodeNames, OneDst, RegisterOps, HighOps, MemoryOps, ReferenceFloats
    <2>3. CASE n \in 21 .. 29
      BY <2>3 DEF CompactOpcodes, OpcodeNames, OneDst, RegisterOps, HighOps, MemoryOps, ReferenceFloats
    <2> QED
      BY <2>1, <2>2, <2>3
  <1> QED
    BY <1>1, <1>2

\* Every byte is an opcode.
LEMMA OpcodeKnown ==
    ASSUME NEW raw \in RawInstr
    PROVE  Opcode(raw) \in OpcodeNames
  <1>1. PICK b \in 0 .. 255 : b = raw.op
    BY DEF RawInstr
  <1> DEFINE S == {n \in 1 .. 29 : b < CompactOpcodes[n][2]}
             First(n) == b < CompactOpcodes[n][2] /\ \A m \in 1 .. n - 1 : b >= CompactOpcodes[m][2]
  <1>2. S \in SUBSET Nat /\ S # {}
    BY OpcodeRows
  <1>3. PICK n \in S : \A m \in S : n <= m
    <2> HIDE DEF S
    <2> QED
      BY <1>2, LeastNat
  <1>4. n \in 1 .. 29 /\ First(n)
    <2>1. ASSUME NEW m \in 1 .. n - 1 PROVE b >= CompactOpcodes[m][2]
      <3>1. m \in 1 .. 29 /\ ~(n <= m)
        OBVIOUS
      <3>2. m \notin S
        BY <1>3, <3>1
      <3>3. CompactOpcodes[m][2] \in Nat
        BY <3>1, OpcodeRows
      <3> QED
        BY <3>1, <3>2, <3>3
    <2> QED
      BY <2>1
  <1>5. PICK k \in 1 .. 29 : k = CHOOSE n_ \in DOMAIN CompactOpcodes : First(n_)
    <2> HIDE DEF First
    <2>1. \E n_ \in DOMAIN CompactOpcodes : First(n_)
      BY <1>4, OpcodeRows
    <2>2. (CHOOSE n_ \in DOMAIN CompactOpcodes : First(n_)) \in DOMAIN CompactOpcodes
      BY <2>1, Zenon
    <2> QED
      BY <2>2, OpcodeRows
  <1>6. Opcode(raw) = CompactOpcodes[k][1]
    BY <1>1, <1>5, Zenon DEF Opcode, OpcodeIn
  <1> QED
    BY <1>6, OpcodeRows

\* Whatever the raw instruction, its two decodings do the same, in range.
LEMMA AllVerified ==
    ASSUME NEW v, Running(v), NEW raw \in RawInstr, NEW index \in Nat, NEW usg \in [Reg -> -1 .. index - 1]
    PROVE  Verified(v, ReferenceDecode(raw, index, usg).instr, CompactDecode(raw, index, usg).instr, index)
  <1>1. PICK op \in OpcodeNames : op = Opcode(raw)
    BY OpcodeKnown
  <1>2. \/ op \in MemoryOps \/ op \in RegisterOps \/ op \in HighOps \/ op = "IADD_RS" \/ op = "INEG_R"
        \/ op = "ISWAP_R" \/ op = "IMUL_RCP" \/ op = "CBRANCH" \/ op = "CFROUND" \/ op = "ISTORE"
        \/ op \in ReferenceFloats
    BY DEF OpcodeNames, OneDst
  <1>3. CASE op \in MemoryOps
    BY <1>1, <1>3, MemoryVerified
  <1>4. CASE op \in RegisterOps
    BY <1>1, <1>4, RegisterVerified
  <1>5. CASE op \in HighOps
    BY <1>1, <1>5, HighVerified
  <1>6. CASE op = "IADD_RS"
    BY <1>1, <1>6, AddVerified
  <1>7. CASE op = "INEG_R"
    BY <1>1, <1>7, NegVerified
  <1>8. CASE op = "ISWAP_R"
    BY <1>1, <1>8, SwapVerified
  <1>9. CASE op = "IMUL_RCP"
    BY <1>1, <1>9, ReciprocalVerified
  <1>10. CASE op = "CBRANCH"
    BY <1>1, <1>10, BranchVerified
  <1>11. CASE op = "CFROUND"
    BY <1>1, <1>11, RoundVerified
  <1>12. CASE op = "ISTORE"
    BY <1>1, <1>12, StoreVerified
  <1>13. CASE op \in ReferenceFloats
    <2>1. \/ op = "FSWAP_R" \/ op = "FSCAL_R" \/ op = "FSQRT_R"
          \/ op \in {"FADD_R", "FSUB_R", "FMUL_R"} \/ op \in {"FADD_M", "FSUB_M", "FDIV_M"}
      BY <1>13 DEF ReferenceFloats
    <2>2. CASE op = "FSWAP_R"
      BY <1>1, <2>2, FSwapVerified
    <2>3. CASE op = "FSCAL_R"
      BY <1>1, <2>3, FScalVerified
    <2>4. CASE op = "FSQRT_R"
      BY <1>1, <2>4, FSqrtVerified
    <2>5. CASE op \in {"FADD_R", "FSUB_R", "FMUL_R"}
      BY <1>1, <2>5, FArithmetic
    <2>6. CASE op \in {"FADD_M", "FSUB_M", "FDIV_M"}
      BY <1>1, <2>6, FMemory
    <2> QED
      BY <2>1, <2>2, <2>3, <2>4, <2>5, <2>6
  <1> QED
    BY <1>2, <1>3, <1>4, <1>5, <1>6, <1>7, <1>8, <1>9, <1>10, <1>11, <1>12, <1>13

\* The decoders record the same last uses.
LEMMA UsesAgree ==
    ASSUME NEW raw \in RawInstr, NEW index \in Nat, NEW usg \in [Reg -> -1 .. index - 1]
    PROVE  /\ CompactDecode(raw, index, usg).usage = ReferenceDecode(raw, index, usg).usage
           /\ CompactDecode(raw, index, usg).usage \in [Reg -> -1 .. index]
  <1>1. PICK op \in OpcodeNames : op = Opcode(raw)
    BY OpcodeKnown
  <1>2. PICK d \in Reg, s \in Reg : d = raw.dst % MaxReg /\ s = raw.src % MaxReg
    BY Registers
  <1>3. PICK U : U = CompactUses(op, raw)
    OBVIOUS
  <1>4. CompactDecode(raw, index, usg).usage = [i \in Reg |-> IF i \in U THEN index ELSE usg[i]]
    BY <1>1, <1>3 DEF CompactDecode, Opcode
  <1>5. ReferenceDecode(raw, index, usg).usage = ReferenceUsage(op, raw, index, usg)
    BY <1>1, SameOpcode DEF ReferenceDecode
  <1>6. [i \in Reg |-> IF i \in U THEN index ELSE usg[i]] \in [Reg -> -1 .. index]
    OBVIOUS
  <1>7. CASE op = "CBRANCH"
    <2>1. U = Reg
      BY <1>3, <1>7, FormDomains DEF CompactUses, MemoryOps
    <2>2. ReferenceUsage(op, raw, index, usg) = [i \in Reg |-> index]
      BY <1>7 DEF ReferenceUsage
    <2> QED
      BY <1>4, <1>5, <1>6, <2>1, <2>2
  <1>8. CASE op \in OneDst
    <2>1. U = {d}
      BY <1>2, <1>3, <1>8, FormDomains DEF CompactUses, OneDst, RegisterOps, HighOps, MemoryOps
    <2>2. ReferenceUsage(op, raw, index, usg) = [usg EXCEPT ![d] = index]
      BY <1>2, <1>8 DEF ReferenceUsage, OneDst, RegisterOps, HighOps, MemoryOps
    <2> QED
      BY <1>4, <1>5, <1>6, <2>1, <2>2
  <1>9. CASE op = "ISWAP_R"
    <2>1. CASE d = s
      <3>1. U = {}
        BY <1>2, <1>3, <1>9, <2>1, FormDomains DEF CompactUses, MemoryOps
      <3>2. ReferenceUsage(op, raw, index, usg) = usg
        BY <1>2, <1>9, <2>1 DEF ReferenceUsage
      <3> QED
        BY <1>4, <1>5, <1>6, <3>1, <3>2
    <2>2. CASE d # s
      <3>1. U = {d, s}
        BY <1>2, <1>3, <1>9, <2>2, FormDomains DEF CompactUses, MemoryOps
      <3>2. ReferenceUsage(op, raw, index, usg) = [usg EXCEPT ![d] = index, ![s] = index]
        BY <1>2, <1>9, <2>2 DEF ReferenceUsage
      <3>3. [usg EXCEPT ![d] = index, ![s] = index] = [i \in Reg |-> IF i \in {d, s} THEN index ELSE usg[i]]
        OBVIOUS
      <3> QED
        BY <1>4, <1>5, <1>6, <3>1, <3>2, <3>3, Zenon
    <2> QED
      BY <2>1, <2>2
  <1>10. CASE op = "IMUL_RCP"
    <2>1. CASE is_zero_or_power_of_2(raw.imm)
      <3>1. U = {}
        BY <1>2, <1>3, <1>10, <2>1, FormDomains, SameTest DEF CompactUses, MemoryOps
      <3>2. ReferenceUsage(op, raw, index, usg) = usg
        BY <1>2, <1>10, <2>1 DEF ReferenceUsage
      <3> QED
        BY <1>4, <1>5, <1>6, <3>1, <3>2
    <2>2. CASE ~is_zero_or_power_of_2(raw.imm)
      <3>1. U = {d}
        BY <1>2, <1>3, <1>10, <2>2, FormDomains, SameTest DEF CompactUses, MemoryOps
      <3>2. ReferenceUsage(op, raw, index, usg) = [usg EXCEPT ![d] = index]
        BY <1>2, <1>10, <2>2 DEF ReferenceUsage
      <3> QED
        BY <1>4, <1>5, <1>6, <3>1, <3>2
    <2> QED
      BY <2>1, <2>2
  <1>11. CASE op \in {"CFROUND", "ISTORE"} \cup ReferenceFloats
    <2>1. U = {}
      BY <1>2, <1>3, <1>11, FormDomains DEF CompactUses, MemoryOps, ReferenceFloats
    <2>2. ReferenceUsage(op, raw, index, usg) = usg
      BY <1>2, <1>11 DEF ReferenceUsage, ReferenceFloats
    <2> QED
      BY <1>4, <1>5, <1>6, <2>1, <2>2
  <1> QED
    BY <1>7, <1>8, <1>9, <1>10, <1>11 DEF OpcodeNames

-----------------------------------------------------------------------------
(* The frame of a program keeps a machine a machine.                       *)

\* Zeros of every kind.
LEMMA ZeroTypes == 0 \in Word /\ 0 \in Aligned /\ 0 \in Offsets /\ 0 \in Reg /\ <<0, 0>> \in Pair
  <1>1. 0 \in Word
    BY Ranges DEF Word
  <1>2. LineSize \in Nat /\ 0 = LineSize * 0 /\ 0 < BaseSize /\ ExtraItems \in Nat
    BY Sizes
  <1>3. 0 \in Aligned
    BY <1>2 DEF Aligned
  <1>4. 0 \in 0 .. ExtraItems
    BY <1>2
  <1>5. 0 \in Offsets
    BY <1>2, <1>4 DEF Offsets
  <1> QED
    BY <1>1, <1>3, <1>5 DEF Reg, MaxReg, Pair

\* The machine a hash starts on, in the caller's rounding mode.
LEMMA NewMachine ==
    ASSUME NEW scratchpad \in [Scratch -> Word], NEW caller \in 0 .. 3
    PROVE  OnHost(NewVm(scratchpad), caller) \in Machine
  <1>1. NewVm(scratchpad) \in Machine
    BY ZeroTypes DEF NewVm, Machine
  <1> QED
    BY <1>1 DEF OnHost, Machine

\* reset_rounding_mode sets the field and the host.
LEMMA ResetRunning ==
    ASSUME NEW v \in Machine
    PROVE  Running(ResetRoundingMode(v))
  <1>1. PICK m \in 0 .. 3 : m = 0
    OBVIOUS
  <1> DEFINE x == [v EXCEPT !.mode = m, !.host = m]
  <1>2. x \in Machine /\ x.host = m /\ x.mode = m
    BY DEF Machine
  <1>3. ResetRoundingMode(v) = x
    BY <1>1, Zenon DEF ResetRoundingMode, SetRoundingMode
  <1> HIDE DEF x
  <1> QED
    BY <1>2, <1>3, Zenon DEF Running

\* The offset of the dataset is a whole number of extra items.
LEMMA OffsetOfItem ==
    ASSUME NEW w \in Word
    PROVE  (w % (ExtraItems + 1)) * LineSize \in Offsets
  <1>1. w \in Int /\ ExtraItems \in Nat /\ ExtraItems + 1 \in Nat /\ ExtraItems + 1 > 0 /\ LineSize \in Nat
    BY Sizes, WordInt
  <1>2. PICK j \in Nat : j = w % (ExtraItems + 1) /\ j <= ExtraItems
    BY <1>1, DivMod
  <1>3. j * LineSize = LineSize * j /\ LineSize * j \in Nat
    BY <1>1
  <1>4. j \in 0 .. ExtraItems
    BY <1>1, <1>2
  <1> QED
    BY <1>2, <1>3, <1>4, Zenon DEF Offsets

\* small_positive_float_bit and float_mask give words.
LEMMA FloatWord ==
    ASSUME NEW w \in Word
    PROVE  ReferencePositiveFloat(w) \in Word /\ ReferenceFloatMask(w) \in Word
  <1>1. w \in Int
    BY WordInt
  <1>2. MaskBits \in Nat /\ Bits - 12 \in Nat /\ Bits - 5 \in Nat /\ Bits - 4 \in Nat
    BY Ranges, VmAssumption
  <1>3. PICK m \in Nat, k \in Nat, p \in Nat, q \in Nat :
            /\ m = MantissaRange /\ k = Pow2[MaskBits] /\ p = Pow2[Bits - 5] /\ q = Pow2[Bits - 4]
            /\ m > 0 /\ k > 0 /\ p > 0 /\ q > 0
    BY <1>2, Pow2Positive DEF MantissaRange
  <1>4. w % m \in Int /\ w % k \in Int /\ w \div p \in Int /\ w \div q \in Int
    BY <1>1, <1>3, DivMod
  <1>5. PICK x \in Int : x = (((w \div p) + ExponentBias) % ExponentRange) * m
    BY <1>3, <1>4 DEF ExponentBias, ExponentRange
  <1>6. ReferencePositiveFloat(w) = x | (w % m)
    BY <1>3, <1>5, Zenon DEF ReferencePositiveFloat
  <1>7. PICK y \in Int : y = (w \div q) * DynamicExponent
    BY <1>4 DEF DynamicExponent
  <1>8. PICK z \in Int : z = ExponentBits | y
    BY BitwiseWord, WordInt DEF ExponentBits
  <1>9. PICK t \in Int : t = z * m
    OBVIOUS
  <1>10. ReferenceFloatMask(w) = (w % k) | t
    BY <1>3, <1>7, <1>8, <1>9, Zenon DEF ReferenceFloatMask, ReferenceExponent
  <1> QED
    BY <1>4, <1>6, <1>10, BitwiseWord

\* The copies of init_vm start both machines alike, though each was written out
\* on its own.
LEMMA SameInit == \A v, ent : ReferenceInit(v, ent) = CompactInit(v, ent)
  <1>1. \A w : ReferencePositiveFloat(w) = CompactPositiveFloat(w)
    BY Zenon DEF ReferencePositiveFloat, CompactPositiveFloat
  <1>2. \A w : ReferenceFloatMask(w) = CompactFloatMask(w)
    BY Zenon DEF ReferenceFloatMask, CompactFloatMask, ReferenceExponent, CompactExponent
  <1> QED
    BY <1>1, <1>2 DEF ReferenceInit, CompactInit

\* init_vm.
LEMMA InitRunning ==
    ASSUME NEW v, Running(v), NEW ent \in Entropy
    PROVE  /\ Running(ReferenceInit(v, ent))
           /\ ReferenceInit(v, ent).mx % HalfRange \in Nat /\ ReferenceInit(v, ent).ma % HalfRange \in Nat
  <1>1. v \in Machine /\ v.host = v.mode
    BY DEF Running
  <1>2. \A i \in 0 .. 15 : ent[i] \in Word /\ ent[i] \in Nat /\ ent[i] \in Int
    BY WordInt DEF Entropy
  <1>3. PICK ma \in Aligned : ma = AlignLine(ent[8])
    BY <1>2, AlignLineAligned
  <1>4. PICK o \in Offsets : o = (ent[13] % (ExtraItems + 1)) * LineSize
    BY <1>2, OffsetOfItem
  <1>5. PICK mx \in Nat : mx = ent[10] % HalfRange
    BY <1>2, Ranges, DivMod
  <1> DEFINE bit(k) == (ent[12] \div Pow2[k]) % 2
  <1>6. PICK rr \in Reg \X Reg \X Reg \X Reg : rr = <<bit(0), 2 + bit(1), 4 + bit(2), 6 + bit(3)>>
    <2>1. ASSUME NEW k \in Nat PROVE bit(k) \in 0 .. 1
      <3>1. PICK n \in Nat : n = Pow2[k] /\ n > 0
        BY Pow2Positive
      <3>2. ent[12] \div n \in Int
        BY <1>2, <3>1, DivMod
      <3> QED
        BY <3>1, <3>2
    <2>2. bit(0) \in 0 .. 1 /\ bit(1) \in 0 .. 1 /\ bit(2) \in 0 .. 1 /\ bit(3) \in 0 .. 1
      BY <2>1
    <2> HIDE DEF bit
    <2>3. bit(0) \in Reg /\ 2 + bit(1) \in Reg /\ 4 + bit(2) \in Reg /\ 6 + bit(3) \in Reg
      BY <2>2 DEF Reg, MaxReg
    <2> QED
      BY <2>3
  <1>7. PICK z \in [Reg -> Word] : z = [i \in Reg |-> 0]
    BY ZeroTypes
  <1>8. PICK a \in [FloatReg -> Pair] :
            a = [i \in FloatReg |-> <<ReferencePositiveFloat(ent[2 * i]), ReferencePositiveFloat(ent[2 * i + 1])>>]
    <2>1. ASSUME NEW i \in FloatReg
          PROVE  <<ReferencePositiveFloat(ent[2 * i]), ReferencePositiveFloat(ent[2 * i + 1])>> \in Pair
      <3>1. 2 * i \in 0 .. 15 /\ 2 * i + 1 \in 0 .. 15
        BY DEF FloatReg, MaxFloat
      <3>2. ent[2 * i] \in Word /\ ent[2 * i + 1] \in Word
        BY <1>2, <3>1
      <3> QED
        BY <3>2, FloatWord DEF Pair
    <2> QED
      BY <2>1
  <1>9. PICK e \in Pair : e = <<ReferenceFloatMask(ent[14]), ReferenceFloatMask(ent[15])>>
    <2>1. ent[14] \in Word /\ ent[15] \in Word
      BY <1>2
    <2>2. ReferenceFloatMask(ent[14]) \in Word /\ ReferenceFloatMask(ent[15]) \in Word
      BY <2>1, FloatWord
    <2> QED
      BY <2>2 DEF Pair
  <1>10. ReferenceInit(v, ent) = [v EXCEPT !.a = a, !.ma = ma, !.mx = mx, !.read_reg = rr,
                                           !.offset = o, !.e_mask = e, !.r = z]
    BY <1>3, <1>4, <1>5, <1>6, <1>7, <1>8, <1>9, Zenon DEF ReferenceInit
  <1>11. /\ ReferenceInit(v, ent) \in Machine /\ ReferenceInit(v, ent).host = v.host
         /\ ReferenceInit(v, ent).mode = v.mode
         /\ ReferenceInit(v, ent).mx = mx /\ ReferenceInit(v, ent).ma = ma
    BY <1>1, <1>10 DEF Machine
  <1>12. ma \in Nat
    BY DEF Aligned
  <1>13. mx % HalfRange \in Nat /\ ma % HalfRange \in Nat
    BY <1>12, Ranges, DivMod
  <1> QED
    BY <1>1, <1>11, <1>13 DEF Running

\* The two mixes of address registers are words.
LEMMA MixWord ==
    ASSUME NEW v \in Machine
    PROVE  /\ v.r[v.read_reg[1]] ^^ v.r[v.read_reg[2]] \in Word
           /\ v.r[v.read_reg[3]] ^^ v.r[v.read_reg[4]] \in Word
  <1>1. v.r \in [Reg -> Word] /\ v.read_reg \in Reg \X Reg \X Reg \X Reg
    BY DEF Machine
  <1>2. v.read_reg[1] \in Reg /\ v.read_reg[2] \in Reg /\ v.read_reg[3] \in Reg /\ v.read_reg[4] \in Reg
    BY <1>1
  <1>3. /\ v.r[v.read_reg[1]] \in Int /\ v.r[v.read_reg[2]] \in Int
        /\ v.r[v.read_reg[3]] \in Int /\ v.r[v.read_reg[4]] \in Int
    BY <1>1, <1>2, WordInt
  <1> QED
    BY <1>3, BitwiseWord

\* The scratchpad addresses of an iteration are lines, whatever the previous ones.
LEMMA AddressLines ==
    ASSUME NEW v \in Machine, NEW a \in Nat \X Nat
    PROVE  SpAddresses(v, a[1], a[2]) \in Lines \X Lines
  <1>1. PICK mix \in Word : mix = v.r[v.read_reg[1]] ^^ v.r[v.read_reg[2]]
    BY MixWord
  <1>2. mix % HalfRange \in Int /\ mix \div HalfRange \in Int /\ a[1] \in Int /\ a[2] \in Int
    BY Ranges, DivMod, WordInt
  <1>3. a[1] ^^ (mix % HalfRange) \in Nat /\ a[2] ^^ (mix \div HalfRange) \in Nat
    BY <1>2, BitwiseWord, WordInt
  <1>4. /\ LineIndex(a[1] ^^ (mix % HalfRange)) \in Lines
        /\ LineIndex(a[2] ^^ (mix \div HalfRange)) \in Lines
    BY <1>3, LineIndexLine
  <1>5. SpAddresses(v, a[1], a[2])
            = <<LineIndex(a[1] ^^ (mix % HalfRange)), LineIndex(a[2] ^^ (mix \div HalfRange))>>
    BY <1>1, Zenon DEF SpAddresses
  <1> QED
    BY <1>4, <1>5

\* The words of a line are in the scratchpad.
LEMMA LineWords ==
    ASSUME NEW k \in Lines, NEW i \in Reg
    PROVE  k + i \in Scratch
  BY ScratchLines DEF Lines, Reg, MaxReg, Scratch

\* prepare_iteration.
LEMMA PrepareRunning ==
    ASSUME NEW v, Running(v), NEW a \in Lines \X Lines
    PROVE  Running(PrepareIteration(v, a)) /\ PrepareIteration(v, a).pc = 0
  <1>1. v \in Machine /\ v.host = v.mode /\ v.sp \in [Scratch -> Word] /\ v.r \in [Reg -> Word]
    BY DEF Running, Machine
  <1>2. a[1] \in Lines /\ a[2] \in Lines
    OBVIOUS
  <1>3. PICK r \in [Reg -> Word] : r = [i \in Reg |-> v.r[i] ^^ v.sp[a[1] + i]]
    <2>1. ASSUME NEW i \in Reg PROVE v.r[i] ^^ v.sp[a[1] + i] \in Word
      BY <1>1, <1>2, LineWords, WordInt, BitwiseWord
    <2> QED
      BY <2>1
  <1>4. ASSUME NEW i \in FloatReg PROVE ToFloat(v.sp[a[2] + i]) \in Pair /\ ToFloat(v.sp[a[2] + i + MaxFloat]) \in Pair
    <2>1. i \in Reg /\ i + MaxFloat \in Reg /\ a[2] \in Nat /\ a[2] + (i + MaxFloat) = a[2] + i + MaxFloat
      BY <1>2 DEF FloatReg, MaxFloat, Reg, MaxReg, Lines
    <2>2. a[2] + i \in Scratch /\ a[2] + (i + MaxFloat) \in Scratch
      BY <1>2, <2>1, LineWords
    <2>3. v.sp[a[2] + i] \in Word /\ v.sp[a[2] + i + MaxFloat] \in Word
      BY <1>1, <2>1, <2>2
    <2> QED
      BY <2>3, ToFloatPair
  <1>5. PICK f \in [FloatReg -> Pair] : f = [i \in FloatReg |-> ToFloat(v.sp[a[2] + i])]
    BY <1>4
  <1>6. PICK e \in [FloatReg -> Pair] : e = [i \in FloatReg |-> MaskExponent(v, ToFloat(v.sp[a[2] + i + MaxFloat]))]
    BY <1>1, <1>4, MaskPair
  <1>7. PrepareIteration(v, a) = [v EXCEPT !.r = r, !.f = f, !.e = e, !.pc = 0]
    BY <1>3, <1>5, <1>6, Zenon DEF PrepareIteration
  <1>8. PICK n \in Int : n = 0
    OBVIOUS
  <1> DEFINE x == [v EXCEPT !.r = r, !.f = f, !.e = e, !.pc = n]
  <1>9. x \in Machine /\ x.host = v.host /\ x.mode = v.mode /\ x.pc = n
    BY <1>1 DEF Machine
  <1>10. PrepareIteration(v, a) = x
    BY <1>7, <1>8, Zenon
  <1> HIDE DEF x
  <1> QED
    BY <1>1, <1>8, <1>9, <1>10, Zenon DEF Running

\* The dataset item of an iteration is whole and exists.
LEMMA ItemInRange ==
    ASSUME NEW v \in Machine
    PROVE  /\ DatasetAddress(v) \in Nat /\ DatasetAddress(v) % LineSize = 0
           /\ DatasetAddress(v) \div LineSize \in Nat
           /\ DatasetAddress(v) \div LineSize < BaseSize \div LineSize + ExtraItems
  <1>1. v.offset \in Offsets /\ v.ma \in Aligned
    BY DEF Machine
  <1>2. PICK j \in 0 .. ExtraItems : v.offset = LineSize * j
    BY <1>1 DEF Offsets
  <1>3. PICK i \in Nat : v.ma = LineSize * i /\ v.ma < BaseSize
    BY <1>1 DEF Aligned
  <1>4. LineSize \in Nat /\ LineSize > 0 /\ BaseSize \in Nat /\ BaseSize % LineSize = 0 /\ ExtraItems \in Nat /\ j \in Nat
    BY Sizes
  <1>5. PICK n \in Nat : n = BaseSize \div LineSize /\ BaseSize = LineSize * n
    BY <1>4, DivMod, DivNat
  <1>6. i < n
    <2>1. CASE i >= n
      <3>1. LineSize * i >= LineSize * n
        BY <1>4, <2>1
      <3> QED
        BY <1>3, <1>4, <1>5, <3>1
    <2> QED
      BY <2>1
  <1>7. DatasetAddress(v) = LineSize * (j + i) + 0
    BY <1>2, <1>3, <1>4 DEF DatasetAddress
  <1>8. j + i \in Int /\ 0 \in 0 .. LineSize - 1 /\ DatasetAddress(v) \in Int /\ DatasetAddress(v) \in Nat
    BY <1>4, <1>7
  <1>9. DatasetAddress(v) \div LineSize = j + i /\ DatasetAddress(v) % LineSize = 0
    BY <1>4, <1>7, <1>8, DivModUnique
  <1> QED
    BY <1>4, <1>5, <1>6, <1>8, <1>9

\* A dataset item is made of words.
LEMMA DatasetWords ==
    ASSUME NEW item \in Nat, NEW i \in Reg
    PROVE  DatasetItem(item)[i] \in Word
  <1>1. SuperscalarMul \in Int
    BY ModWord, WordInt DEF SuperscalarMul
  <1>2. item + 1 \in Int
    OBVIOUS
  <1>3. PICK first \in Word : first = WrappingMul(item + 1, SuperscalarMul)
    BY <1>1, <1>2, Wrapping
  <1>4. i * 7919 \in Int
    BY DEF Reg, MaxReg
  <1>5. SuperscalarAdd[i] \in Int
    BY <1>4, ModWord, WordInt DEF SuperscalarAdd
  <1>6. DatasetItem(item)[i] = first ^^ SuperscalarAdd[i]
    BY <1>3, Zenon DEF DatasetItem
  <1> QED
    BY <1>3, <1>5, <1>6, BitwiseWord, WordInt

\* The next dataset address is aligned.
LEMMA NextMaAligned ==
    ASSUME NEW v \in Machine
    PROVE  NextMa(v) \in Aligned
  <1>1. v.r[v.read_reg[3]] ^^ v.r[v.read_reg[4]] \in Int /\ v.mx \in Int
    BY MixWord, WordInt DEF Machine
  <1>2. v.mx ^^ (v.r[v.read_reg[3]] ^^ v.r[v.read_reg[4]]) \in Nat
    BY <1>1, BitwiseWord, WordInt
  <1> QED
    BY <1>2, AlignLineAligned DEF NextMa

\* finish_iteration.
LEMMA FinishRunning ==
    ASSUME NEW v, Running(v), NEW a \in Lines \X Lines
    PROVE  Running(FinishIteration(v, a))
  <1>1. v \in Machine /\ v.host = v.mode /\ v.sp \in [Scratch -> Word] /\ v.r \in [Reg -> Word]
        /\ v.f \in [FloatReg -> Pair] /\ v.e \in [FloatReg -> Pair] /\ v.ma \in Aligned /\ DOMAIN v.sp = Scratch
    BY DEF Running, Machine
  <1>2. a[1] \in Nat /\ a[2] \in Nat
    BY DEF Lines
  <1>3. PICK item : item = DatasetItem(DatasetAddress(v) \div LineSize)
    OBVIOUS
  <1>4. \A i \in Reg : item[i] \in Word
    BY <1>1, <1>3, ItemInRange, DatasetWords
  <1>5. PICK r \in [Reg -> Word] : r = [i \in Reg |-> v.r[i] ^^ item[i]]
    <2>1. ASSUME NEW i \in Reg PROVE v.r[i] ^^ item[i] \in Word
      BY <1>1, <1>4, WordInt, BitwiseWord
    <2> QED
      BY <2>1
  <1>6. PICK f \in [FloatReg -> Pair] : f = [i \in FloatReg |-> FloatXor(v.f[i], v.e[i])]
    <2>1. ASSUME NEW i \in FloatReg PROVE FloatXor(v.f[i], v.e[i]) \in Pair
      BY <1>1, XorPair, PairWords, WordInt
    <2> QED
      BY <2>1
  <1>7. PICK withR \in [Scratch -> Word] :
            withR = [k \in DOMAIN v.sp |-> IF k - a[2] \in Reg THEN r[k - a[2]] ELSE v.sp[k]]
    BY <1>1
  <1>8. PICK sp \in [Scratch -> Word] :
            sp = [k \in DOMAIN v.sp |->
                    IF k - a[1] \in Reg THEN f[(k - a[1]) \div 2][1 + ((k - a[1]) % 2)] ELSE withR[k]]
    <2>1. ASSUME NEW k \in Scratch, k - a[1] \in Reg
          PROVE  f[(k - a[1]) \div 2][1 + ((k - a[1]) % 2)] \in Word
      <3>1. PICK n \in 0 .. 7 : n = k - a[1]
        BY <2>1 DEF Reg, MaxReg
      <3>2. n \div 2 \in FloatReg /\ (1 + (n % 2) = 1 \/ 1 + (n % 2) = 2)
        BY DEF FloatReg, MaxFloat
      <3>3. f[n \div 2] \in Pair
        BY <3>2
      <3> QED
        BY <3>1, <3>2, <3>3, PairWords
    <2> QED
      BY <1>1, <2>1
  <1>9. FinishIteration(v, a) = [v EXCEPT !.r = r, !.f = f, !.mx = v.ma, !.ma = NextMa(v), !.sp = sp]
    <2> DEFINE r0 == [i \in Reg |-> v.r[i] ^^ DatasetItem(DatasetAddress(v) \div LineSize)[i]]
               f0 == [i \in FloatReg |-> FloatXor(v.f[i], v.e[i])]
               w0 == [k \in DOMAIN v.sp |-> IF k - a[2] \in Reg THEN r0[k - a[2]] ELSE v.sp[k]]
               sp0 == [k \in DOMAIN v.sp |->
                         IF k - a[1] \in Reg THEN f0[(k - a[1]) \div 2][1 + ((k - a[1]) % 2)] ELSE w0[k]]
    <2>1. FinishIteration(v, a) = [v EXCEPT !.r = r0, !.f = f0, !.mx = v.ma, !.ma = NextMa(v), !.sp = sp0]
      BY Zenon DEF FinishIteration
    <2>2. r0 = r
      BY <1>3, <1>5, Zenon
    <2>3. f0 = f
      BY <1>6, Zenon
    <2> HIDE DEF r0, f0
    <2>4. w0 = withR
      BY <1>7, <2>2, Zenon
    <2> HIDE DEF w0
    <2>5. sp0 = sp
      BY <1>8, <2>3, <2>4, Zenon
    <2> HIDE DEF sp0
    <2> QED
      BY <2>1, <2>2, <2>3, <2>5, Zenon
  <1>10. PICK mx \in Nat, ma \in Aligned : mx = v.ma /\ ma = NextMa(v)
    BY <1>1, NextMaAligned DEF Aligned
  <1> DEFINE x == [v EXCEPT !.r = r, !.f = f, !.mx = mx, !.ma = ma, !.sp = sp]
  <1>11. x \in Machine /\ x.host = v.host /\ x.mode = v.mode
    <2>1. v \in Machine
      BY <1>1
    <2>2. PICK u : u = [v EXCEPT !.r = r, !.f = f, !.sp = sp]
      OBVIOUS
    <2>3. u \in Machine /\ u.host = v.host /\ u.mode = v.mode
      BY <2>1, <2>2 DEF Machine
    <2>4. x = [u EXCEPT !.mx = mx, !.ma = ma]
      BY <2>1, <2>2 DEF Machine
    <2> HIDE DEF x
    <2> QED
      BY <2>3, <2>4 DEF Machine
  <1>12. FinishIteration(v, a) = x
    BY <1>9, <1>10, Zenon
  <1> HIDE DEF x
  <1> QED
    BY <1>1, <1>11, <1>12, Zenon DEF Running

-----------------------------------------------------------------------------
(* The two interpreters in lockstep.                                       *)

\* r and c are what the two decoders make of the same instruction at index k,
\* the same registers having been written before it.
SameDecoding(r, c, k) ==
    \E raw \in RawInstr, usg \in [Reg -> -1 .. k - 1] :
        r = ReferenceDecode(raw, k, usg).instr /\ c = CompactDecode(raw, k, usg).instr

Contexts == RawInstr \X Nat \X [Reg -> Int]
ReferenceInstrs == {ReferenceDecode(x[1], x[2], x[3]).instr : x \in Contexts}
CompactInstrs   == {CompactDecode(x[1], x[2], x[3]).instr : x \in Contexts}

FrameInv ==
    /\ feed \in DOMAIN Feeds
    /\ stage \in {"start", "decode", "prepare", "execute", "finished", "hashed"}
    /\ entropy \in Feeds[feed].entropies
    /\ stage # "start" => programs \in 1 .. ProgramCount

ProgramInv ==
    /\ program.reference \in Seq(ReferenceInstrs) /\ program.compact \in Seq(CompactInstrs)
    /\ Len(program.reference) = Len(program.compact)
    /\ Len(program.compact) <= ProgramSize
    /\ stage \in {"prepare", "execute"} => Len(program.compact) = ProgramSize
    /\ \A k \in 1 .. Len(program.compact) :
           SameDecoding(program.reference[k], program.compact[k], k - 1)
    /\ usage.reference = usage.compact
    /\ usage.compact \in [Reg -> -1 .. Len(program.compact) - 1]

MachineInv ==
    /\ vm.reference = vm.compact
    /\ vm.compact \in Machine
    /\ stage # "start" => Running(vm.compact)
    /\ stage = "execute" => vm.compact.pc \in 0 .. ProgramSize

AddressInv ==
    /\ addr.reference = addr.compact
    /\ addr.compact \in Nat \X Nat
    /\ stage = "execute" => addr.compact \in Lines \X Lines

LockstepInv == FrameInv /\ ProgramInv /\ MachineInv /\ AddressInv

\* The sides of a value given to both.
LEMMA BothSides == \A x : Both(x).reference = x /\ Both(x).compact = x
  BY DEF Both, Side

\* What DifferentialAssumption says of entropies.
LEMMA EntropyTypes ==
    ASSUME NEW name \in DOMAIN Feeds
    PROVE  Feeds[name].entropies \subseteq Entropy
  BY DifferentialAssumption

\* The invariant holds of the machines a caller makes,
LEMMA InitLockstep == Init => LockstepInv
  <1> SUFFICES ASSUME Init PROVE LockstepInv
    OBVIOUS
  <1>1. ProgramSize \in Nat
    BY DifferentialAssumption
  <1>2. FrameInv
    BY DEF Init, FrameInv
  <1>3. ProgramInv
    <2>1. program.reference = <<>> /\ program.compact = <<>> /\ usage.reference = NoUsage /\ usage.compact = NoUsage
          /\ stage = "start"
      BY BothSides DEF Init
    <2>2. Len(program.compact) = 0 /\ Len(program.reference) = 0
      BY <2>1
    <2>3. program.reference \in Seq(ReferenceInstrs) /\ program.compact \in Seq(CompactInstrs)
      BY <2>1
    <2>4. NoUsage \in [Reg -> -1 .. -1]
      BY DEF NoUsage
    <2>5. Len(program.compact) - 1 = -1
      BY <2>2
    <2>6. usage.compact \in [Reg -> -1 .. Len(program.compact) - 1]
      BY <2>1, <2>4, <2>5
    <2>7. \A k \in 1 .. Len(program.compact) : SameDecoding(program.reference[k], program.compact[k], k - 1)
      BY <2>2
    <2> QED
      BY <1>1, <2>1, <2>2, <2>3, <2>6, <2>7 DEF ProgramInv
  <1>4. MachineInv
    <2>1. PICK scratchpad \in Feeds[feed].scratchpads, caller \in 0 .. 3 :
              vm = Both(OnHost(NewVm(scratchpad), caller))
      BY DEF Init
    <2>2. scratchpad \in [Scratch -> Word]
      BY DifferentialAssumption DEF Init, Scratch
    <2>3. OnHost(NewVm(scratchpad), caller) \in Machine
      BY <2>2, NewMachine
    <2>4. vm.reference = OnHost(NewVm(scratchpad), caller) /\ vm.compact = OnHost(NewVm(scratchpad), caller)
      BY <2>1, BothSides, Zenon
    <2>5. stage = "start"
      BY DEF Init
    <2> QED
      BY <2>3, <2>4, <2>5 DEF MachineInv
  <1>5. AddressInv
    <2>1. addr.reference = <<0, 0>> /\ addr.compact = <<0, 0>> /\ stage = "start"
      BY BothSides DEF Init
    <2> QED
      BY <2>1 DEF AddressInv
  <1> QED
    BY <1>2, <1>3, <1>4, <1>5 DEF LockstepInv

\* and is kept by reset_rounding_mode,
LEMMA StartKeeps == LockstepInv /\ Start => LockstepInv'
  <1> SUFFICES ASSUME LockstepInv, Start PROVE LockstepInv'
    OBVIOUS
  <1>1. 1 \in 1 .. ProgramCount
    BY DifferentialAssumption
  <1>2. FrameInv'
    BY <1>1 DEF LockstepInv, FrameInv, Start
  <1>3. ProgramInv'
    BY DEF LockstepInv, ProgramInv, Start
  <1>4. MachineInv'
    <2>1. PICK v : v = vm.compact /\ v = vm.reference /\ v \in Machine
      BY DEF LockstepInv, MachineInv
    <2>2. vm'.reference = ResetRoundingMode(v) /\ vm'.compact = ResetRoundingMode(v) /\ stage' = "decode"
      BY <2>1 DEF Start, Side
    <2>3. Running(ResetRoundingMode(v))
      BY <2>1, ResetRunning
    <2> QED
      BY <2>2, <2>3 DEF MachineInv, Running
  <1>5. AddressInv'
    BY DEF LockstepInv, AddressInv, Start
  <1> QED
    BY <1>2, <1>3, <1>4, <1>5 DEF LockstepInv

\* The instruction comes from one of the words the feed allows here.
LEMMA DecodedIndex ==
    ASSUME FrameInv, stage = "decode", NEW n \in Nat, n < ProgramSize,
           NEW raw \in Feeds[feed].instrs[(programs - 1) * ProgramSize + n + 1]
    PROVE  raw \in RawInstr
  <1>1. feed \in DOMAIN Feeds /\ programs \in 1 .. ProgramCount
    BY DEF FrameInv
  <1>2. PICK p \in Nat : p = programs - 1 /\ p + 1 <= ProgramCount
    BY <1>1, DifferentialAssumption
  <1>3. ProgramCount \in Nat /\ ProgramSize \in Nat
    BY DifferentialAssumption
  <1>4. (p + 1) * ProgramSize <= ProgramCount * ProgramSize
    BY <1>2, <1>3
  <1>5. p * ProgramSize \in Nat /\ (p + 1) * ProgramSize = p * ProgramSize + ProgramSize /\ ProgramCount * ProgramSize \in Nat
    BY <1>3
  <1>6. PICK m \in Nat : m = p * ProgramSize
    BY <1>5
  <1>7. m + n + 1 \in 1 .. ProgramCount * ProgramSize
    BY <1>3, <1>4, <1>5, <1>6
  <1>8. (programs - 1) * ProgramSize + n + 1 = m + n + 1
    BY <1>2, <1>6
  <1>9. (programs - 1) * ProgramSize + n + 1 \in 1 .. ProgramCount * ProgramSize
    BY <1>7, <1>8
  <1> QED
    BY <1>1, <1>9, DifferentialAssumption

\* by decoding one instruction,
LEMMA DecodeKeeps == LockstepInv /\ Decode => LockstepInv'
  <1> SUFFICES ASSUME LockstepInv, Decode PROVE LockstepInv'
    OBVIOUS
  <1>1. FrameInv /\ ProgramInv /\ MachineInv /\ AddressInv
    BY DEF LockstepInv
  <1>2. PICK n \in Nat : n = Len(program.compact) /\ n = Len(program.reference) /\ n < ProgramSize
    BY <1>1 DEF ProgramInv, Decode
  <1>15. PICK usg \in [Reg -> -1 .. n - 1] : usg = usage.reference /\ usg = usage.compact
    BY <1>1, <1>2 DEF ProgramInv
  <1>16. PICK p \in Seq(ReferenceInstrs), q \in Seq(CompactInstrs) : p = program.reference /\ q = program.compact
    BY <1>1 DEF ProgramInv
  <1>3. PICK raw \in Feeds[feed].instrs[(programs - 1) * ProgramSize + n + 1] :
            LET r == ReferenceDecode(raw, n, usg)
                c == CompactDecode(raw, n, usg)
            IN  /\ usage' = [reference |-> r.usage, compact |-> c.usage]
                /\ program' = [reference |-> Append(p, r.instr), compact |-> Append(q, c.instr)]
    BY <1>2, <1>15, <1>16 DEF Decode
  <1>4. raw \in RawInstr
    BY <1>1, <1>2, DecodedIndex DEF Decode
  <1>5. PICK r, c : r = ReferenceDecode(raw, n, usg) /\ c = CompactDecode(raw, n, usg)
    OBVIOUS
  <1>6. /\ usage'.reference = r.usage /\ usage'.compact = c.usage
        /\ program'.reference = Append(p, r.instr) /\ program'.compact = Append(q, c.instr)
    BY <1>3, <1>5
  <1>7. <<raw, n, usg>> \in Contexts
    BY <1>4 DEF Contexts
  <1>8. r.instr \in ReferenceInstrs /\ c.instr \in CompactInstrs
    BY <1>5, <1>7 DEF ReferenceInstrs, CompactInstrs
  <1>9. r.usage = c.usage /\ c.usage \in [Reg -> -1 .. n]
    BY <1>4, <1>5, UsesAgree
  <1>10. SameDecoding(r.instr, c.instr, n)
    BY <1>4, <1>5 DEF SameDecoding
  <1>11. /\ Append(p, r.instr) \in Seq(ReferenceInstrs) /\ Append(q, c.instr) \in Seq(CompactInstrs)
         /\ Len(Append(p, r.instr)) = n + 1 /\ Len(Append(q, c.instr)) = n + 1
         /\ Append(p, r.instr)[n + 1] = r.instr /\ Append(q, c.instr)[n + 1] = c.instr
         /\ \A k \in 1 .. n : Append(p, r.instr)[k] = p[k] /\ Append(q, c.instr)[k] = q[k]
    <2>1. r.instr \in ReferenceInstrs /\ n = Len(p)
      BY <1>2, <1>8, <1>16
    <2>2. c.instr \in CompactInstrs /\ n = Len(q)
      BY <1>2, <1>8, <1>16
    <2>3. /\ Append(p, r.instr) \in Seq(ReferenceInstrs) /\ Len(Append(p, r.instr)) = n + 1
          /\ Append(p, r.instr)[n + 1] = r.instr /\ \A k \in 1 .. n : Append(p, r.instr)[k] = p[k]
      BY <2>1
    <2>4. /\ Append(q, c.instr) \in Seq(CompactInstrs) /\ Len(Append(q, c.instr)) = n + 1
          /\ Append(q, c.instr)[n + 1] = c.instr /\ \A k \in 1 .. n : Append(q, c.instr)[k] = q[k]
      BY <2>2
    <2> QED
      BY <2>3, <2>4, Zenon
  <1>12. FrameInv'
    BY <1>1 DEF FrameInv, Decode
  <1>13. ProgramInv'
    <2>1. ASSUME NEW k \in 1 .. n + 1
          PROVE  SameDecoding(program'.reference[k], program'.compact[k], k - 1)
      <3>1. CASE k = n + 1
        <4>1. k - 1 = n
          BY <3>1
        <4> QED
          BY <1>6, <1>10, <1>11, <3>1, <4>1
      <3>2. CASE k \in 1 .. n
        <4>1. SameDecoding(p[k], q[k], k - 1)
          BY <1>1, <1>2, <1>16, <3>2 DEF ProgramInv
        <4> QED
          BY <1>6, <1>11, <3>2, <4>1
      <3> QED
        BY <3>1, <3>2
    <2>2. n + 1 <= ProgramSize /\ (n + 1) - 1 = n
      BY <1>2, DifferentialAssumption
    <2>3. stage' = "decode" /\ Len(program'.compact) = n + 1 /\ Len(program'.reference) = n + 1
      BY <1>6, <1>11 DEF Decode
    <2>4. program'.reference \in Seq(ReferenceInstrs) /\ program'.compact \in Seq(CompactInstrs)
      BY <1>6, <1>11
    <2>5. usage'.reference = usage'.compact /\ usage'.compact \in [Reg -> -1 .. Len(program'.compact) - 1]
      BY <1>6, <1>9, <2>2, <2>3
    <2>6. \A k \in 1 .. Len(program'.compact) : SameDecoding(program'.reference[k], program'.compact[k], k - 1)
      BY <2>1, <2>3
    <2> QED
      BY <2>2, <2>3, <2>4, <2>5, <2>6 DEF ProgramInv
  <1>14. MachineInv' /\ AddressInv'
    BY <1>1 DEF MachineInv, AddressInv, Decode
  <1> QED
    BY <1>12, <1>13, <1>14 DEF LockstepInv

\* by init_vm,
LEMMA StartRunKeeps == LockstepInv /\ StartRun => LockstepInv'
  <1> SUFFICES ASSUME LockstepInv, StartRun PROVE LockstepInv'
    OBVIOUS
  <1>1. FrameInv'
    BY DEF LockstepInv, FrameInv, StartRun
  <1>2. ProgramInv'
    BY DEF LockstepInv, ProgramInv, StartRun
  <1>3. PICK v : v = vm.compact /\ v = vm.reference /\ Running(v)
    BY DEF LockstepInv, MachineInv, StartRun
  <1>4. entropy \in Entropy
    BY EntropyTypes DEF LockstepInv, FrameInv
  <1>5. PICK w : w = ReferenceInit(v, entropy) /\ w = CompactInit(v, entropy)
    BY SameInit
  <1>6. Running(w) /\ w.mx % HalfRange \in Nat /\ w.ma % HalfRange \in Nat
    BY <1>3, <1>4, <1>5, InitRunning
  <1>7. vm'.reference = w /\ vm'.compact = w /\ stage' = "prepare"
    BY <1>3, <1>5 DEF StartRun, Side
  <1>8. MachineInv'
    BY <1>6, <1>7 DEF MachineInv, Running
  <1>9. /\ addr'.reference = <<w.mx % HalfRange, w.ma % HalfRange>>
        /\ addr'.compact = <<w.mx % HalfRange, w.ma % HalfRange>>
    BY <1>7 DEF StartRun, Side
  <1>10. AddressInv'
    BY <1>6, <1>7, <1>9 DEF AddressInv
  <1> QED
    BY <1>1, <1>2, <1>8, <1>10 DEF LockstepInv

\* by prepare_iteration,
LEMMA PrepareKeeps == LockstepInv /\ Prepare => LockstepInv'
  <1> SUFFICES ASSUME LockstepInv, Prepare PROVE LockstepInv'
    OBVIOUS
  <1>1. FrameInv'
    BY DEF LockstepInv, FrameInv, Prepare
  <1>2. ProgramInv'
    BY DEF LockstepInv, ProgramInv, Prepare
  <1>3. PICK v : v = vm.compact /\ v = vm.reference /\ Running(v)
    BY DEF LockstepInv, MachineInv, Prepare
  <1>4. PICK a \in Nat \X Nat : a = addr.compact /\ a = addr.reference
    BY DEF LockstepInv, AddressInv
  <1>5. PICK b \in Lines \X Lines : b = SpAddresses(v, a[1], a[2])
    BY <1>3, AddressLines DEF Running
  <1>6. addr'.reference = b /\ addr'.compact = b /\ stage' = "execute"
    BY <1>3, <1>4, <1>5 DEF Prepare, Side
  <1>7. PICK w : w = PrepareIteration(v, b)
    OBVIOUS
  <1>8. Running(w) /\ w.pc = 0
    BY <1>3, <1>7, PrepareRunning
  <1>9. vm'.reference = w /\ vm'.compact = w
    BY <1>3, <1>6, <1>7 DEF Prepare, Side
  <1>10. MachineInv'
    BY <1>6, <1>8, <1>9, DifferentialAssumption DEF MachineInv, Running
  <1>11. AddressInv'
    BY <1>6 DEF AddressInv, Lines
  <1> QED
    BY <1>1, <1>2, <1>10, <1>11 DEF LockstepInv

\* What the two interpreters do with the instruction at the program counter.
LEMMA VerifiedStep ==
    ASSUME LockstepInv, stage = "execute", vm.reference.pc < ProgramSize
    PROVE  LET v == vm.compact
               pc == v.pc
           IN  /\ pc \in Nat /\ pc < ProgramSize /\ Running(v)
               /\ Verified(v, program.reference[pc + 1], program.compact[pc + 1], pc)
  <1>1. PICK v : v = vm.compact /\ v = vm.reference /\ Running(v)
    BY DEF LockstepInv, MachineInv
  <1>2. PICK pc \in Nat : pc = v.pc /\ pc < ProgramSize
    BY <1>1, DifferentialAssumption DEF LockstepInv, MachineInv
  <1>3. pc + 1 \in 1 .. Len(program.compact) /\ (pc + 1) - 1 = pc
    BY <1>2, DifferentialAssumption DEF LockstepInv, ProgramInv
  <1>4. PICK r, c : r = program.reference[pc + 1] /\ c = program.compact[pc + 1]
    OBVIOUS
  <1>5. SameDecoding(r, c, pc)
    <2>1. SameDecoding(program.reference[pc + 1], program.compact[pc + 1], (pc + 1) - 1)
      BY <1>3 DEF LockstepInv, ProgramInv
    <2> QED
      BY <1>3, <1>4, <2>1
  <1>6. PICK raw \in RawInstr, usg \in [Reg -> -1 .. pc - 1] :
            r = ReferenceDecode(raw, pc, usg).instr /\ c = CompactDecode(raw, pc, usg).instr
    BY <1>5 DEF SameDecoding
  <1>7. Verified(v, r, c, pc)
    BY <1>1, <1>6, AllVerified
  <1> QED
    BY <1>1, <1>2, <1>4, <1>7

\* Incrementing the program counter.
LEMMA Stepped ==
    ASSUME NEW x, Running(x), NEW y, y = [x EXCEPT !.pc = @ + 1]
    PROVE  Running(y) /\ y.pc = x.pc + 1 /\ y.host = x.host /\ OnHost(y, x.host) = y
  <1>1. x \in Machine /\ x.host = x.mode
    BY DEF Running
  <1>2. PICK n \in Int : n = x.pc + 1
    BY <1>1 DEF Machine
  <1>3. y = [x EXCEPT !.pc = n]
    BY <1>2
  <1>4. y \in Machine /\ y.host = x.host /\ y.mode = x.mode /\ y.pc = n
    BY <1>1, <1>3 DEF Machine
  <1>5. OnHost(y, y.host) = y
    BY <1>4, SameHost
  <1> QED
    BY <1>1, <1>2, <1>4, <1>5 DEF Running

\* by one instruction on each machine, the second on the host the first left,
LEMMA ExecuteKeeps == LockstepInv /\ Execute => LockstepInv'
  <1> SUFFICES ASSUME LockstepInv, Execute PROVE LockstepInv'
    OBVIOUS
  <1>1. FrameInv' /\ ProgramInv' /\ AddressInv'
    BY DEF LockstepInv, FrameInv, ProgramInv, AddressInv, Execute
  <1>2. PICK v : v = vm.compact /\ v = vm.reference /\ Running(v)
    BY DEF LockstepInv, MachineInv, Execute
  <1>3. PICK pc \in Nat : pc = v.pc /\ pc < ProgramSize
    BY <1>2, VerifiedStep DEF Execute
  <1>4. PICK r, c : r = program.reference[pc + 1] /\ c = program.compact[pc + 1]
    OBVIOUS
  <1>5. Lockstep(v, r, c, pc)
    BY <1>2, <1>3, <1>4, VerifiedStep DEF Verified, Execute
  <1>6. PICK x : x = ReferenceExec(v, r)
    OBVIOUS
  <1>7. Running(x) /\ CompactExec(OnHost(v, x.host), c) = x /\ (x.pc = pc \/ x.pc \in -1 .. pc - 1)
    BY <1>3, <1>5, <1>6 DEF Lockstep
  <1>8. PICK y : y = [x EXCEPT !.pc = @ + 1]
    OBVIOUS
  <1>9. Running(y) /\ y.pc = x.pc + 1 /\ OnHost(y, x.host) = y
    BY <1>7, <1>8, Stepped
  <1>10. vm'.reference = OnHost(y, x.host) /\ vm'.compact = y
    BY <1>2, <1>3, <1>4, <1>6, <1>7, <1>8 DEF Execute
  <1>11. y.pc \in 0 .. ProgramSize
    BY <1>3, <1>7, <1>9, DifferentialAssumption
  <1>12. MachineInv'
    BY <1>9, <1>10, <1>11 DEF MachineInv, Running
  <1> QED
    BY <1>1, <1>12 DEF LockstepInv

\* by finish_iteration,
LEMMA FinishKeeps == LockstepInv /\ Finish => LockstepInv'
  <1> SUFFICES ASSUME LockstepInv, Finish PROVE LockstepInv'
    OBVIOUS
  <1>1. stage = "execute" /\ (stage' = "prepare" \/ stage' = "finished")
    BY DEF Finish
  <1>2. FrameInv'
    BY <1>1 DEF LockstepInv, FrameInv, Finish
  <1>3. ProgramInv'
    BY <1>1 DEF LockstepInv, ProgramInv, Finish
  <1>4. PICK v : v = vm.compact /\ v = vm.reference /\ Running(v)
    BY <1>1 DEF LockstepInv, MachineInv
  <1>5. PICK a \in Lines \X Lines : a = addr.compact /\ a = addr.reference
    BY <1>1 DEF LockstepInv, AddressInv
  <1>6. PICK w : w = FinishIteration(v, a)
    OBVIOUS
  <1>7. Running(w)
    BY <1>4, <1>6, FinishRunning
  <1>8. vm'.reference = w /\ vm'.compact = w
    BY <1>4, <1>5, <1>6 DEF Finish, Side
  <1>9. MachineInv'
    BY <1>1, <1>7, <1>8 DEF MachineInv, Running
  <1>10. AddressInv'
    BY <1>1, BothSides DEF AddressInv, Finish
  <1> QED
    BY <1>2, <1>3, <1>9, <1>10 DEF LockstepInv

\* by going on to the next program,
LEMMA NextProgramKeeps == LockstepInv /\ NextProgram => LockstepInv'
  <1> SUFFICES ASSUME LockstepInv, NextProgram PROVE LockstepInv'
    OBVIOUS
  <1>1. stage = "finished" /\ stage' = "decode"
    BY DEF NextProgram
  <1>2. FrameInv'
    <2>1. programs + 1 \in 1 .. ProgramCount
      BY <1>1, DifferentialAssumption DEF LockstepInv, FrameInv, NextProgram
    <2> QED
      BY <2>1 DEF LockstepInv, FrameInv, NextProgram
  <1>3. ProgramInv'
    <2>1. program'.reference = <<>> /\ program'.compact = <<>> /\ usage'.reference = NoUsage /\ usage'.compact = NoUsage
      BY BothSides DEF NextProgram
    <2>2. Len(program'.compact) = 0 /\ Len(program'.reference) = 0 /\ Len(program'.compact) - 1 = -1
      BY <2>1
    <2>3. program'.reference \in Seq(ReferenceInstrs) /\ program'.compact \in Seq(CompactInstrs)
      BY <2>1
    <2>4. NoUsage \in [Reg -> -1 .. -1]
      BY DEF NoUsage
    <2>5. usage'.compact \in [Reg -> -1 .. Len(program'.compact) - 1]
      BY <2>1, <2>2, <2>4
    <2>6. \A k \in 1 .. Len(program'.compact) : SameDecoding(program'.reference[k], program'.compact[k], k - 1)
      BY <2>2
    <2> QED
      BY <1>1, <2>1, <2>2, <2>3, <2>5, <2>6, DifferentialAssumption DEF ProgramInv
  <1>4. MachineInv' /\ AddressInv'
    BY <1>1 DEF LockstepInv, MachineInv, AddressInv, NextProgram
  <1> QED
    BY <1>2, <1>3, <1>4 DEF LockstepInv

\* by the final hash,
LEMMA FinishHashKeeps == LockstepInv /\ FinishHash => LockstepInv'
  <1> SUFFICES ASSUME LockstepInv, FinishHash PROVE LockstepInv'
    OBVIOUS
  <1>1. stage = "finished" /\ stage' = "hashed"
    BY DEF FinishHash
  <1>2. FrameInv' /\ ProgramInv' /\ AddressInv'
    BY <1>1 DEF LockstepInv, FrameInv, ProgramInv, AddressInv, FinishHash
  <1>3. PICK v : v = vm.compact /\ v = vm.reference /\ Running(v) /\ v \in Machine
    BY <1>1 DEF LockstepInv, MachineInv
  <1>4. PICK a \in [FloatReg -> Pair] : a = FinalHash(v.sp)
    <2>1. v.sp \in [Scratch -> Word]
      BY <1>3 DEF Machine
    <2>2. ASSUME NEW i \in FloatReg PROVE <<v.sp[2 * i], v.sp[2 * i + 1]>> \in Pair
      <3>1. 2 * i \in 0 .. 7 /\ 2 * i + 1 \in 0 .. 7
        BY DEF FloatReg, MaxFloat
      <3>2. 2 * i \in Scratch /\ 2 * i + 1 \in Scratch
        BY <3>1, ScratchLines DEF Scratch
      <3> QED
        BY <2>1, <3>2 DEF Pair
    <2> QED
      BY <2>2 DEF FinalHash
  <1>5. PICK w : w = [v EXCEPT !.a = a]
    OBVIOUS
  <1>6. w \in Machine /\ w.host = v.host /\ w.mode = v.mode
    BY <1>3, <1>5 DEF Machine
  <1>7. vm'.reference = w /\ vm'.compact = w
    BY <1>3, <1>4, <1>5 DEF FinishHash, Side
  <1>8. MachineInv'
    BY <1>1, <1>3, <1>6, <1>7 DEF MachineInv, Running
  <1> QED
    BY <1>2, <1>8 DEF LockstepInv

\* and by doing nothing.
LEMMA UnchangedKeeps == LockstepInv /\ UNCHANGED vars => LockstepInv'
  BY DEF LockstepInv, FrameInv, ProgramInv, MachineInv, AddressInv, vars

\* The inductive invariant: the machines are equal and typed, whichever ran last,
\* and every pair of decoded instructions comes from the same raw one.
THEOREM LockstepInvariant == Spec => []LockstepInv
  <1>1. LockstepInv /\ [Next]_vars => LockstepInv'
    BY StartKeeps, DecodeKeeps, StartRunKeeps, PrepareKeeps, ExecuteKeeps, FinishKeeps,
       NextProgramKeeps, FinishHashKeeps, UnchangedKeeps DEF Next, Returned
  <1> QED
    BY <1>1, InitLockstep, PTL DEF Spec

\* Two interpreters that were written independently never differ: whatever the
\* programs, the entropy and the caller's rounding mode, at every size of words,
\* scratchpad, dataset and program.
THEOREM AlwaysAgree == Spec => []Agreement
  <1>1. LockstepInv => Agreement
    <2> SUFFICES ASSUME LockstepInv PROVE Agreement
      OBVIOUS
    <2>1. vm.reference = vm.compact /\ usage.reference = usage.compact
      BY DEF LockstepInv, MachineInv, ProgramInv
    <2> QED
      BY <2>1, Zenon DEF Agreement
  <1> QED
    BY <1>1, LockstepInvariant, PTL

\* From reset_rounding_mode on, the control register holds the mode of both
\* machines, although each of them is written by CFROUND on its own.
THEOREM HostModeAlwaysCurrent == Spec => []HostModeCurrent
  <1>1. LockstepInv => HostModeCurrent
    BY DEF LockstepInv, MachineInv, Running, HostModeCurrent, Side
  <1> QED
    BY <1>1, LockstepInvariant, PTL

\* Instructions of the invariant have operands in range.
LEMMA LockstepOperands == LockstepInv => OperandsInRange
  <1> SUFFICES ASSUME LockstepInv, stage = "execute", vm.reference.pc < ProgramSize
               PROVE  /\ NeverPanics(program.reference[vm.reference.pc + 1])
                      /\ AccessesAsserted(vm.compact, program.compact[vm.compact.pc + 1])
                      /\ \A s \in Side : vm[s].mode \in 0 .. 3
    BY DEF OperandsInRange
  <1>1. vm.reference = vm.compact /\ vm.compact \in Machine
    BY DEF LockstepInv, MachineInv
  <1>2. /\ NeverPanics(program.reference[vm.compact.pc + 1])
        /\ AccessesAsserted(vm.compact, program.compact[vm.compact.pc + 1])
    BY VerifiedStep DEF Verified
  <1>3. vm.compact.mode \in 0 .. 3
    BY <1>1 DEF Machine
  <1>4. \A s \in Side : vm[s].mode \in 0 .. 3
    BY <1>1, <1>3 DEF Side
  <1> QED
    BY <1>1, <1>2, <1>4

\* Lines of the invariant are in range.
LEMMA LockstepLines == LockstepInv => LinesInRange
  <1> SUFFICES ASSUME LockstepInv, stage = "execute" PROVE LinesInRange
    BY DEF LinesInRange
  <1>1. PICK a \in Lines \X Lines : a = addr.compact /\ a = addr.reference
    BY DEF LockstepInv, AddressInv
  <1>2. PICK v \in Machine : v = vm.compact /\ v = vm.reference
    BY DEF LockstepInv, MachineInv
  <1>3. \A k \in 1 .. 2 : a[k] % MaxReg = 0 /\ a[k] + MaxReg <= ScratchWords
    BY DEF Lines, MaxReg
  <1>4. /\ DatasetAddress(v) % LineSize = 0
        /\ DatasetAddress(v) \div LineSize < BaseSize \div LineSize + ExtraItems
    BY ItemInRange
  <1>5. \A s \in Side : addr[s] = a /\ vm[s] = v
    BY <1>1, <1>2 DEF Side
  <1> QED
    BY <1>3, <1>4, <1>5, SMT DEF LinesInRange

\* No access that the interpreters make without a check can miss: operands,
\* scratchpad offsets, the lines of an iteration and the dataset item.
THEOREM AccessesAlwaysSafe == Spec => []AccessesSafe
  <1>1. LockstepInv => AccessesSafe
    BY LockstepOperands, LockstepLines DEF AccessesSafe
  <1> QED
    BY <1>1, LockstepInvariant, PTL

\* The doubling loop of randomx_reciprocal gives the reciprocal that RandomX
\* defines for every divisor of every width.
THEOREM ReciprocalAlwaysExact == Spec => []ReciprocalExact
  <1>1. LockstepInv => ReciprocalExact
    <2> SUFFICES ASSUME LockstepInv, NEW k \in DOMAIN program.reference
                 PROVE  ExactReciprocal(program.reference[k])
      BY DEF ReciprocalExact, ExactReciprocal
    <2>1. PICK v : Running(v)
      BY ResetRunning DEF LockstepInv, MachineInv
    <2>2. k \in 1 .. Len(program.compact)
      BY DEF LockstepInv, ProgramInv
    <2>3. PICK r, c, i : r = program.reference[k] /\ c = program.compact[k] /\ i = k - 1
      OBVIOUS
    <2>4. SameDecoding(r, c, i)
      BY <2>2, <2>3 DEF LockstepInv, ProgramInv
    <2>5. PICK raw \in RawInstr, usg \in [Reg -> -1 .. i - 1] :
              r = ReferenceDecode(raw, i, usg).instr /\ c = CompactDecode(raw, i, usg).instr
      BY <2>4 DEF SameDecoding
    <2>6. i \in Nat
      BY <2>2, <2>3 DEF LockstepInv, ProgramInv
    <2>7. Verified(v, r, c, i)
      BY <2>1, <2>5, <2>6, AllVerified
    <2> QED
      BY <2>3, <2>7 DEF Verified
  <1> QED
    BY <1>1, LockstepInvariant, PTL
=============================================================================
