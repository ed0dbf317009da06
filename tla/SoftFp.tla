------------------------------- MODULE SoftFp -------------------------------
(***************************************************************************)
(* randomx_softfp (softfp/src/lib.rs): directed rounding obtained from a   *)
(* correctly rounded nearest result and the side of it on which the exact  *)
(* result lies.  Values are bit patterns, as in the source, of a binary    *)
(* format with ExpBits and FracBits bits; a u128 has WideBits bits and the *)
(* operands of an addition are aligned when their scales are at most       *)
(* Cutoff apart.                                                           *)
(***************************************************************************)
EXTENDS Integers

CONSTANTS FracBits,     \* 52
          ExpBits,      \* 11
          WideBits,     \* 128
          Cutoff        \* 75

\* A product of two significands and an aligned sum fit in a u128, and what
\* lies beyond the cutoff is less than a quarter of the last place.
ASSUME FormatAssumption ==
    /\ {FracBits, ExpBits, WideBits, Cutoff} \subseteq Nat \ {0}
    /\ WideBits >= 2 * (FracBits + 1)
    /\ WideBits >= Cutoff + FracBits + 1
    /\ Cutoff >= FracBits + 2

SIGN_MASK == 2 ^ (ExpBits + FracBits)
EXP_MASK  == (2 ^ ExpBits - 1) * 2 ^ FracBits
Bias      == 2 ^ (ExpBits - 1) - 1
Bits      == 0 .. 2 * SIGN_MASK - 1
Modes     == {"Nearest", "Down", "Up", "TowardZero"}

Abs(bits)        == bits % SIGN_MASK
Negative(bits)   == bits >= SIGN_MASK
Negate(bits)     == (bits + SIGN_MASK) % (2 * SIGN_MASK)     \* ^ SIGN_MASK
Signed(neg, abs) == IF neg THEN SIGN_MASK + abs ELSE abs
is_infinite(bits) == Abs(bits) = EXP_MASK
Field(bits)      == Abs(bits) \div 2 ^ FracBits

magnitude(bits) ==
    LET fraction == bits % 2 ^ FracBits
    IN  IF Field(bits) = 0
        THEN [coefficient |-> fraction, scale |-> 1 - Bias - FracBits]
        ELSE [coefficient |-> fraction + 2 ^ FracBits, scale |-> Field(bits) - Bias - FracBits]

cmp(x, y) == IF x < y THEN "Less" ELSE IF x = y THEN "Equal" ELSE "Greater"
reverse(ordering) ==
    CASE ordering = "Less" -> "Greater" [] ordering = "Equal" -> "Equal"
      [] ordering = "Greater" -> "Less"
reverse_if_negative(ordering, negative) == IF negative THEN reverse(ordering) ELSE ordering

\* << on a u128: bits beyond the width are lost.
Shl(coefficient, shift) == (coefficient * 2 ^ shift) % 2 ^ WideBits

compare_nearby_scaled(a, b) ==
    IF a.coefficient = 0 \/ b.coefficient = 0 THEN cmp(a.coefficient, b.coefficient)
    ELSE IF a.scale >= b.scale
         THEN cmp(Shl(a.coefficient, a.scale - b.scale), b.coefficient)
         ELSE cmp(a.coefficient, Shl(b.coefficient, b.scale - a.scale))

multiply_magnitudes(a, b) ==
    [coefficient |-> a.coefficient * b.coefficient, scale |-> a.scale + b.scale]

next_up(bits) ==
    IF Abs(bits) = 0 THEN 1 ELSE IF Negative(bits) THEN bits - 1 ELSE bits + 1
next_down(bits) ==
    IF Abs(bits) = 0 THEN SIGN_MASK + 1 ELSE IF Negative(bits) THEN bits + 1 ELSE bits - 1

\* relation compares the exact result with the nearest one.
apply_mode(nearest, relation, exact_negative, mode) ==
    CASE /\ relation = "Less"
         /\ mode = "Down" \/ (mode = "TowardZero" /\ ~exact_negative) -> next_down(nearest)
      [] /\ relation = "Greater"
         /\ mode = "Up" \/ (mode = "TowardZero" /\ exact_negative) -> next_up(nearest)
      [] OTHER -> nearest

\* An overflow to infinity, for a nearest result that is infinite.
directed_overflow(nearest, mode) ==
    apply_mode(nearest, IF Negative(nearest) THEN "Greater" ELSE "Less", Negative(nearest), mode)

-----------------------------------------------------------------------------
(* What the operations compute, defined from the order of the              *)
(* representable values alone.  An exact result is a sign and a predicate: *)
(* how its magnitude compares with a coefficient at a scale.               *)

Larger(x, y) == IF x >= y THEN x ELSE y

\* c1 * 2^s1 against c2 * 2^s2, for coefficients below 2^30.
CompareScaled(c1, s1, c2, s2) ==
    LET shifted(c, k, d) ==         \* c * 2^k against d
            LET q == d \div 2 ^ k
            IN  IF k > 30 THEN "Greater"
                ELSE IF c = q /\ q * 2 ^ k # d THEN "Less" ELSE cmp(c, q)
    IN  IF c1 = 0 \/ c2 = 0 THEN cmp(c1, c2)
        ELSE IF s1 >= s2 THEN shifted(c1, s1 - s2, c2)
        ELSE reverse(shifted(c2, s2 - s1, c1))

\* The exact a + b, as a multiple of 2^scale.
ExactSum(a, b) ==
    LET ma == magnitude(a)
        mb == magnitude(b)
        low == IF mb.coefficient = 0 \/ (ma.coefficient # 0 /\ ma.scale <= mb.scale)
               THEN ma.scale ELSE mb.scale
        multiple(m, neg) ==
            IF m.coefficient = 0 THEN 0
            ELSE (IF neg THEN -1 ELSE 1) * m.coefficient * 2 ^ (m.scale - low)
    IN  [n |-> multiple(ma, Negative(a)) + multiple(mb, Negative(b)), scale |-> low]

\* The magnitude of an exact result: a coefficient at a scale, over a divisor.
ExactMagnitude(op, a, b) ==
    LET ma == magnitude(a)
        mb == magnitude(b)
        sum == ExactSum(a, b)
    IN  CASE op = "add" -> [num |-> IF sum.n < 0 THEN 0 - sum.n ELSE sum.n,
                            scale |-> sum.scale, den |-> 1]
          [] op = "mul" -> [num |-> ma.coefficient * mb.coefficient,
                            scale |-> ma.scale + mb.scale, den |-> 1]
          [] op = "div" -> [num |-> ma.coefficient,
                            scale |-> ma.scale - mb.scale, den |-> mb.coefficient]
          [] op = "sqrt" -> [num |-> ma.coefficient, scale |-> ma.scale, den |-> 1]

\* An exact result against c * 2^s; that of a square root through its square.
Against(op, exact, c, s) ==
    IF op = "sqrt" THEN CompareScaled(exact.num, exact.scale, c * c, 2 * s)
    ELSE CompareScaled(exact.num, exact.scale, c * exact.den, s)

\* The sign of an exact result, that of an exact zero included.
ExactNegative(op, a, b, mode) ==
    CASE op = "add" ->
           LET n == ExactSum(a, b).n
           IN  IF n # 0 THEN n < 0
               ELSE IF Negative(a) = Negative(b) THEN Negative(a) ELSE mode = "Down"
      [] op \in {"mul", "div"} -> Negative(a) # Negative(b)
      [] op = "sqrt" -> Negative(a)

\* The largest representable magnitude that is not above the exact one, by
\* bisection: magnitudes are ordered as their bits are.  Infinity stands for
\* the power of two after the largest finite value.
Below(op, exact) ==
    LET atMost(m) == Against(op, exact, magnitude(m).coefficient, magnitude(m).scale) # "Less"
        search[k \in 0 .. ExpBits + FracBits] ==    \* with the k lowest bits still zero
            IF k = ExpBits + FracBits THEN 0
            ELSE LET found == search[k + 1]
                     next  == found + 2 ^ k
                 IN  IF next <= EXP_MASK /\ atMost(next) THEN next ELSE found
    IN  search[0]

\* The IEEE rounding of an exact result to a magnitude: the neighbour on the
\* side the mode asks for, or the nearer one and the even one of two.
RoundFrom(op, value, below, negative, mode) ==
    LET m     == magnitude(below)
        exact == Against(op, value, m.coefficient, m.scale) = "Equal"
        half  == Against(op, value, 2 * m.coefficient + 1, m.scale - 1)
        outward == mode = (IF negative THEN "Down" ELSE "Up")
        nearer  == half = "Greater" \/ (half = "Equal" /\ below % 2 = 1)
    IN  IF below = EXP_MASK
        THEN IF mode = "Nearest" \/ outward THEN EXP_MASK ELSE EXP_MASK - 1
        ELSE IF exact THEN below
        ELSE IF (mode = "Nearest" /\ nearer) \/ outward THEN below + 1 ELSE below

RoundMagnitude(op, value, negative, mode) ==
    RoundFrom(op, value, Below(op, value), negative, mode)

\* The correctly rounded result, infinite operands included.
Reference(op, a, b, mode) ==
    LET negative == ExactNegative(op, a, b, mode)
    IN  CASE op = "add" /\ is_infinite(a) -> a
          [] op = "add" /\ is_infinite(b) /\ ~is_infinite(a) -> b
          [] op = "div" /\ is_infinite(b) -> Signed(Negative(a) # Negative(b), 0)
          [] \/ op \in {"mul", "sqrt"} /\ is_infinite(a)
             \/ op = "div" /\ is_infinite(a) /\ ~is_infinite(b)
             \/ op = "mul" /\ is_infinite(b) ->
               Signed(negative, EXP_MASK)
          [] OTHER -> Signed(negative, RoundMagnitude(op, ExactMagnitude(op, a, b), negative, mode))

-----------------------------------------------------------------------------
(* The operations of the source.                                           *)

\* nearest::add and its siblings: the target's nearest-even helpers.
nearest(op, a, b) == Reference(op, a, b, "Nearest")

\* Mutant: the small operand is dropped when it is beyond the cutoff.
sum_relation_drops_tail(big, small, same_sign, rounded) ==
    LET distance == big.scale - small.scale
        aligned  == Shl(big.coefficient, distance)
        exact    == [coefficient |-> IF same_sign THEN aligned + small.coefficient
                                                  ELSE aligned - small.coefficient,
                     scale |-> small.scale]
    IN  IF distance <= Cutoff THEN compare_nearby_scaled(exact, magnitude(rounded)) ELSE "Equal"

\* The magnitude of a sum of nonzero operands against the nearest result.
sum_relation(big, small, same_sign, rounded) ==
    LET distance == big.scale - small.scale
        aligned  == Shl(big.coefficient, distance)
        exact    == [coefficient |-> IF same_sign THEN aligned + small.coefficient
                                                  ELSE aligned - small.coefficient,
                     scale |-> small.scale]
    IN  IF distance <= Cutoff THEN compare_nearby_scaled(exact, magnitude(rounded))
        ELSE IF same_sign THEN "Greater" ELSE "Less"

\* Mutant: the scale alone decides.
add_ordered_by_scale(a, b) ==
    IF magnitude(a).scale >= magnitude(b).scale THEN <<a, b>> ELSE <<b, a>>

\* The larger operand first: by scale when the signs agree, by bits otherwise.
add_ordered(a, b) ==
    IF (IF Negative(a) = Negative(b) THEN magnitude(a).scale >= magnitude(b).scale
                                     ELSE Abs(a) > Abs(b))
    THEN <<a, b>> ELSE <<b, a>>

add_inner(a, b, near, mode) ==
    LET o    == add_ordered(a, b)
        same == Negative(a) = Negative(b)
        cancels == ~same /\ Abs(a) = Abs(b)
        exact   == Abs(a) = 0 \/ Abs(b) = 0 \/ cancels
        negative == IF exact THEN ~cancels /\ Negative(near) ELSE Negative(o[1])
        relation ==
            IF exact THEN "Equal"
            ELSE reverse_if_negative(
                     sum_relation(magnitude(o[1]), magnitude(o[2]), same, near), negative)
    IN  IF is_infinite(a) \/ is_infinite(b) THEN near
        ELSE IF is_infinite(near) THEN directed_overflow(near, mode)
        ELSE IF Abs(near) = 0 /\ relation = "Equal" /\ ~same /\ mode = "Down" THEN SIGN_MASK
        ELSE apply_mode(near, relation, negative, mode)

mul_inner(a, b, near, mode) ==
    LET negative == Negative(a) # Negative(b)
        relation == compare_nearby_scaled(multiply_magnitudes(magnitude(a), magnitude(b)),
                                          magnitude(near))
    IN  IF is_infinite(a) \/ is_infinite(b) THEN near
        ELSE IF is_infinite(near) THEN directed_overflow(near, mode)
        ELSE apply_mode(near, reverse_if_negative(relation, negative), negative, mode)

\* The quotient is compared through its product with the divisor.
div_inner(a, b, near, mode) ==
    LET negative == Negative(a) # Negative(b)
        relation == compare_nearby_scaled(magnitude(a),
                                          multiply_magnitudes(magnitude(near), magnitude(b)))
    IN  IF is_infinite(a) \/ is_infinite(b) THEN near
        ELSE IF is_infinite(near) THEN directed_overflow(near, mode)
        ELSE apply_mode(near, reverse_if_negative(relation, negative), negative, mode)

sqrt_inner(a, near, mode) ==
    LET relation == compare_nearby_scaled(magnitude(a),
                                          multiply_magnitudes(magnitude(near), magnitude(near)))
    IN  IF is_infinite(a) THEN near ELSE apply_mode(near, relation, FALSE, mode)

\* A directed mode, given the nearest result.
directed(op, a, b, near, mode) ==
    CASE op = "add"  -> add_inner(a, b, near, mode)
      [] op = "mul"  -> mul_inner(a, b, near, mode)
      [] op = "div"  -> div_inner(a, b, near, mode)
      [] op = "sqrt" -> sqrt_inner(a, near, mode)

\* add, mul, div and sqrt, and each lane of add2 ... sqrt2; sub adds the
\* negated operand.
soft(op, a, b, mode) ==
    IF mode = "Nearest" THEN nearest(op, a, b) ELSE directed(op, a, b, nearest(op, a, b), mode)

-----------------------------------------------------------------------------
(* What the source asserts in debug builds or takes for granted.           *)

\* Coefficients are u128 values; no comparison shifts by the width or more,
\* or loses bits.
CompareAsserted(a, b) ==
    LET shift == Larger(a.scale, b.scale) - (IF a.scale <= b.scale THEN a.scale ELSE b.scale)
        moved == IF a.scale >= b.scale THEN a.coefficient ELSE b.coefficient
    IN  /\ {a.coefficient, b.coefficient} \subseteq 0 .. 2 ^ WideBits - 1
        /\ a.coefficient # 0 /\ b.coefficient # 0 =>
             shift < WideBits /\ moved < 2 ^ (WideBits - shift)

AddAsserted(a, b, near) ==
    LET o    == add_ordered(a, b)
        big  == magnitude(o[1])
        small == magnitude(o[2])
        same == Negative(a) = Negative(b)
        distance == big.scale - small.scale
        aligned  == big.coefficient * 2 ^ distance
    IN  IF is_infinite(a) \/ is_infinite(b) THEN is_infinite(near)
        ELSE \/ is_infinite(near) \/ Abs(a) = 0 \/ Abs(b) = 0
             \/ ~same /\ Abs(a) = Abs(b)
             \/ /\ distance >= 0
                /\ IF distance <= Cutoff
                   THEN /\ aligned < 2 ^ WideBits
                        /\ CompareAsserted(
                             [coefficient |-> IF same THEN aligned + small.coefficient
                                                      ELSE aligned - small.coefficient,
                              scale |-> small.scale], magnitude(near))
                   ELSE magnitude(near) = big

MulAsserted(a, b, near) ==
    IF is_infinite(a) \/ is_infinite(b) THEN is_infinite(near)
    ELSE \/ is_infinite(near)
         \/ CompareAsserted(multiply_magnitudes(magnitude(a), magnitude(b)), magnitude(near))

DivAsserted(a, b, near) ==
    /\ Abs(b) # 0
    /\ \/ is_infinite(a) \/ is_infinite(b) \/ is_infinite(near)
       \/ CompareAsserted(magnitude(a), multiply_magnitudes(magnitude(near), magnitude(b)))

SqrtAsserted(a, near) ==
    /\ ~Negative(a) \/ Abs(a) = 0
    /\ \/ is_infinite(a)
       \/ CompareAsserted(magnitude(a), multiply_magnitudes(magnitude(near), magnitude(near)))

\* The assertions of an operation, given its nearest result.
Asserted(op, a, b, near) ==
    CASE op = "add"  -> AddAsserted(a, b, near)
      [] op = "mul"  -> MulAsserted(a, b, near)
      [] op = "div"  -> DivAsserted(a, b, near)
      [] op = "sqrt" -> SqrtAsserted(a, near)
=============================================================================
