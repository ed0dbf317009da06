----------------------------- MODULE FloatGroups -----------------------------
(***************************************************************************)
(* The floating-point registers of a RandomX program and the values they   *)
(* can reach: group F (additive, loaded from 32-bit integers) and group E  *)
(* (multiplicative, loaded with a masked exponent), with sources from      *)
(* group A and from the scratchpad (randomx-sp1/src/lib.rs and             *)
(* randomx-core/src/vm.rs).  One value is followed.  It sits in one of the  *)
(* two lanes of a register, and FSWAP_R moves it to the other: group E has *)
(* a mask for each lane, so from then on it meets operands of the other    *)
(* mask than the one it was loaded with.                                   *)
(***************************************************************************)
EXTENDS SoftFp

CONSTANTS IntBits,          \* 32: the width of the integers in the scratchpad
          AExpBits,         \* 5: exponents of group A, from entropy >> 59
          StaticBits,       \* STATIC_EXPONENT_BITS: 4
          DynamicBits,      \* DYNAMIC_EXPONENT_BITS: 4
          ExponentBits,     \* EXPONENT_BITS: 0x300
          MaskBits,         \* 22: the entropy bits in the mantissa mask
          MaxOps            \* bound: operations on the register in an iteration

ASSUME GroupAssumption ==
    /\ {IntBits, AExpBits, StaticBits, DynamicBits, ExponentBits, MaskBits, MaxOps} \subseteq Nat
    /\ IntBits <= FracBits + 2          \* i32 as f64 is exact

VARIABLES
    e_mask,     \* the masks, from the program's entropy, of the lane the value is
                \* in and of the other one; 0 in group F
    group,      \* "F" or "E"
    x,          \* the value's bits
    mode,       \* fprc
    ops         \* operations since the iteration began

vars == <<e_mask, group, x, mode, ops>>

Fraction == 0 .. 2 ^ FracBits - 1

\* i32 as f64, of lower_to_m128d.
FromInt(n) ==
    LET m == IF n < 0 THEN 0 - n ELSE n
        top == CHOOSE k \in 0 .. IntBits - 1 : 2 ^ k <= m /\ m < 2 ^ (k + 1)
    IN  IF n = 0 THEN 0
        ELSE Signed(n < 0, (Bias + top) * 2 ^ FracBits
                             + (m * 2 ^ FracBits) \div 2 ^ top - 2 ^ FracBits)
Ints == {FromInt(n) : n \in 0 - 2 ^ (IntBits - 1) .. 2 ^ (IntBits - 1) - 1}

\* small_positive_float_bit
GroupA == {(Bias + k) * 2 ^ FracBits + m : k \in 0 .. 2 ^ AExpBits - 1, m \in Fraction}

\* float_mask and static_exponent
Masks == {(ExponentBits + s * 2 ^ DynamicBits) * 2 ^ FracBits + m :
             s \in 0 .. 2 ^ StaticBits - 1, m \in 0 .. 2 ^ MaskBits - 1}

\* A value without its k lowest bits.
HighPart(v, k) == (v \div 2 ^ k) * 2 ^ k

\* | of two bit patterns, on the fraction bits that a mask can set.
OrLow(v, m) == HighPart(v, MaskBits) + (CHOOSE b \in 0 .. 2 ^ MaskBits - 1 :
    \A k \in 0 .. MaskBits - 1 :
        (b \div 2 ^ k) % 2 = Larger((v \div 2 ^ k) % 2, (m \div 2 ^ k) % 2))

\* Mutant: a value loaded into group E keeps its own exponent.
mask_exponent_kept(v, m) == OrLow(Abs(v), m)

\* mask_register_exponent_mantissa
mask_register_exponent_mantissa(v, m) ==
    OrLow(v % (2 ^ (FracBits + DynamicBits)), m) + HighPart(m, MaskBits)
Masked == [m \in Masks |-> {mask_register_exponent_mantissa(v, m) : v \in Ints}]

-----------------------------------------------------------------------------

Init ==
    /\ e_mask = <<0, 0>> /\ group = "F" /\ x \in Ints
    /\ mode = "Nearest" /\ ops = 0

\* prepare_iteration: the registers are loaded from the scratchpad, in the
\* same program or in a new one with masks of its own.
Prepare ==
    /\ \/ group' = "F" /\ e_mask' = <<0, 0>> /\ x' \in Ints
       \/ group' = "E" /\ e_mask' \in Masks \X Masks /\ x' \in Masked[e_mask'[1]]
    /\ ops' = 0
    /\ UNCHANGED mode

\* The host computes in the Nearest mode, randomx_softfp in the others.
Compute(g, op, sources) ==
    /\ group = g /\ ops < MaxOps
    /\ \E y \in sources : x' = soft(op, x, y, mode)
    /\ ops' = ops + 1
    /\ UNCHANGED <<e_mask, group, mode>>

exec_fadd  == Compute("F", "add", GroupA \cup Ints)
exec_fsub  == Compute("F", "add", {Negate(y) : y \in GroupA \cup Ints})
exec_fmul  == Compute("E", "mul", GroupA)
exec_fdiv  == Compute("E", "div", Masked[e_mask[1]])
exec_fsqrt == Compute("E", "sqrt", {x})

\* ^ 0x80f0_0000_0000_0000: the sign and the low bits of the exponent flip.
Scaled(bits) ==
    LET fraction == bits % (2 ^ FracBits)
        exponent == (bits \div 2 ^ FracBits) % (2 ^ DynamicBits)
    IN  Negate(HighPart(bits, FracBits + DynamicBits)
                 + (2 ^ DynamicBits - 1 - exponent) * 2 ^ FracBits + fraction)

exec_fscal ==
    /\ group = "F" /\ ops < MaxOps
    /\ x' = Scaled(x)
    /\ ops' = ops + 1
    /\ UNCHANGED <<e_mask, group, mode>>

\* shuffle_1: the lanes of the register change places, the masks stay.
exec_fswap ==
    /\ e_mask' = <<e_mask[2], e_mask[1]>>
    /\ UNCHANGED <<group, x, mode, ops>>

exec_cfround ==
    /\ mode' \in Modes
    /\ UNCHANGED <<e_mask, group, x, ops>>

Next == Prepare \/ exec_fadd \/ exec_fsub \/ exec_fmul \/ exec_fdiv \/ exec_fsqrt
          \/ exec_fscal \/ exec_fswap \/ exec_cfround

Spec == Init /\ [][Next]_vars

-----------------------------------------------------------------------------

\* The operations that can meet the register now, with their operands.
Applicable ==
    IF group = "F"
    THEN {<<"add", y>> : y \in GroupA \cup Ints \cup {Negate(y) : y \in GroupA \cup Ints}}
    ELSE {<<"mul", y>> : y \in GroupA} \cup {<<"div", y>> : y \in Masked[e_mask[1]]} \cup {<<"sqrt", x>>}

\* On every value a register can reach, and in every mode, an operation
\* returns the exact result rounded as IEEE 754 asks: overflow, exact zeros
\* and operands far apart included.
Exact == \A o \in Applicable : soft(o[1], x, o[2], mode) = Reference(o[1], x, o[2], mode)

\* The assertions of randomx_softfp hold on every value a register can reach:
\* no wide shift loses a bit, the far operand of a sum does not move the
\* nearest result, no divisor is zero and no square root is of a negative.
AssertionsHold ==
    \A o \in Applicable : Asserted(o[1], x, o[2], nearest(o[1], x, o[2]))

\* The groups stay in the domain randomx_softfp is written for: F is a finite
\* normal value or a zero, E is positive and normal or infinite; neither is
\* ever a NaN or subnormal.
GroupsInDomain ==
    /\ x \in Bits /\ mode \in Modes /\ ops \in 0 .. MaxOps
    /\ Abs(x) <= EXP_MASK
    /\ Field(x) = 0 => group = "F" /\ Abs(x) = 0
    /\ group = "F" => ~is_infinite(x)
    /\ group = "E" => ~Negative(x)
=============================================================================
