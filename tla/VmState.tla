------------------------------ MODULE VmState ------------------------------
(***************************************************************************)
(* The state of a RandomX VM and what both interpreters share: words, the  *)
(* scratchpad, and the head and the tail of an iteration                   *)
(* (randomx-core/src/vm.rs, memory.rs, common.rs; the one copy of the      *)
(* frame in randomx-sp1/src/lib.rs that run_differential uses for both).   *)
(*                                                                         *)
(* Words have 2 * HalfBits bits instead of 64, and the scratchpad and the  *)
(* dataset are as much smaller.  Floating-point registers are pairs        *)
(* <<low, high>> of words; what the host's adder computes is an arbitrary  *)
(* function that depends on its operands and its rounding mode.            *)
(***************************************************************************)
EXTENDS Integers, Sequences

CONSTANTS HalfBits,             \* 32: the width of an immediate
          WordBytes,            \* 8
          L1Size, L2Size, L3Size, \* bytes: 2^14, 2^18, 2^21
          CondBits,             \* CONDITION_OFFSET: 8
          StoreL3Condition,     \* STORE_L3_CONDITION: 14
          BaseSize,             \* DATASET_BASE_SIZE: 2^31
          ExtraItems,           \* DATASET_EXTRA_ITEMS
          MaskBits              \* bits of a mask's mantissa: 22

\* 2 to the power k.
Pow2[k \in Nat] == IF k = 0 THEN 1 ELSE 2 * Pow2[k - 1]

Bits       == 2 * HalfBits
HalfRange  == Pow2[HalfBits]
WordRange  == Pow2[Bits]
Word       == 0 .. WordRange - 1
Half       == 0 .. HalfRange - 1
MaxReg     == 8
MaxFloat   == 4
Reg        == 0 .. MaxReg - 1
FloatReg   == 0 .. MaxFloat - 1
LineSize   == MaxReg * WordBytes      \* CACHE_LINE_SIZE, DATASET_ITEM_SIZE
ScratchWords == L3Size \div WordBytes

\* Masks select whole words; a mask is a positive immediate; lines are whole in
\* the scratchpad and in the dataset; no register has the offset NO_REG, 255.
ASSUME VmAssumption ==
    /\ HalfBits \in Nat /\ HalfBits >= 8
    /\ \E k \in 0 .. HalfBits : WordBytes = Pow2[k]
    /\ MaxReg * WordBytes <= 255
    /\ {L1Size, L2Size, L3Size, BaseSize, CondBits} \subseteq Nat \ {0}
    /\ {StoreL3Condition, ExtraItems} \subseteq Nat
    /\ \A size \in {L1Size, L2Size, L3Size} : size % WordBytes = 0 /\ size <= L3Size
    /\ WordBytes < L1Size /\ WordBytes < L2Size
    /\ L3Size % LineSize = 0 /\ L3Size <= HalfRange \div 2
    /\ BaseSize % LineSize = 0
    /\ MaskBits \in 0 .. Bits - 12

-----------------------------------------------------------------------------
(* common.rs and the integer operations of Rust.                           *)

Bit     == 0 .. 1
AndBits == [p \in Bit |-> [q \in Bit |-> p * q]]
OrBits  == [p \in Bit |-> [q \in Bit |-> p + q - p * q]]
XorBits == [p \in Bit |-> [q \in Bit |-> (p + q) % 2]]

\* The word made of the bits of x and y, pair by pair; a negative number stands
\* for its two's complement.
Bitwise(table, x, y) ==
    LET low[k \in 0 .. Bits] ==        \* of the k lowest bits of p and q
            [p \in Int |-> [q \in Int |->
                IF k = 0 THEN 0
                ELSE table[p % 2][q % 2] + 2 * low[k - 1][p \div 2][q \div 2]]]
    IN  low[Bits][x][y]
x & y  == Bitwise(AndBits, x, y)
x | y  == Bitwise(OrBits, x, y)
x ^^ y == Bitwise(XorBits, x, y)

WrappingAdd(x, y) == (x + y) % WordRange
WrappingSub(x, y) == (x - y) % WordRange
Signed(x)         == IF x >= WordRange \div 2 THEN x - WordRange ELSE x
WrappingMul(x, y) == (Signed(x) * Signed(y)) % WordRange
Negated(x)        == WrappingAdd(WordRange - 1 - x, 1)     \* (!x) + 1
RotateRight(x, n) ==
    LET k == n % Bits IN (x \div Pow2[k]) + (x % Pow2[k]) * Pow2[Bits - k]
RotateLeft(x, n)  == RotateRight(x, Bits - (n % Bits))

\* u64_from_i32_imm
SignExtend(imm) ==
    IF imm > HalfRange \div 2 - 1 THEN imm | (WordRange - HalfRange) ELSE imm

\* mulh by halves, so that no product exceeds a word; smulh by an
\* arithmetic shift.
MulH(x, y) ==
    LET x1 == x \div HalfRange  x0 == x % HalfRange
        y1 == y \div HalfRange  y0 == y % HalfRange
        carry == ((x1 * y0 + (x0 * y0) \div HalfRange) % HalfRange) + x0 * y1
    IN  x1 * y1 + (x1 * y0 + (x0 * y0) \div HalfRange) \div HalfRange
                + carry \div HalfRange
SMulH(x, y) == ((Signed(x) * Signed(y)) \div WordRange) % WordRange

\* Mutant: the index of the highest bit, as the instruction bsr gives it.
HighestBit(n) == LET width[k \in Half] == IF k < 2 THEN 0 ELSE 1 + width[k \div 2] IN width[n]

\* The loop of randomx_reciprocal that counts the bits of the divisor.
BitLength(n) == LET width[k \in Half] == IF k = 0 THEN 0 ELSE 1 + width[k \div 2] IN width[n]

\* randomx_reciprocal: as many steps of the doubling loop.
Reciprocal(divisor) ==
    LET step[k \in 0 .. Bits] ==
            IF k = 0
            THEN [q |-> (WordRange \div 2) \div divisor,
                  r |-> (WordRange \div 2) % divisor]
            ELSE LET s == step[k - 1]
                 IN  IF s.r >= divisor - s.r
                     THEN [q |-> WrappingAdd(WrappingMul(s.q, 2), 1),
                           r |-> 2 * s.r - divisor]
                     ELSE [q |-> WrappingMul(s.q, 2), r |-> 2 * s.r]
    IN  step[BitLength(divisor)].q

\* The integer operations both instruction sets are made of.
Alu(op, d, s) ==
    CASE op = "add"   -> WrappingAdd(d, s)
      [] op = "sub"   -> WrappingSub(d, s)
      [] op = "mul"   -> WrappingMul(d, s)
      [] op = "mulh"  -> MulH(s, d)
      [] op = "smulh" -> SMulH(s, d)
      [] op = "xor"   -> d ^^ s
      [] op = "ror"   -> RotateRight(d, s)
      [] op = "rol"   -> RotateLeft(d, s)

(* Raw instructions: an opcode byte, two register bytes, the fields of the *)
(* modifier byte, and an immediate.                                        *)
RawInstr == [op : 0 .. 255, dst : 0 .. 255, src : 0 .. 255,
             mem : 0 .. 3, shft : 0 .. 3, cond : 0 .. 15, imm : Half]

\* A table of opcodes in the order of the decoder's tests, each with the
\* bound its byte must be below.
OpcodeIn(table, byte) ==
    table[CHOOSE n \in DOMAIN table :
              /\ byte < table[n][2]
              /\ \A m \in 1 .. n - 1 : byte >= table[m][2]][1]

-----------------------------------------------------------------------------
(* Floating point.                                                         *)

FloatXor(x, y)  == <<x[1] ^^ y[1], x[2] ^^ y[2]>>
Shuffle1(x)     == <<x[2], x[1]>>

\* lower_to_m128d: the two signed halves of a word.
ToFloat(w) == <<SignExtend(w % HalfRange), SignExtend(w \div HalfRange)>>

\* A word is a sign, eleven bits of exponent, of which the low four are dynamic,
\* and a mantissa.
MantissaRange   == Pow2[Bits - 12]
ExponentRange   == 2048
ExponentBias    == 1023
ExponentBits    == 768
DynamicExponent == 16

\* mask_register_exponent_mantissa
MaskExponent(vm, x) ==
    <<(x[1] % (DynamicExponent * MantissaRange)) | vm.e_mask[1],
      (x[2] % (DynamicExponent * MantissaRange)) | vm.e_mask[2]>>

\* The host's operations, lane by lane: any function of the operands and the
\* rounding mode in force, commutative where the operation is.
HostLane(op, x, y, mode) ==
    CASE op = "add"  -> (x + y + mode) % WordRange
      [] op = "sub"  -> (x - y + 5 * mode) % WordRange
      [] op = "mul"  -> (WrappingMul(x, y) + 3 * mode) % WordRange
      [] op = "div"  -> (x + 3 * y + 7 * mode) % WordRange
      [] op = "sqrt" -> (5 * x + mode) % WordRange
HostFloat(op, x, y, mode) ==
    <<HostLane(op, x[1], y[1], mode), HostLane(op, x[2], y[2], mode)>>

\* The contract of randomx_softfp: correctly rounded in the mode asked for,
\* whatever the mode of the host.
SoftFloat(op, x, y, mode) == HostFloat(op, x, y, mode)

\* set_rounding_mode: the field of the Vm and the control register of the host.  It
\* asserts that the mode is below four, of which CFROUND takes the remainder.
SetRoundingMode(vm, mode) == [vm EXCEPT !.mode = mode, !.host = mode]

-----------------------------------------------------------------------------
(* The frame of a program.                                                 *)

\* A Vm that has been through init_scratchpad and reset_rounding_mode.
NewVm(scratchpad) ==
    [r |-> [i \in Reg |-> 0],
     f |-> [i \in FloatReg |-> <<0, 0>>],
     e |-> [i \in FloatReg |-> <<0, 0>>],
     a |-> [i \in FloatReg |-> <<0, 0>>],
     sp |-> scratchpad, pc |-> 0, mx |-> 0, ma |-> 0, mode |-> 0, host |-> 0,
     read_reg |-> <<0, 0, 0, 0>>, offset |-> 0, e_mask |-> <<0, 0>>]

\* & CACHE_LINE_ALIGN_MASK
AlignLine(x) == (x % BaseSize) - (x % LineSize)

\* The sixteen words of entropy a program begins with.
Entropy == [0 .. 15 -> Word]

(* prepare_iteration and finish_iteration, which run_differential calls    *)
(* for both machines.                                                      *)

\* (addr & SCRATCHPAD_L3_MASK_U32) >> 3
LineIndex(addr) == ((addr % L3Size) - (addr % LineSize)) \div WordBytes

\* The scratchpad addresses of an iteration, from the previous ones.
SpAddresses(vm, sp0, sp1) ==
    LET mix == vm.r[vm.read_reg[1]] ^^ vm.r[vm.read_reg[2]]
    IN  <<LineIndex(sp0 ^^ (mix % HalfRange)), LineIndex(sp1 ^^ (mix \div HalfRange))>>

\* prepare_iteration, at the addresses just computed.
PrepareIteration(vm, addr) ==
    [vm EXCEPT
        !.r = [i \in Reg |-> vm.r[i] ^^ vm.sp[addr[1] + i]],
        !.f = [i \in FloatReg |-> ToFloat(vm.sp[addr[2] + i])],
        !.e = [i \in FloatReg |-> MaskExponent(vm, ToFloat(vm.sp[addr[2] + i + MaxFloat]))],
        !.pc = 0]

\* init_dataset_item without superscalar programs (no_memory), with constants
\* of a word's size.
SuperscalarMul == 25645 % WordRange
SuperscalarAdd == [i \in Reg |-> (i * 7919) % WordRange]
DatasetItem(item) ==
    LET first == WrappingMul(item + 1, SuperscalarMul)
    IN  [i \in Reg |-> first ^^ SuperscalarAdd[i]]

\* Mutant: mx becomes ma without being aligned.
NextMaUnaligned(vm) == vm.mx ^^ ((vm.r[vm.read_reg[3]] ^^ vm.r[vm.read_reg[4]]) % HalfRange)

\* mx ^= ...; mx &= CACHE_LINE_ALIGN_MASK
NextMa(vm) == AlignLine(vm.mx ^^ (vm.r[vm.read_reg[3]] ^^ vm.r[vm.read_reg[4]]))

DatasetAddress(vm) == vm.offset + vm.ma

\* finish_iteration: the registers go to the second address, and then the
\* mixed floating-point registers to the first, which may be the same.
FinishIteration(vm, addr) ==
    LET item == DatasetItem(DatasetAddress(vm) \div LineSize)
        r == [i \in Reg |-> vm.r[i] ^^ item[i]]
        f == [i \in FloatReg |-> FloatXor(vm.f[i], vm.e[i])]
        withR == [k \in DOMAIN vm.sp |->
                    IF k - addr[2] \in Reg THEN r[k - addr[2]] ELSE vm.sp[k]]
    IN  [vm EXCEPT
            !.r = r, !.f = f, !.mx = vm.ma, !.ma = NextMa(vm),
            !.sp = [k \in DOMAIN vm.sp |->
                      IF k - addr[1] \in Reg
                      THEN f[(k - addr[1]) \div 2][1 + ((k - addr[1]) % 2)]
                      ELSE withR[k]]]

=============================================================================
