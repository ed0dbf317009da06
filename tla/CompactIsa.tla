----------------------------- MODULE CompactIsa -----------------------------
(***************************************************************************)
(* The optimized interpreter (randomx-sp1/src/lib.rs): instructions are    *)
(* decoded once, with register byte offsets, scratchpad masks, immediates, *)
(* reciprocals and branch increments computed in advance, and executed     *)
(* with unchecked accesses.                                                *)
(*                                                                         *)
(* An effect of the source is a form ("r", "imm", "m", ...) and, where     *)
(* several effects differ only in their operation, that operation:         *)
(* exec_isub_imm is the form "imm" with the operation "sub".               *)
(***************************************************************************)
EXTENDS VmState

NoReg == 255

\* The tests of decode_instruction, in order.
CompactOpcodes ==
    << <<"IADD_RS", 16>>,  <<"IADD_M", 23>>,   <<"ISUB_R", 39>>,   <<"ISUB_M", 46>>,
       <<"IMUL_R", 62>>,   <<"IMUL_M", 66>>,   <<"IMULH_R", 70>>,  <<"IMULH_M", 71>>,
       <<"ISMULH_R", 75>>, <<"ISMULH_M", 76>>, <<"IMUL_RCP", 84>>, <<"INEG_R", 86>>,
       <<"IXOR_R", 101>>,  <<"IXOR_M", 106>>,  <<"IROR_R", 114>>,  <<"IROL_R", 116>>,
       <<"ISWAP_R", 120>>, <<"FSWAP_R", 124>>, <<"FADD_R", 140>>,  <<"FADD_M", 145>>,
       <<"FSUB_R", 161>>,  <<"FSUB_M", 166>>,  <<"FSCAL_R", 172>>, <<"FMUL_R", 204>>,
       <<"FDIV_M", 208>>,  <<"FSQRT_R", 214>>, <<"CBRANCH", 239>>, <<"CFROUND", 240>>,
       <<"ISTORE", 256>> >>

RegisterForms == [ISUB_R |-> "sub", IMUL_R |-> "mul", IXOR_R |-> "xor",
                  IROR_R |-> "ror", IROL_R |-> "rol"]
HighForms     == [IMULH_R |-> "mulh", ISMULH_R |-> "smulh"]
MemoryForms   == [IADD_M |-> "add", ISUB_M |-> "sub", IMUL_M |-> "mul",
                  IMULH_M |-> "mulh", ISMULH_M |-> "smulh", IXOR_M |-> "xor"]
FloatForms    == [FADD_R |-> "add", FSUB_R |-> "sub", FMUL_R |-> "mul"]
FloatMemoryForms == [FADD_M |-> "add", FSUB_M |-> "sub", FDIV_M |-> "div"]

-----------------------------------------------------------------------------
(* Decoding.                                                               *)

\* register_byte_offset
ByteOffset(index, stride) == IF index = NoReg THEN NoReg ELSE index * stride
FloatBytes == 2 * WordBytes

\* memory_mask: L1, L2 and L3 masks clear the low bits of a word's address.
MemoryMask(mode) ==
    (CASE mode = "L1" -> L1Size [] mode = "L2" -> L2Size [] mode = "L3" -> L3Size) - WordBytes

\* CompactInstr::new, new_float and new_memory
New(form, op, dst, src, imm, mode) ==
    [form |-> form, op |-> op, dst |-> ByteOffset(dst, WordBytes),
     src |-> ByteOffset(src, WordBytes), imm |-> imm, mode |-> mode, mask |-> 0, target |-> 0]
NewFloat(form, op, dst, src) ==
    [New(form, op, dst, src, 0, 0) EXCEPT
        !.dst = ByteOffset(dst, FloatBytes), !.src = ByteOffset(src, FloatBytes)]
NewMemory(form, op, dst, src, imm, mode) ==
    [New(form, op, dst, src, imm, mode) EXCEPT !.mask = MemoryMask(mode)]
Nop == New("nop", "nop", NoReg, NoReg, 0, 0)

DecodeRegOrImm(op, dst, src, imm) ==
    IF dst = src THEN New("imm", op, dst, NoReg, SignExtend(imm), 0)
                 ELSE New("r", op, dst, src, 0, 0)

DecodeMemory(form, op, dst, src, raw, same) ==
    IF same
    THEN NewMemory(form, op, dst, NoReg, raw.imm & MemoryMask("L3"), "L3")
    ELSE NewMemory(form, op, dst, src, SignExtend(raw.imm), IF raw.mem = 0 THEN "L2" ELSE "L1")

DecodeFloatMemory(op, dst, src, raw) ==
    [DecodeMemory("fm", op, dst, src, raw, FALSE) EXCEPT !.dst = ByteOffset(dst, FloatBytes)]

\* The increment of a CBRANCH: one bit forced to one, the bit below it to zero.
BranchIncrement(imm, shift) ==
    (SignExtend(imm) | Pow2[shift]) & (WordRange - 1 - Pow2[shift - 1])

StoreMode(raw) ==
    IF raw.cond >= StoreL3Condition THEN "L3" ELSE IF raw.mem = 0 THEN "L2" ELSE "L1"

is_zero_or_power_of_two(x) == x & WrappingSub(x, 1) = 0

\* Mutant: a swap is recorded as a use of its destination alone.
CompactUsesSwapDst(op, raw) ==
    CASE op = "CBRANCH" -> Reg
      [] op = "IMUL_RCP" -> IF is_zero_or_power_of_two(raw.imm) THEN {} ELSE {raw.dst % MaxReg}
      [] op \in {"IADD_RS", "INEG_R", "ISWAP_R"} \cup DOMAIN RegisterForms
                    \cup DOMAIN HighForms \cup DOMAIN MemoryForms -> {raw.dst % MaxReg}
      [] OTHER -> {}

\* The registers whose last use an instruction is recorded as.
CompactUses(op, raw) ==
    LET dst == raw.dst % MaxReg  src == raw.src % MaxReg
    IN  CASE op = "CBRANCH" -> Reg
          [] op = "ISWAP_R" -> IF src = dst THEN {} ELSE {dst, src}
          [] op = "IMUL_RCP" -> IF is_zero_or_power_of_two(raw.imm) THEN {} ELSE {dst}
          [] op \in {"IADD_RS", "INEG_R"} \cup DOMAIN RegisterForms
                        \cup DOMAIN HighForms \cup DOMAIN MemoryForms -> {dst}
          [] OTHER -> {}

\* The integer instructions of decode_instruction.
CompactInteger(op, raw, dst, src) ==
    CASE op = "IADD_RS" ->
           New("iadd_rs", "add", dst, src, IF dst = 5 THEN SignExtend(raw.imm) ELSE 0, raw.shft)
      [] op \in DOMAIN MemoryForms -> DecodeMemory("m", MemoryForms[op], dst, src, raw, dst = src)
      [] op \in {"IROR_R", "IROL_R"} -> DecodeRegOrImm(RegisterForms[op], dst, src, raw.imm % Bits)
      [] op \in DOMAIN RegisterForms \ {"IROR_R", "IROL_R"} ->
           DecodeRegOrImm(RegisterForms[op], dst, src, raw.imm)
      [] op \in DOMAIN HighForms -> New("r", HighForms[op], dst, src, 0, 0)
      [] op = "IMUL_RCP" ->
           New("imul_rcp", "mul", dst, NoReg,
               IF is_zero_or_power_of_two(raw.imm) THEN 0 ELSE Reciprocal(raw.imm), 0)
      [] op = "INEG_R" -> New("ineg_r", "neg", dst, NoReg, 0, 0)
      [] op = "ISWAP_R" -> IF src = dst THEN Nop ELSE New("iswap_r", "swap", dst, src, 0, 0)

FloatOpcodes == {"FSWAP_R", "FSCAL_R", "FSQRT_R"} \cup DOMAIN FloatForms \cup DOMAIN FloatMemoryForms

\* Its floating-point instructions, on the registers fd and fs.
CompactFloat(op, raw, fd, fs) ==
    CASE op = "FSWAP_R" ->
           NewFloat(IF raw.dst % MaxReg >= MaxFloat THEN "fswap_e" ELSE "fswap_f", "swap", fd, NoReg)
      [] op \in DOMAIN FloatForms -> NewFloat("f", FloatForms[op], fd, fs)
      [] op \in DOMAIN FloatMemoryForms ->
           DecodeFloatMemory(FloatMemoryForms[op], fd, raw.src % MaxReg, raw)
      [] op = "FSCAL_R" -> NewFloat("fscal_r", "scal", fd, NoReg)
      [] op = "FSQRT_R" -> NewFloat("fsqrt_r", "sqrt", fd, NoReg)

\* decode_instruction
CompactDecode(raw, index, usage) ==
    LET op  == OpcodeIn(CompactOpcodes, raw.op)
        dst == raw.dst % MaxReg
        src == raw.src % MaxReg
        shift == raw.cond + CondBits
    IN
    [usage |-> [i \in Reg |-> IF i \in CompactUses(op, raw) THEN index ELSE usage[i]],
     instr |->
       CASE op \in FloatOpcodes -> CompactFloat(op, raw, raw.dst % MaxFloat, raw.src % MaxFloat)
         [] op = "CBRANCH" ->
              [New("cbranch", "add", dst, NoReg, BranchIncrement(raw.imm, shift), shift)
                EXCEPT !.target = usage[dst]]
         [] op = "CFROUND" -> New("cfround", "round", NoReg, src, raw.imm % Bits, 0)
         [] op = "ISTORE" ->
              NewMemory("istore", "store", dst, src, SignExtend(raw.imm), StoreMode(raw))
         [] OTHER -> CompactInteger(op, raw, dst, src)]

-----------------------------------------------------------------------------
(* Execution.                                                              *)

\* scratchpad_src_offset and scratchpad_dst_offset; R is r of the source.
R(vm, offset) == vm.r[offset \div WordBytes]
SrcOffset(vm, instr) ==
    (IF instr.src = NoReg THEN instr.imm ELSE WrappingAdd(R(vm, instr.src), instr.imm))
        & instr.mask
DstOffset(vm, instr) == WrappingAdd(R(vm, instr.dst), instr.imm) & instr.mask
ScratchAt(vm, offset) == vm.sp[offset \div WordBytes]

\* set_r, set_f, set_e
SetR(vm, offset, value) == [vm EXCEPT !.r[offset \div WordBytes] = value]
SetF(vm, offset, value) == [vm EXCEPT !.f[offset \div FloatBytes] = value]
SetE(vm, offset, value) == [vm EXCEPT !.e[offset \div FloatBytes] = value]

\* The host computes when the mode is Nearest, randomx_softfp otherwise.
Rounded(vm, op, x, y) ==
    IF vm.mode = 0 THEN HostFloat(op, x, y, vm.host) ELSE SoftFloat(op, x, y, vm.mode)

ScaleMask == 33008 * Pow2[Bits - 16]      \* 0x80f0 in the highest 16 bits

\* exec_cfround
FroundMode(value, count) == RotateRight(value, count) % 4

\* exec_nop and the effects on integer registers.
CompactExecInteger(vm, instr) ==
    LET dst == R(vm, instr.dst)
        mem == ScratchAt(vm, SrcOffset(vm, instr))
    IN
    CASE instr.form = "nop" -> vm
      [] instr.form = "iadd_rs" ->
           SetR(vm, instr.dst,
                WrappingAdd(dst, WrappingAdd(WrappingMul(R(vm, instr.src), Pow2[instr.mode]), instr.imm)))
      [] instr.form = "r"   -> SetR(vm, instr.dst, Alu(instr.op, dst, R(vm, instr.src)))
      [] instr.form = "imm" -> SetR(vm, instr.dst, Alu(instr.op, dst, instr.imm))
      [] instr.form = "m"   -> SetR(vm, instr.dst, Alu(instr.op, dst, mem))
      [] instr.form = "imul_rcp" ->
           IF instr.imm = 0 THEN vm ELSE SetR(vm, instr.dst, WrappingMul(dst, instr.imm))
      [] instr.form = "ineg_r" -> SetR(vm, instr.dst, Negated(dst))
      [] instr.form = "iswap_r" ->
           SetR(SetR(vm, instr.dst, R(vm, instr.src)), instr.src, dst)

FloatEffects == {"fswap_f", "fswap_e", "f", "fm", "fscal_r", "fsqrt_r"}

\* The effects on floating-point registers.
CompactExecFloat(vm, instr) ==
    LET fd == instr.dst \div FloatBytes
        fs == instr.src \div FloatBytes
        fmem == ToFloat(ScratchAt(vm, SrcOffset(vm, instr)))
    IN
    CASE instr.form = "fswap_f" -> SetF(vm, instr.dst, Shuffle1(vm.f[fd]))
      [] instr.form = "fswap_e" -> SetE(vm, instr.dst, Shuffle1(vm.e[fd]))
      [] instr.form = "f" /\ instr.op # "mul" ->
           SetF(vm, instr.dst, Rounded(vm, instr.op, vm.f[fd], vm.a[fs]))
      [] instr.form = "f" /\ instr.op = "mul" ->
           SetE(vm, instr.dst, Rounded(vm, "mul", vm.e[fd], vm.a[fs]))
      [] instr.form = "fm" /\ instr.op # "div" ->
           SetF(vm, instr.dst, Rounded(vm, instr.op, vm.f[fd], fmem))
      [] instr.form = "fm" /\ instr.op = "div" ->
           SetE(vm, instr.dst, Rounded(vm, "div", vm.e[fd], MaskExponent(vm, fmem)))
      [] instr.form = "fscal_r" ->
           SetF(vm, instr.dst, FloatXor(vm.f[fd], <<ScaleMask, ScaleMask>>))
      [] instr.form = "fsqrt_r" ->
           SetE(vm, instr.dst, Rounded(vm, "sqrt", vm.e[fd], <<0, 0>>))

\* The effect of an instruction.  A branch leaves pc at its target; the loop
\* increments it.
CompactExec(vm, instr) ==
    LET sum == WrappingAdd(R(vm, instr.dst), instr.imm)
        field == (Pow2[CondBits] - 1) * Pow2[instr.mode]
    IN
    CASE instr.form = "cbranch" ->
           [SetR(vm, instr.dst, sum) EXCEPT
               !.pc = IF sum & field = 0 THEN instr.target ELSE vm.pc]
      [] instr.form = "cfround" ->
           SetRoundingMode(vm, FroundMode(R(vm, instr.src), instr.imm))
      [] instr.form = "istore" ->
           [vm EXCEPT !.sp[DstOffset(vm, instr) \div WordBytes] = R(vm, instr.src)]
      [] instr.form \in FloatEffects -> CompactExecFloat(vm, instr)
      [] OTHER -> CompactExecInteger(vm, instr)

-----------------------------------------------------------------------------
(* init_vm, a second copy of the one in randomx-core.                      *)

CompactPositiveFloat(word) ==          \* small_positive_float_bit
    LET exponent == ((word \div Pow2[Bits - 5]) + ExponentBias) % ExponentRange
    IN  (exponent * MantissaRange) | (word % MantissaRange)

\* static_exponent and float_mask
CompactExponent(word) ==
    (ExponentBits | ((word \div Pow2[Bits - 4]) * DynamicExponent)) * MantissaRange
CompactFloatMask(word) == (word % Pow2[MaskBits]) | CompactExponent(word)

CompactInit(vm, entropy) ==
    LET bit(k) == (entropy[12] \div Pow2[k]) % 2
    IN  [vm EXCEPT
            !.a = [i \in FloatReg |-> <<CompactPositiveFloat(entropy[2 * i]),
                                        CompactPositiveFloat(entropy[2 * i + 1])>>],
            !.ma = AlignLine(entropy[8]),
            !.mx = entropy[10] % HalfRange,
            !.read_reg = <<bit(0), 2 + bit(1), 4 + bit(2), 6 + bit(3)>>,
            !.offset = (entropy[13] % (ExtraItems + 1)) * LineSize,
            !.e_mask = <<CompactFloatMask(entropy[14]), CompactFloatMask(entropy[15])>>,
            !.r = [i \in Reg |-> 0]]

-----------------------------------------------------------------------------
(* What the accessors assert in debug builds and take for granted in       *)
(* release builds.                                                         *)

RegisterOffset(offset) == offset % WordBytes = 0 /\ offset < MaxReg * WordBytes
FloatOffset(offset) == offset % FloatBytes = 0 /\ offset < MaxFloat * FloatBytes
ScratchOffset(offset) == offset % WordBytes = 0 /\ offset + WordBytes <= L3Size

AccessesAsserted(vm, instr) ==
    LET readsMemory == instr.form \in {"m", "fm"}
    IN  /\ instr.form \in {"iadd_rs", "r", "imm", "m", "imul_rcp", "ineg_r", "iswap_r",
                           "cbranch", "istore"}
             => RegisterOffset(instr.dst)
        /\ instr.form \in {"iadd_rs", "r", "iswap_r", "cfround", "istore"}
             => RegisterOffset(instr.src)
        /\ instr.form \in FloatEffects
             => FloatOffset(instr.dst)
        /\ instr.form = "f" => FloatOffset(instr.src)
        /\ readsMemory /\ instr.src # NoReg => RegisterOffset(instr.src)
        /\ readsMemory => instr.mask # 0 /\ ScratchOffset(SrcOffset(vm, instr))
        /\ instr.form = "istore" => instr.mask # 0 /\ ScratchOffset(DstOffset(vm, instr))
=============================================================================
