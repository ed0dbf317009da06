---------------------------- MODULE ReferenceIsa ----------------------------
(***************************************************************************)
(* The reference interpreter (randomx-core/src/program.rs, vm.rs): an      *)
(* operand is a Store, the kind of which its effect checks at run time,    *)
(* and immediates are widened and branch increments formed on execution.   *)
(***************************************************************************)
EXTENDS VmState

\* enum Opcode
ReferenceOpcodes ==
    << <<"IADD_RS", 16>>,  <<"IADD_M", 23>>,   <<"ISUB_R", 39>>,   <<"ISUB_M", 46>>,
       <<"IMUL_R", 62>>,   <<"IMUL_M", 66>>,   <<"IMULH_R", 70>>,  <<"IMULH_M", 71>>,
       <<"ISMULH_R", 75>>, <<"ISMULH_M", 76>>, <<"IMUL_RCP", 84>>, <<"INEG_R", 86>>,
       <<"IXOR_R", 101>>,  <<"IXOR_M", 106>>,  <<"IROR_R", 114>>,  <<"IROL_R", 116>>,
       <<"ISWAP_R", 120>>, <<"FSWAP_R", 124>>, <<"FADD_R", 140>>,  <<"FADD_M", 145>>,
       <<"FSUB_R", 161>>,  <<"FSUB_M", 166>>,  <<"FSCAL_R", 172>>, <<"FMUL_R", 204>>,
       <<"FDIV_M", 208>>,  <<"FSQRT_R", 214>>, <<"CBRANCH", 239>>, <<"CFROUND", 240>>,
       <<"ISTORE", 256>> >>

(* Store: a kind and the register, also the one inside L1, L2 or L3.       *)
Store(kind, i) == [kind |-> kind, i |-> i]
None == Store("NONE", 0)
LImm == Store("L3", -1)           \* L3(Imm)
RReg(n) == Store("R", n % MaxReg)
FReg(n) == Store("F", n % MaxFloat)
EReg(n) == Store("E", n % MaxFloat)
AReg(n) == Store("A", n % MaxFloat)

NoImm == -HalfRange     \* imm: None

\* An immediate is an i32.
SignedHalf(imm) == IF imm >= HalfRange \div 2 THEN imm - HalfRange ELSE imm
FromImm(imm) == SignExtend(imm % HalfRange)            \* u64_from_i32_imm

\* enum Mode
NoMode  == [kind |-> "None", x |-> 0]
Shft(x) == [kind |-> "Shft", x |-> x]
Cond(x) == [kind |-> "Cond", x |-> x]

Instr(op, dst, src, imm, mode) ==
    [op |-> op, dst |-> dst, src |-> src, imm |-> imm, mode |-> mode, target |-> -1,
     reciprocal |-> 0]

\* new_instr
NewInstr(op, dst, src, imm) ==
    IF src = dst THEN Instr(op, dst, None, imm, NoMode) ELSE Instr(op, dst, src, NoImm, NoMode)

L12Cache(src, raw) == Store(IF raw.mem = 0 THEN "L2" ELSE "L1", src % MaxReg)
LCache(dst, raw) ==
    IF raw.cond < StoreL3Condition THEN L12Cache(dst, raw) ELSE Store("L3", dst % MaxReg)

L3Mask == L3Size - WordBytes

\* new_lcache_instr
NewLcacheInstr(op, dst, raw) ==
    IF RReg(raw.src) = dst
    THEN Instr(op, dst, LImm, raw.imm & L3Mask, NoMode)
    ELSE Instr(op, dst, L12Cache(raw.src, raw), SignedHalf(raw.imm), NoMode)

is_zero_or_power_of_2(x) == x & WrappingSub(x, 1) = 0

\* register_usage as decode_instruction leaves it.
ReferenceUsage(op, raw, index, usage) ==
    LET dst == raw.dst % MaxReg  src == raw.src % MaxReg
    IN  CASE op = "CBRANCH" -> [i \in Reg |-> index]
          [] op = "ISWAP_R" /\ src # dst -> [usage EXCEPT ![dst] = index, ![src] = index]
          [] op = "IMUL_RCP" /\ ~is_zero_or_power_of_2(raw.imm) -> [usage EXCEPT ![dst] = index]
          [] op \in {"IADD_RS", "IADD_M", "ISUB_R", "ISUB_M", "IMUL_R", "IMUL_M", "IMULH_R",
                     "IMULH_M", "ISMULH_R", "ISMULH_M", "INEG_R", "IXOR_R", "IXOR_M",
                     "IROR_R", "IROL_R"} -> [usage EXCEPT ![dst] = index]
          [] OTHER -> usage

\* The integer instructions of decode_instruction, with the feature
\* precompute-reciprocal, which the default build enables.
ReferenceInteger(op, raw, imm, dst, src) ==
    CASE op = "IADD_RS" -> Instr(op, dst, src, IF dst = RReg(5) THEN imm ELSE NoImm, Shft(raw.shft))
      [] op \in {"IADD_M", "ISUB_M", "IMUL_M", "IMULH_M", "ISMULH_M", "IXOR_M"} ->
           NewLcacheInstr(op, dst, raw)
      [] op \in {"ISUB_R", "IMUL_R", "IXOR_R"} -> NewInstr(op, dst, src, imm)
      [] op \in {"IROR_R", "IROL_R"} -> NewInstr(op, dst, src, raw.imm % Bits)
      [] op \in {"IMULH_R", "ISMULH_R"} -> Instr(op, dst, src, NoImm, NoMode)
      [] op = "IMUL_RCP" ->
           [Instr(op, dst, None, imm, NoMode) EXCEPT
               !.reciprocal = IF is_zero_or_power_of_2(raw.imm) THEN 0 ELSE Reciprocal(raw.imm)]
      [] op = "INEG_R" -> NewInstr(op, dst, None, imm)
      [] op = "ISWAP_R" ->
           IF dst = src THEN NewInstr("NOP", None, None, imm) ELSE Instr(op, dst, src, NoImm, NoMode)

ReferenceFloats == {"FSWAP_R", "FADD_R", "FADD_M", "FSUB_R", "FSUB_M", "FSCAL_R", "FMUL_R",
                    "FDIV_M", "FSQRT_R"}

\* Its floating-point instructions.
ReferenceFloat(op, raw, imm) ==
    CASE op = "FSWAP_R" ->
           NewInstr(op, IF raw.dst % MaxReg >= MaxFloat THEN EReg(raw.dst) ELSE FReg(raw.dst),
                    None, imm)
      [] op \in {"FADD_R", "FSUB_R"} -> NewInstr(op, FReg(raw.dst), AReg(raw.src), imm)
      [] op = "FMUL_R" -> NewInstr(op, EReg(raw.dst), AReg(raw.src), imm)
      [] op \in {"FADD_M", "FSUB_M"} -> NewLcacheInstr(op, FReg(raw.dst), raw)
      [] op = "FDIV_M" -> NewLcacheInstr(op, EReg(raw.dst), raw)
      [] op = "FSCAL_R" -> NewInstr(op, FReg(raw.dst), None, imm)
      [] op = "FSQRT_R" -> NewInstr(op, EReg(raw.dst), None, imm)

\* decode_instruction
ReferenceDecode(raw, index, usage) ==
    LET op  == OpcodeIn(ReferenceOpcodes, raw.op)
        imm == SignedHalf(raw.imm)
        dst == RReg(raw.dst)
        src == RReg(raw.src)
    IN
    [usage |-> ReferenceUsage(op, raw, index, usage),
     instr |->
       CASE op \in ReferenceFloats -> ReferenceFloat(op, raw, imm)
         [] op = "CBRANCH" ->
              [Instr(op, dst, None, imm, Cond(raw.cond)) EXCEPT !.target = usage[raw.dst % MaxReg]]
         [] op = "CFROUND" -> Instr(op, None, src, raw.imm % Bits, NoMode)
         [] op = "ISTORE" -> Instr(op, LCache(raw.dst, raw), src, imm, NoMode)
         [] OTHER -> ReferenceInteger(op, raw, imm, dst, src)]

-----------------------------------------------------------------------------
(* Execution.                                                              *)

\* scratchpad_src_ix and scratchpad_dst_ix
ByteAddress(vm, store, imm) ==
    LET sum == WrappingAdd(vm.r[store.i], FromImm(imm))
    IN  CASE store.kind = "L1" -> sum & (L1Size - WordBytes)
          [] store.kind = "L2" -> sum & (L2Size - WordBytes)
          [] store.kind = "L3" -> sum & L3Mask
SrcIx(vm, instr) ==
    (IF instr.src = LImm THEN FromImm(instr.imm) & L3Mask
                         ELSE ByteAddress(vm, instr.src, instr.imm)) \div WordBytes
DstIx(vm, instr) == ByteAddress(vm, instr.dst, instr.imm) \div WordBytes

ImmOrR(vm, instr) == IF instr.src = None THEN FromImm(instr.imm) ELSE vm.r[instr.src.i]

\* read_float_reg and write_float_reg
ReadFloat(vm, store) ==
    CASE store.kind = "A" -> vm.a[store.i] [] store.kind = "E" -> vm.e[store.i]
      [] store.kind = "F" -> vm.f[store.i]
WriteFloat(vm, store, value) ==
    CASE store.kind = "A" -> [vm EXCEPT !.a[store.i] = value]
      [] store.kind = "E" -> [vm EXCEPT !.e[store.i] = value]
      [] store.kind = "F" -> [vm EXCEPT !.f[store.i] = value]

AluOf == [IADD_M |-> "add", ISUB_R |-> "sub", ISUB_M |-> "sub", IMUL_R |-> "mul",
          IMUL_M |-> "mul", IMULH_R |-> "mulh", IMULH_M |-> "mulh", ISMULH_R |-> "smulh",
          ISMULH_M |-> "smulh", IXOR_R |-> "xor", IXOR_M |-> "xor", IROR_R |-> "ror",
          IROL_R |-> "rol"]

\* nop and the exec_* methods on integer registers.
ReferenceExecInteger(vm, instr) ==
    LET op == instr.op
        d  == vm.r[instr.dst.i]
        s  == vm.r[instr.src.i]
        write(value) == [vm EXCEPT !.r[instr.dst.i] = value]
        memory == vm.sp[SrcIx(vm, instr)]
    IN
    CASE op = "NOP" -> vm
      [] op = "IADD_RS" ->
           LET v == WrappingMul(s, Pow2[instr.mode.x])
           IN  write(WrappingAdd(d, IF instr.imm = NoImm THEN v
                                    ELSE WrappingAdd(v, FromImm(instr.imm))))
      [] op \in {"IADD_M", "ISUB_M", "IMUL_M", "IMULH_M", "ISMULH_M", "IXOR_M"} ->
           write(Alu(AluOf[op], d, memory))
      [] op \in {"ISUB_R", "IMUL_R", "IXOR_R", "IROR_R", "IROL_R"} ->
           write(Alu(AluOf[op], d, ImmOrR(vm, instr)))
      [] op \in {"IMULH_R", "ISMULH_R"} -> write(Alu(AluOf[op], d, s))
      [] op = "IMUL_RCP" ->
           IF instr.reciprocal = 0 THEN vm ELSE write(WrappingMul(d, instr.reciprocal))
      [] op = "INEG_R" -> write(Negated(d))
      [] op = "ISWAP_R" -> [vm EXCEPT !.r[instr.dst.i] = s, !.r[instr.src.i] = d]

\* Vm::mask_register_exponent_mantissa
ReferenceMask(vm, x) ==
    LET masked(lane) == (x[lane] % (DynamicExponent * MantissaRange)) | vm.e_mask[lane]
    IN  <<masked(1), masked(2)>>

\* The exec_* methods on floating-point registers, all computed by the host.
ReferenceExecFloat(vm, instr) ==
    LET op == instr.op
        memory == vm.sp[SrcIx(vm, instr)]
        fd == ReadFloat(vm, instr.dst)
        host(name, x, y) == WriteFloat(vm, instr.dst, HostFloat(name, x, y, vm.host))
    IN
    CASE op = "FSWAP_R" -> WriteFloat(vm, instr.dst, Shuffle1(fd))
      [] op \in {"FADD_R", "FMUL_R"} ->
           host(IF op = "FADD_R" THEN "add" ELSE "mul", vm.a[instr.src.i], fd)
      [] op = "FSUB_R" -> host("sub", fd, vm.a[instr.src.i])
      [] op = "FADD_M" -> host("add", fd, ToFloat(memory))
      [] op = "FSUB_M" -> host("sub", fd, ToFloat(memory))
      [] op = "FDIV_M" -> host("div", fd, ReferenceMask(vm, ToFloat(memory)))
      [] op = "FSQRT_R" -> host("sqrt", fd, <<0, 0>>)
      [] op = "FSCAL_R" ->
           LET mask == 33008 * Pow2[Bits - 16]
           IN  WriteFloat(vm, instr.dst, FloatXor(fd, <<mask, mask>>))

\* The effect of an instruction.
ReferenceExec(vm, instr) ==
    LET op == instr.op
        s  == vm.r[instr.src.i]
        shift == instr.mode.x + CondBits
        step == (FromImm(instr.imm) | Pow2[shift]) & (WordRange - 1 - Pow2[shift - 1])
        sum == WrappingAdd(vm.r[instr.dst.i], step)
    IN
    CASE op = "CBRANCH" ->
           [vm EXCEPT
               !.r[instr.dst.i] = sum,
               !.pc = IF sum & ((Pow2[CondBits] - 1) * Pow2[shift]) = 0 THEN instr.target ELSE vm.pc]
      [] op = "CFROUND" -> SetRoundingMode(vm, RotateRight(s, instr.imm) % 4)
      [] op = "ISTORE" -> [vm EXCEPT !.sp[DstIx(vm, instr)] = s]
      [] op \in ReferenceFloats -> ReferenceExecFloat(vm, instr)
      [] OTHER -> ReferenceExecInteger(vm, instr)

(* The operand and mode kinds the exec_* methods accept; others panic.     *)
Caches == {"L1", "L2", "L3"}
NeverPanics(instr) ==
    LET op == instr.op
    IN  /\ op \in DOMAIN AluOf \cup {"IADD_RS", "IMUL_RCP", "INEG_R", "ISWAP_R", "CBRANCH"}
             => instr.dst.kind = "R"
        /\ op \in {"IADD_RS", "IMULH_R", "ISMULH_R", "ISWAP_R", "CFROUND", "ISTORE"}
             => instr.src.kind = "R"
        /\ op \in {"ISUB_R", "IMUL_R", "IXOR_R", "IROR_R", "IROL_R"}
             => instr.src.kind = "R" \/ (instr.src = None /\ instr.imm # NoImm)
        /\ op \in {"IADD_M", "ISUB_M", "IMUL_M", "IMULH_M", "ISMULH_M", "IXOR_M", "FADD_M",
                   "FSUB_M", "FDIV_M"}
             => instr.src.kind \in Caches /\ instr.imm # NoImm
        /\ op = "ISTORE" => instr.dst.kind \in Caches /\ instr.imm # NoImm
        /\ op \in {"FADD_R", "FSUB_R", "FADD_M", "FSUB_M", "FSCAL_R"} => instr.dst.kind = "F"
        /\ op \in {"FMUL_R", "FDIV_M", "FSQRT_R"} => instr.dst.kind = "E"
        /\ op \in {"FADD_R", "FSUB_R", "FMUL_R"} => instr.src.kind = "A"
        /\ op = "FSWAP_R" => instr.dst.kind \in {"A", "E", "F"}
        /\ op \in {"CBRANCH", "CFROUND", "IMUL_RCP"} => instr.imm # NoImm
        /\ op = "IADD_RS" => instr.mode.kind = "Shft"
        /\ op = "CBRANCH" => instr.mode.kind = "Cond"

-----------------------------------------------------------------------------
(* Vm::init_vm.                                                            *)

ReferencePositiveFloat(word) ==        \* small_positive_float_bit
    LET exponent == ((word \div Pow2[Bits - 5]) + ExponentBias) % ExponentRange
    IN  (exponent * MantissaRange) | (word % MantissaRange)

\* static_exponent and float_mask
ReferenceExponent(word) ==
    (ExponentBits | ((word \div Pow2[Bits - 4]) * DynamicExponent)) * MantissaRange
ReferenceFloatMask(word) == (word % Pow2[MaskBits]) | ReferenceExponent(word)

ReferenceInit(vm, entropy) ==
    LET bit(k) == (entropy[12] \div Pow2[k]) % 2
    IN  [vm EXCEPT
            !.a = [i \in FloatReg |-> <<ReferencePositiveFloat(entropy[2 * i]),
                                        ReferencePositiveFloat(entropy[2 * i + 1])>>],
            !.ma = AlignLine(entropy[8]),
            !.mx = entropy[10] % HalfRange,
            !.read_reg = <<bit(0), 2 + bit(1), 4 + bit(2), 6 + bit(3)>>,
            !.offset = (entropy[13] % (ExtraItems + 1)) * LineSize,
            !.e_mask = <<ReferenceFloatMask(entropy[14]), ReferenceFloatMask(entropy[15])>>,
            !.r = [i \in Reg |-> 0]]
=============================================================================
