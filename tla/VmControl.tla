----------------------------- MODULE VmControl -----------------------------
(***************************************************************************)
(* The control flow of a RandomX program in the compact interpreter        *)
(* (randomx-sp1/src/lib.rs): CompactProgram::from_bytes decodes the        *)
(* program once, keeping for every register the last instruction that      *)
(* modified it; run executes it, every CBRANCH jumping back to just after  *)
(* the last change of its register.  No instruction counter bounds that    *)
(* loop, and the fetch is unchecked.                                       *)
(*                                                                         *)
(* Instructions are abstracted to what decoding and branching tell apart:  *)
(* the registers they modify.  The value an arithmetic or a load           *)
(* instruction produces is any of Values.  The branch arithmetic is exact: *)
(* a condition shift s is represented by its unit 2^s, and setting,        *)
(* clearing and masking bits by sums, quotients and remainders.            *)
(***************************************************************************)
EXTENDS Integers

CONSTANTS Reg,          \* integer registers: 0..MAX_REG - 1
          ProgramSize,  \* PROGRAM_SIZE: 256
          Iterations,   \* PROGRAM_ITERATIONS: 2,048
          WordRange,    \* register values are below it: 2^64
          FieldRange,   \* CONDITION_MASK + 1: 2^8
          Units,        \* 2^condition_shift for the shifts a modifier encodes
          Immediates,   \* the sign-extended immediates
          Values        \* what arithmetic, loads and mixing may produce

Word == 0 .. WordRange - 1

\* A unit is even because a shift is at least CONDITION_OFFSET = 8, and the
\* condition field lies inside a word: 2^(8 + 15) * 2^8 divides 2^64.
ASSUME VmAssumption ==
    /\ ProgramSize \in Nat
    /\ Iterations \in Nat
    /\ WordRange \in Nat \ {0}
    /\ FieldRange \in Nat \ {0} /\ FieldRange % 2 = 0
    /\ Units \subseteq Nat \ {0}
    /\ \A u \in Units : u % 2 = 0 /\ WordRange % (u * FieldRange) = 0
    /\ Immediates \subseteq Word
    /\ Values \subseteq Word

VARIABLES stage,    \* where from_bytes and run are
          program,  \* instructions, by index
          decoded,  \* how many of them have been decoded
          usage,    \* register_usage
          iter,     \* iterations of run completed
          pc,       \* vm.pc
          r,        \* vm.reg.r
          visits    \* how often this iteration has fetched each instruction

vars == <<stage, program, decoded, usage, iter, pc, r, visits>>

-----------------------------------------------------------------------------
(* Instructions as they come from the generator, and decoded.              *)

Raw ==
    [op : {"write"}, dst : Reg]                  \* IADD_RS, ISUB_R, IROR_R...
      \union [op : {"rcp"}, dst : Reg, trivial : BOOLEAN]        \* IMUL_RCP
      \union [op : {"swap"}, dst : Reg, src : Reg]                \* ISWAP_R
      \union [op : {"other"}]          \* floating point, CFROUND, ISTORE
      \union [op : {"branch"}, dst : Reg, unit : Units, imm : Immediates]

\* Mutant: bit condition_shift - 1 of the increment is left as it is.
IncrementKeepsLowerBit(imm, unit) ==
    IF (imm \div unit) % 2 = 0 THEN imm + unit ELSE imm

\* Mutant: bit condition_shift of the increment is left as it is.
IncrementKeepsUnitBit(imm, unit) ==
    IF (imm \div (unit \div 2)) % 2 = 1 THEN imm - (unit \div 2) ELSE imm

\* increment | (1 << shift), then & !(1 << (shift - 1))
Increment(imm, unit) ==
    LET set == IF (imm \div unit) % 2 = 0 THEN imm + unit ELSE imm
    IN  IF (set \div (unit \div 2)) % 2 = 1 THEN set - (unit \div 2) ELSE set

NoWrites == [op |-> "plain", writes |-> {}]

Instr ==
    [op : {"plain"}, writes : SUBSET Reg]
      \union [op : {"swap"}, dst : Reg, src : Reg]
      \union [op : {"branch"}, dst : Reg, unit : Units, inc : Word,
              target : -1 .. ProgramSize - 1]

\* Mutant: ISWAP_R is recorded as a change of its destination only.
UsageAfterSwapDst(raw, index) ==
    CASE raw.op = "branch" -> [x \in Reg |-> index]
      [] raw.op = "write" -> [usage EXCEPT ![raw.dst] = index]
      [] raw.op = "rcp" /\ ~raw.trivial -> [usage EXCEPT ![raw.dst] = index]
      [] raw.op = "swap" -> [usage EXCEPT ![raw.dst] = index]
      [] OTHER -> usage

\* Mutant: a branch is recorded as a change of its own register only.
UsageAfterBranchDst(raw, index) ==
    CASE raw.op \in {"branch", "write"} -> [usage EXCEPT ![raw.dst] = index]
      [] raw.op = "rcp" /\ ~raw.trivial -> [usage EXCEPT ![raw.dst] = index]
      [] raw.op = "swap" /\ raw.src # raw.dst ->
            [usage EXCEPT ![raw.dst] = index, ![raw.src] = index]
      [] OTHER -> usage

\* What decoding an instruction does to register_usage.
UsageAfter(raw, index) ==
    CASE raw.op = "branch" -> [x \in Reg |-> index]
      [] raw.op = "write" -> [usage EXCEPT ![raw.dst] = index]
      [] raw.op = "rcp" /\ ~raw.trivial -> [usage EXCEPT ![raw.dst] = index]
      [] raw.op = "swap" /\ raw.src # raw.dst ->
            [usage EXCEPT ![raw.dst] = index, ![raw.src] = index]
      [] OTHER -> usage

\* decode_instruction
Decoded(raw) ==
    CASE raw.op = "write" -> [op |-> "plain", writes |-> {raw.dst}]
      [] raw.op = "rcp" /\ ~raw.trivial -> [op |-> "plain", writes |-> {raw.dst}]
      [] raw.op = "swap" /\ raw.src # raw.dst ->
            [op |-> "swap", dst |-> raw.dst, src |-> raw.src]
      [] raw.op = "branch" ->
            [op |-> "branch", dst |-> raw.dst, unit |-> raw.unit,
             inc |-> Increment(raw.imm, raw.unit), target |-> usage[raw.dst]]
      [] OTHER -> NoWrites

-----------------------------------------------------------------------------
Init ==
    /\ stage = "decode"
    /\ program = [k \in {} |-> NoWrites]
    /\ decoded = 0
    /\ usage = [x \in Reg |-> -1]
    /\ iter = 0
    /\ pc = 0
    /\ r = [x \in Reg |-> 0]
    /\ visits = [k \in 0 .. ProgramSize - 1 |-> 0]

\* One iteration of the decoding loop of from_bytes.
Decode ==
    /\ stage = "decode"
    /\ decoded < ProgramSize
    /\ \E raw \in Raw :
          /\ program' = [k \in 0 .. decoded |->
                            IF k = decoded THEN Decoded(raw) ELSE program[k]]
          /\ usage' = UsageAfter(raw, decoded)
    /\ decoded' = decoded + 1
    /\ UNCHANGED <<stage, iter, pc, r, visits>>

\* run enters its loop; init_vm has cleared the registers.
StartRun ==
    /\ stage = "decode"
    /\ decoded = ProgramSize
    /\ stage' = "prepare"
    /\ UNCHANGED <<program, decoded, usage, iter, pc, r, visits>>

\* The head of an iteration: mixing the scratchpad into the registers.
Prepare ==
    /\ stage = "prepare"
    /\ iter < Iterations
    /\ r' \in [Reg -> Values]
    /\ pc' = 0
    /\ visits' = [k \in 0 .. ProgramSize - 1 |-> 0]
    /\ stage' = "execute"
    /\ UNCHANGED <<program, decoded, usage, iter>>

\* visits counts up to VisitCap, one more than BoundedVisits allows.
VisitCap == 4

\* The fetch at the head of the inner loop, common to every instruction.
Fetch ==
    /\ stage = "execute"
    /\ pc < ProgramSize
    /\ visits' = [visits EXCEPT ![pc] = IF @ < VisitCap THEN @ + 1 ELSE @]
    /\ UNCHANGED <<stage, program, decoded, usage, iter>>

\* The effect of every instruction but ISWAP_R and CBRANCH.
ExecPlain ==
    /\ Fetch
    /\ program[pc].op = "plain"
    /\ \E v \in [program[pc].writes -> Values] :
          r' = [x \in Reg |-> IF x \in program[pc].writes THEN v[x] ELSE r[x]]
    /\ pc' = pc + 1

ExecSwap ==
    /\ Fetch
    /\ program[pc].op = "swap"
    /\ LET i == program[pc]
       IN  r' = [r EXCEPT ![i.dst] = r[i.src], ![i.src] = r[i.dst]]
    /\ pc' = pc + 1

WrappingAdd(v, w) == (v + w) % WordRange

CondField(v, unit) == (v \div unit) % FieldRange

\* Mutant: a branch goes to its target, not past it.
PcAfterBranchAtTarget(i, v) ==
    IF CondField(v, i.unit) = 0 THEN i.target ELSE pc + 1

\* The assignment of exec_cbranch and the increment of run that follows it.
PcAfterBranch(i, v) ==
    (IF CondField(v, i.unit) = 0 THEN i.target ELSE pc) + 1

ExecBranch ==
    /\ Fetch
    /\ program[pc].op = "branch"
    /\ LET i == program[pc]
           v == WrappingAdd(r[i.dst], i.inc)
       IN  /\ r' = [r EXCEPT ![i.dst] = v]
           /\ pc' = PcAfterBranch(i, v)

\* The tail of an iteration: a dataset item is mixed into the registers.
Finish ==
    /\ stage = "execute"
    /\ pc >= ProgramSize
    /\ r' \in [Reg -> Values]
    /\ iter' = iter + 1
    /\ stage' = "prepare"
    /\ UNCHANGED <<program, decoded, usage, pc, visits>>

Returned ==
    /\ stage = "prepare"
    /\ iter = Iterations
    /\ UNCHANGED vars

Next ==
    \/ Decode \/ StartRun \/ Prepare
    \/ ExecPlain \/ ExecSwap \/ ExecBranch
    \/ Finish \/ Returned

Spec == Init /\ [][Next]_vars

\* run is one sequential call: it takes its steps until it returns.
FairSpec == Spec /\ WF_vars(Next)

-----------------------------------------------------------------------------
TypeOK ==
    /\ stage \in {"decode", "prepare", "execute"}
    /\ decoded \in 0 .. ProgramSize
    /\ program \in [0 .. decoded - 1 -> Instr]
    /\ usage \in [Reg -> -1 .. decoded - 1]
    /\ iter \in 0 .. Iterations
    /\ pc \in 0 .. ProgramSize
    /\ r \in [Reg -> Word]
    /\ visits \in [0 .. ProgramSize - 1 -> 0 .. VisitCap]

IsBranch(k)    == program[k].op = "branch"
Modifies(i, x) == \/ i.op = "plain" /\ x \in i.writes
                  \/ i.op = "swap" /\ x \in {i.dst, i.src}
Sets(i, x)     == i.op = "branch" \/ Modifies(i, x)

(***************************************************************************)
(* The rule of RandomX for the target of a branch: the last instruction    *)
(* before it that modifies its register or is itself a branch, or -1.      *)
(***************************************************************************)
TargetsCanonical ==
    \A j \in 0 .. decoded - 1 : IsBranch(j) =>
        LET t == program[j].target
            x == program[j].dst
        IN  /\ t \in -1 .. j - 1
            /\ t # -1 => Sets(program[t], x)
            /\ \A k \in t + 1 .. j - 1 : ~Sets(program[k], x)

\* The unchecked fetch of run: "Branch targets are decode-time instruction
\* indices in -1..255; the loop increment makes the next fetched index
\* 0..255".
FetchInBounds ==
    stage = "execute" /\ pc < ProgramSize => pc \in DOMAIN program

(***************************************************************************)
(* No instruction is fetched more than three times in an iteration: a      *)
(* branch is taken at most twice in a row, since its increment has bit     *)
(* condition_shift set and the bit below clear, and the loops it forms do  *)
(* not nest.  So run, which has no counter, always ends an iteration.      *)
(***************************************************************************)
BoundedVisits == \A k \in 0 .. ProgramSize - 1 : visits[k] < VisitCap

\* While the body of a branch is executed its register keeps its value: the
\* only change between two executions of the branch is its own increment.
BodyKeepsRegister ==
    [][ \A j \in 0 .. decoded - 1 :
            /\ stage = "execute" /\ pc < ProgramSize
            /\ IsBranch(j) /\ program[j].target < pc /\ pc < j
            => r'[program[j].dst] = r[program[j].dst] ]_vars

\* run returns, whatever the program and the data.
Terminates == <>(stage = "prepare" /\ iter = Iterations)

=============================================================================
