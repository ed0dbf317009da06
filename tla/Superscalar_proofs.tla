------------------------- MODULE Superscalar_proofs -------------------------
(***************************************************************************)
(* The generator of superscalar programs, for every target latency, size,  *)
(* number of registers and stream of random bytes and words.               *)
(***************************************************************************)
EXTENDS Superscalar, FiniteSetTheorems, SequenceTheorems, TLAPS

Stages  == {"fetch", "slot", "draw", "redraw", "schedule", "source", "destination", "commit", "next", "measure", "done"}
Buffers == {Buffer484, Buffer7333, Buffer3733, Buffer493, Buffer4444, Buffer3310}

Par          == Words \union Reg \union {None, 0}
RegisterType == [latency : Nat, group : Opcodes \union {"INVALID"}, par : Par]
Ports        == {"P0", "P1", "P5"}

\* A macro-op is being placed.
Active == stage \in {"draw", "redraw", "schedule", "source", "destination", "commit"}
\* Its ports have not been looked for.
Unscheduled == stage \in {"draw", "redraw", "schedule"}
\* Macro-ops of the current instruction are left.
Pending == mop < Size(instr)

HighAt(k) == instr.op \in HighMultiply /\ mop = k

-----------------------------------------------------------------------------
(* The inductive invariant.                                                *)

Typed ==
    /\ stage \in Stages
    /\ buffer \in Buffers \union {Buffer(0, <<>>)} /\ slot \in 0 .. Len(buffer.counts)
    /\ instr \in InstrType /\ mop \in 0 .. 3
    /\ cycle \in Nat /\ dep \in Nat /\ top \in 0 .. cycle /\ at \in Nat \union {None}
    /\ decode_cycle \in 0 .. Latency /\ mul_count \in 0 .. Len(prog)
    /\ throw_away_count \in 0 .. MaxThrowaway
    /\ ports_saturated \in BOOLEAN
    /\ busy \subseteq (0 .. CycleMapSize - 1) \X Ports
    /\ registers \in [Reg -> RegisterType]
    /\ prog \in Seq(InstrType) /\ Len(prog) <= MaxSize
    /\ measured \in 0 .. Len(prog) /\ asic \in [Reg -> 0 .. measured]

\* What the loops have checked.
Loops ==
    /\ stage \in {"slot", "next"} \/ Active => decode_cycle < Latency
    /\ Active => Pending /\ slot < Len(buffer.counts)
    /\ Pending => Len(prog) < MaxSize

\* The slot in front is the one the macro-op needs.
FitsHere ==
    /\ slot < Len(buffer.counts)
    /\ \/ Size(instr) = 1 /\ mop = 0 /\ buffer.counts[slot + 1] \in SlotSize(instr.op)
       \/ HighAt(0) /\ buffer.counts[slot + 1] = 3 /\ slot + 1 = Len(buffer.counts)
       \/ HighAt(1) /\ buffer = Buffer3310 /\ slot = 0
       \/ HighAt(2) /\ buffer = Buffer3310 /\ slot = 1
       \/ instr.op = "IMUL_RCP" /\ mop = 0 /\ buffer.counts[slot + 1] = 10 /\ slot + 1 = Len(buffer.counts)
       \/ instr.op = "IMUL_RCP" /\ mop = 1 /\ buffer.counts[1] = 4 /\ slot = 0

\* An instruction of several macro-ops begins in the last slot of a buffer.
Fit ==
    /\ Active => FitsHere
    /\ stage = "slot" /\ Pending => mop # 0 /\ (FitsHere \/ (slot = Len(buffer.counts) /\ mop = 1))
    /\ stage \in {"next", "fetch"} /\ Pending /\ ~ports_saturated => mop = 1

\* After the ports are saturated only an eliminated macro-op is still placed.
Saturated ==
    ports_saturated =>
        /\ Active => HighAt(2)
        /\ stage = "slot" /\ Pending => HighAt(2) \/ slot = Len(buffer.counts)

\* Until then the last cycles of the map are free, and every result is ready
\* before its end.
Free ==
    ~ports_saturated =>
        /\ \A b \in busy : b[1] < Latency
        /\ \A x \in Reg : registers[x].latency < CycleMapSize

Placing == stage \in {"source", "destination", "commit"}

\* Where a macro-op is placed.
Times ==
    /\ Placing => at \in Nat /\ cycle <= at
    /\ Placing /\ MopAt(instr, mop).uop1 # {} => at < CycleMapSize
    /\ HighAt(0) /\ Unscheduled => cycle = top
    /\ HighAt(0) /\ stage \in {"source", "destination"} => at = top
    /\ HighAt(0) /\ stage = "commit" => at <= top + 3

\* The operands that have been drawn, and when they are ready.
Operands ==
    /\ InfoOf(instr.op).src = None => instr.src = None
    /\ stage \in {"destination", "commit"} /\ mop = InfoOf(instr.op).src =>
          instr.src \in Reg /\ registers[instr.src].latency <= at
    /\ stage = "commit" /\ mop = InfoOf(instr.op).dst =>
          instr.dst \in Reg /\ registers[instr.dst].latency <= at
    /\ HighAt(1) => instr.dst \in Reg /\ registers[instr.dst].latency <= cycle + 3
    /\ HighAt(2) => instr.dst \in Reg /\ instr.src \in Reg

\* The group parameter of an instruction is its source when it has one.
ParOf(i) ==
    i.par = CASE i.op \in {"ISUB_R", "IXOR_R", "IADD_RS", "IMUL_R"} -> i.src
              [] i.op = "IROR_C" -> 0
              [] OTHER -> None

\* An instruction as select_source and select_destination leave it.
Selected(i) ==
    /\ i.op \in Opcodes
    /\ i.dst \in Reg
    /\ i.src \in (IF InfoOf(i.op).src = None THEN {None} ELSE Reg)
    /\ i.op \notin HighMultiply => i.src # i.dst /\ ParOf(i)
    /\ i.op = "IADD_RS" => i.dst # Displaced

\* What is known of the instruction in progress.
Current ==
    /\ Active => instr.op \in Opcodes
    /\ (Unscheduled \/ stage = "source") /\ instr.op \notin HighMultiply /\ Pending =>
          instr.par = CASE instr.op \in {"ISUB_R", "IXOR_R", "IADD_RS", "IMUL_R", "IROR_C"} -> 0
                        [] OTHER -> None
    /\ Pending /\ instr.op = "IMUL_RCP" => instr.par = None
    /\ stage \in {"destination", "commit"} /\ instr.op \notin HighMultiply => ParOf(instr)
    /\ stage = "commit" /\ mop = InfoOf(instr.op).dst =>
          /\ instr.op \notin HighMultiply =>
                /\ instr.src # instr.dst
                /\ registers[instr.dst].group # OpGroup(instr.op) \/ registers[instr.dst].par # instr.par
          /\ instr.op = "IADD_RS" => instr.dst # Displaced

\* A register remembers the last instruction on it; a high multiply has
\* already replaced it when its last macro-op is pending.
History ==
    /\ HighAt(2) => /\ registers[instr.dst].group = OpGroup(instr.op)
                    /\ registers[instr.dst].par = instr.par
    /\ \A j \in Indices :
          (\A m \in j + 1 .. Len(prog) - 1 : At(m).dst # At(j).dst) =>
              \/ HighAt(2) /\ instr.dst = At(j).dst
              \/ /\ registers[At(j).dst].group = OpGroup(At(j).op)
                 /\ registers[At(j).dst].par = At(j).par

\* Two instructions in a row on one register.
Apart(j, k) ==
    /\ At(j).dst = At(k).dst
    /\ \A m \in j + 1 .. k - 1 : At(m).dst # At(k).dst
    /\ OpGroup(At(j).op) = OpGroup(At(k).op)
    /\ At(k).op \notin HighMultiply
    => At(j).src # At(k).src

Clean ==
    /\ \A k \in Indices : Selected(At(k))
    /\ \A k \in Indices : \A j \in 0 .. k - 1 : Apart(j, k)

IInv ==
    /\ Typed /\ Loops /\ Fit /\ Saturated /\ Free /\ Times /\ Operands /\ Current /\ History /\ Clean

-----------------------------------------------------------------------------
(* Lemmas on selection and scheduling.                                     *)

\* The elements of a finite set of integers are numbered by those below them.
LEMMA Ranked ==
    ASSUME NEW S \in SUBSET Int, IsFiniteSet(S), NEW n \in 0 .. Cardinality(S) - 1
    PROVE  \E x \in S : Cardinality({y \in S : y < x}) = n
  <1> DEFINE Below(x) == {y \in S : y < x}
             T == 0 .. Cardinality(S) - 1
             rank == [x \in S |-> Cardinality(Below(x))]
  <1>1. Cardinality(S) \in Nat
    BY FS_CardinalityType
  <1>2. ASSUME NEW x \in S
        PROVE  IsFiniteSet(Below(x)) /\ Cardinality(Below(x)) \in Nat /\ Cardinality(Below(x)) < Cardinality(S)
    <2>1. Below(x) \in SUBSET S /\ x \notin Below(x)
      OBVIOUS
    <2>2. /\ IsFiniteSet(Below(x)) /\ Cardinality(Below(x)) <= Cardinality(S)
          /\ Cardinality(S) = Cardinality(Below(x)) => S = Below(x)
      BY <2>1, FS_Subset
    <2>3. Cardinality(Below(x)) \in Nat
      BY <2>2, FS_CardinalityType
    <2> QED
      BY <1>1, <2>1, <2>2, <2>3
  <1>3. ASSUME NEW x \in S, NEW z \in S, x < z
        PROVE  Cardinality(Below(x)) < Cardinality(Below(z))
    <2>0. \A y \in S : y \in Int /\ (y < x => y < z)
      BY <1>3
    <2>a. x \in Below(z) /\ x \notin Below(x)
      BY <1>3
    <2>b. \A y \in Below(x) : y \in Below(z)
      BY <2>0
    <2>1. Below(x) \in SUBSET Below(z) /\ x \in Below(z) /\ x \notin Below(x)
      BY <2>a, <2>b
    <2>2. IsFiniteSet(Below(z)) /\ Cardinality(Below(x)) \in Nat /\ Cardinality(Below(z)) \in Nat
      BY <1>2
    <2>3. /\ Cardinality(Below(x)) <= Cardinality(Below(z))
          /\ Cardinality(Below(z)) = Cardinality(Below(x)) => Below(z) = Below(x)
      BY <2>1, <2>2, FS_Subset
    <2> QED
      BY <2>1, <2>2, <2>3
  <1> HIDE DEF Below
  <1>4. rank \in [S -> T]
    BY <1>1, <1>2
  <1>5. \A x, z \in S : rank[x] = rank[z] => x = z
    <2> SUFFICES ASSUME NEW x \in S, NEW z \in S, x # z
                 PROVE  Cardinality(Below(x)) # Cardinality(Below(z))
      OBVIOUS
    <2>1. x < z \/ z < x
      OBVIOUS
    <2>2. Cardinality(Below(x)) \in Nat /\ Cardinality(Below(z)) \in Nat
      BY <1>2
    <2> QED
      BY <1>3, <2>1, <2>2
  <1>6. rank \in Injection(S, T)
    BY <1>4, <1>5 DEF Injection, IsInjective
  <1>7. IsFiniteSet(T) /\ Cardinality(T) = Cardinality(S)
    BY <1>1, FS_Interval
  <1>8. rank \in Surjection(S, T)
    BY <1>6, <1>7, FS_Injection
  <1>9. PICK x \in S : rank[x] = n
    BY <1>8 DEF Surjection
  <1> QED
    BY <1>9 DEF Below

LEMMA SelectMember ==
    ASSUME NEW S \in SUBSET Reg, S # {}, NEW word \in Words
    PROVE  Select(S, word) \in S
  <1>1. RegCount \in Nat /\ word \in Nat
    BY SuperscalarAssumption
  <1>2. IsFiniteSet(Reg) /\ Reg \in SUBSET Int
    BY <1>1, FS_Interval DEF Reg
  <1>3. IsFiniteSet(S) /\ S \in SUBSET Int
    BY <1>2, FS_Subset
  <1>4. Cardinality(S) \in Nat \ {0}
    BY <1>3, FS_CardinalityType, FS_EmptySet
  <1>5. word % Cardinality(S) \in 0 .. Cardinality(S) - 1
    BY <1>1, <1>4
  <1>6. \E x \in S : Cardinality({y \in S : y < x}) = word % Cardinality(S)
    BY <1>3, <1>5, Ranked
  <1> QED
    BY <1>6 DEF Select

LEMMA LeastMember ==
    ASSUME NEW a \in Int, NEW b \in Int, NEW S \in SUBSET (a .. b), S # {}
    PROVE  Least(S) \in S /\ \A y \in S : Least(S) <= y
  <1>0. IsFiniteSet(a .. b)
    BY FS_Interval
  <1> DEFINE I == a .. b
  <1>a. S \in SUBSET I /\ \A y \in I : y \in Int
    OBVIOUS
  <1>b. IsFiniteSet(I)
    BY <1>0
  <1> HIDE DEF I
  <1>1. IsFiniteSet(S) /\ S \in SUBSET Int
    BY <1>a, <1>b, FS_Subset
  <1>2. Cardinality(S) \in Nat \ {0}
    BY <1>1, FS_CardinalityType, FS_EmptySet
  <1>3. PICK x \in S : Cardinality({y \in S : y < x}) = 0
    BY <1>1, <1>2, Ranked
  <1>4. IsFiniteSet({y \in S : y < x})
    BY <1>1, FS_Subset
  <1>5. {y \in S : y < x} = {}
    BY <1>3, <1>4, FS_EmptySet
  <1>6. \A y \in S : x <= y
    BY <1>1, <1>5
  <1> QED
    BY <1>6 DEF Least

\* What schedule_mop returns.
LEMMA Scheduled ==
    ASSUME NEW m, m.uop1 \subseteq Ports, m.uop2 \subseteq Ports, m.dependent \in BOOLEAN,
           NEW from \in Nat, NEW after \in Nat
    PROVE  LET start == IF m.dependent /\ after > from THEN after ELSE from
               c     == ScheduleMop(m, from, after)
           IN  /\ m.uop1 = {} => c = start
               /\ c # None => c \in Nat /\ from <= c
               /\ m.uop1 # {} /\ c # None => c < CycleMapSize
               /\ \A d \in start .. CycleMapSize - 1 :
                     (\A uop \in {m.uop1, m.uop2} \ {{}} : FreePorts(uop, d) # {}) => c # None
  <1> DEFINE start == IF m.dependent /\ after > from THEN after ELSE from
             open == {c \in start .. CycleMapSize - 1 :
                        \A uop \in {m.uop1, m.uop2} \ {{}} : FreePorts(uop, c) # {}}
             c == ScheduleMop(m, from, after)
  <1>1. c = IF m.uop1 = {} THEN start ELSE IF open = {} THEN None ELSE Least(open)
    BY DEF ScheduleMop
  <1>2. start \in Nat /\ from <= start /\ CycleMapSize \in Nat
    BY SuperscalarAssumption DEF CycleMapSize
  <1>3. open \in SUBSET (start .. CycleMapSize - 1)
    OBVIOUS
  <1>4. ASSUME NEW d \in start .. CycleMapSize - 1,
               \A uop \in {m.uop1, m.uop2} \ {{}} : FreePorts(uop, d) # {}
        PROVE  d \in open
    BY <1>4
  <1> HIDE DEF start, open, c
  <1>5. open # {} => Least(open) \in start .. CycleMapSize - 1
    <2> DEFINE end == CycleMapSize - 1
    <2>1. start \in Int /\ end \in Int /\ open \in SUBSET (start .. end)
      BY <1>2, <1>3
    <2> HIDE DEF end
    <2>2. open # {} => Least(open) \in open
      BY <2>1, LeastMember
    <2> QED
      BY <2>1, <2>2 DEF end
  <1>6. None = -1
    BY DEF None
  <1>7. m.uop1 = {} => c = start
    BY <1>1
  <1>8. c # None => c \in Nat /\ from <= c
    BY <1>1, <1>2, <1>5, <1>6
  <1>9. m.uop1 # {} /\ c # None => c < CycleMapSize
    BY <1>1, <1>2, <1>5, <1>6
  <1>10. \A d \in start .. CycleMapSize - 1 :
            (\A uop \in {m.uop1, m.uop2} \ {{}} : FreePorts(uop, d) # {}) => c # None
    BY <1>1, <1>2, <1>4, <1>5, <1>6
  <1> QED
    BY <1>7, <1>8, <1>9, <1>10 DEF start, c

-----------------------------------------------------------------------------
(* Lemmas on instructions.                                                 *)

Single == Opcodes \ (HighMultiply \union {"IMUL_RCP"})

LEMMA SingleInfo ==
    ASSUME NEW op \in Single
    PROVE  /\ Len(InfoOf(op).mops) = 1 /\ InfoOf(op).result = 0 /\ InfoOf(op).dst = 0
           /\ InfoOf(op).src = IF op \in {"ISUB_R", "IXOR_R", "IADD_RS", "IMUL_R"} THEN 0 ELSE None
           /\ InfoOf(op).mops[1] \in {Alu3, Lea, Ror, MulRR, AluImm}
  BY DEF Single, Opcodes, HighMultiply, InfoOf, Info

LEMMA HighInfo ==
    ASSUME NEW op \in HighMultiply
    PROVE  /\ InfoOf(op).mops = <<Mov, Mul, Mov>> /\ InfoOf(op).result = 1 /\ InfoOf(op).dst = 0
           /\ InfoOf(op).src = 1
  BY DEF HighMultiply, InfoOf, Info

LEMMA RcpInfo ==
    /\ InfoOf("IMUL_RCP").mops = <<MovImm, MulRRDep>> /\ InfoOf("IMUL_RCP").result = 1
    /\ InfoOf("IMUL_RCP").dst = 1 /\ InfoOf("IMUL_RCP").src = None
  BY DEF InfoOf, Info

LEMMA NullInfo ==
    /\ Len(InfoOf("INVALID").mops) = 0 /\ InfoOf("INVALID").src = 0 /\ InfoOf("INVALID").dst = 0
  BY DEF InfoOf, Info

\* The macro-ops.
LEMMA MopKinds ==
    \A m \in {Alu3, Lea, Ror, MulRR, AluImm, Mov, Mul, MovImm, MulRRDep} :
        /\ m.uop1 \subseteq Ports /\ m.uop2 \subseteq Ports /\ m.dependent \in BOOLEAN
        /\ m.latency \in 1 .. 4 /\ m.size \in Nat
        /\ m # Mov => m.uop1 # {}
  <1>1. \A m \in {Alu3, Lea, Ror, AluImm, MovImm} :
            /\ m.uop1 \subseteq Ports /\ m.uop1 # {} /\ m.uop2 = {} /\ m.dependent = FALSE
            /\ m.latency = 1 /\ m.size \in Nat
    BY DEF Alu3, Lea, Ror, AluImm, MovImm, MacroOp, Ports
  <1>2. /\ MulRR.uop1 \subseteq Ports /\ MulRR.uop1 # {} /\ MulRR.uop2 = {} /\ MulRR.dependent = FALSE
        /\ MulRR.latency = 3 /\ MulRR.size \in Nat
    BY DEF MulRR, MacroOp, Ports
  <1>5. /\ MulRRDep.uop1 \subseteq Ports /\ MulRRDep.uop1 # {} /\ MulRRDep.uop2 = {}
        /\ MulRRDep.dependent = TRUE /\ MulRRDep.latency = 3 /\ MulRRDep.size \in Nat
    BY DEF MulRR, MulRRDep, MacroOp, Ports
  <1>3. /\ Mul.uop1 \subseteq Ports /\ Mul.uop1 # {} /\ Mul.uop2 \subseteq Ports
        /\ Mul.dependent = FALSE /\ Mul.latency = 4 /\ Mul.size \in Nat
    BY DEF Mul, MacroOp, Ports
  <1>4. /\ Mov.uop1 = {} /\ Mov.uop2 = {} /\ Mov.dependent = FALSE /\ Mov.latency = 1 /\ Mov.size \in Nat
    BY DEF Mov, MacroOp
  <1>6. 1 \in 1 .. 4 /\ 3 \in 1 .. 4 /\ 4 \in 1 .. 4 /\ TRUE \in BOOLEAN /\ FALSE \in BOOLEAN
    OBVIOUS
  <1>7. {} \subseteq Ports
    OBVIOUS
  <1> QED
    BY <1>1, <1>2, <1>3, <1>4, <1>5, <1>6, <1>7, Zenon

\* What the proofs need of an instruction, by the number of its macro-ops.
LEMMA Kinds ==
    ASSUME NEW i \in InstrType
    PROVE  /\ i.op \in Single \/ i.op \in HighMultiply \/ i.op = "IMUL_RCP" \/ i.op = "INVALID"
           /\ i.op \in Single =>
                 /\ i.op \notin HighMultiply /\ i.op # "IMUL_RCP" /\ i.op # "INVALID"
                 /\ Size(i) = 1
           /\ i.op \in HighMultiply =>
                 /\ i.op # "IMUL_RCP" /\ i.op # "INVALID" /\ i.op \in Opcodes
                 /\ Size(i) = 3
           /\ i.op = "IMUL_RCP" => i.op \notin HighMultiply /\ i.op \in Opcodes /\ Size(i) = 2
           /\ i.op = "INVALID" => i.op \notin HighMultiply /\ i.op \notin Opcodes /\ Size(i) = 0
           /\ Size(i) \in 0 .. 3
           /\ i.op \in Single => i.op \in Opcodes
  <1>0. i.op \in Opcodes \union {"INVALID"}
    BY DEF InstrType
  <1>1. i.op \in Single \/ i.op \in HighMultiply \/ i.op = "IMUL_RCP" \/ i.op = "INVALID"
    BY <1>0 DEF Single
  <1>2. /\ i.op \in Single => i.op \in Opcodes /\ i.op \notin HighMultiply /\ i.op # "IMUL_RCP"
        /\ i.op \in Opcodes => i.op # "INVALID"
        /\ i.op \in HighMultiply => i.op \in Opcodes /\ i.op # "IMUL_RCP"
        /\ "IMUL_RCP" \in Opcodes /\ "IMUL_RCP" \notin HighMultiply /\ "INVALID" \notin HighMultiply
    BY DEF Single, HighMultiply, Opcodes
  <1>3. /\ i.op \in Single => Size(i) = 1
        /\ i.op = "INVALID" => Size(i) = 0
    BY SingleInfo, NullInfo DEF Size
  <1>4. i.op \in HighMultiply => Size(i) = 3
    BY HighInfo DEF Size
  <1>5. i.op = "IMUL_RCP" => Size(i) = 2
    BY RcpInfo DEF Size
  <1> QED
    BY <1>1, <1>2, <1>3, <1>4, <1>5

\* The macro-ops of an instruction.
LEMMA Mops ==
    ASSUME NEW i \in InstrType
    PROVE  /\ i.op \in Single => MopAt(i, 0) \in {Alu3, Lea, Ror, MulRR, AluImm}
           /\ i.op \in HighMultiply => MopAt(i, 0) = Mov /\ MopAt(i, 1) = Mul /\ MopAt(i, 2) = Mov
           /\ i.op = "IMUL_RCP" => MopAt(i, 0) = MovImm /\ MopAt(i, 1) = MulRRDep
  <1>1. 0 + 1 = 1 /\ 1 + 1 = 2 /\ 2 + 1 = 3
    OBVIOUS
  <1>2. i.op \in Single => MopAt(i, 0) \in {Alu3, Lea, Ror, MulRR, AluImm}
    BY <1>1, SingleInfo DEF MopAt
  <1>3. i.op \in HighMultiply => MopAt(i, 0) = Mov /\ MopAt(i, 1) = Mul /\ MopAt(i, 2) = Mov
    BY <1>1, HighInfo DEF MopAt
  <1>4. i.op = "IMUL_RCP" => MopAt(i, 0) = MovImm /\ MopAt(i, 1) = MulRRDep
    BY <1>1, RcpInfo DEF MopAt
  <1> QED
    BY <1>2, <1>3, <1>4

LEMMA MovKind == Mov.uop1 = {} /\ Mov.uop2 = {} /\ Mov.dependent = FALSE /\ Mov.size = 3 /\ Mov.latency = 1
  BY DEF Mov, MacroOp

LEMMA MulKind == Mul.uop1 # {} /\ Mul.latency = 4 /\ Mul.size = 3 /\ MulRRDep.size = 4 /\ MovImm.size = 10
  BY DEF Mul, MulRRDep, MulRR, MovImm, MacroOp

\* The macro-op that is next.
LEMMA NextMop ==
    ASSUME NEW i \in InstrType, NEW k \in 0 .. 3, k < Size(i)
    PROVE  LET m == MopAt(i, k)
           IN  /\ m.uop1 \subseteq Ports /\ m.uop2 \subseteq Ports /\ m.dependent \in BOOLEAN
               /\ m.latency \in 1 .. 4
               /\ m.uop1 = {} => m = Mov /\ i.op \in HighMultiply /\ k \in {0, 2}
  <1> DEFINE K == {Alu3, Lea, Ror, MulRR, AluImm, Mov, Mul, MovImm, MulRRDep}
             m == MopAt(i, k)
  <1>1. CASE i.op \in Single
    <2>1. k = 0
      BY <1>1, Kinds
    <2>2. m \in {Alu3, Lea, Ror, MulRR, AluImm}
      BY <1>1, <2>1, Mops
    <2>3. m.uop1 # {}
      BY <2>2 DEF Alu3, Lea, Ror, MulRR, AluImm, MacroOp
    <2> QED
      BY <2>2, <2>3, MopKinds
  <1>2. CASE i.op \in HighMultiply
    <2>1. k \in {0, 1, 2}
      BY <1>2, Kinds
    <2>2. (k \in {0, 2} /\ m = Mov) \/ (k = 1 /\ m = Mul)
      BY <1>2, <2>1, Mops
    <2> QED
      BY <1>2, <2>2, MopKinds, MulKind
  <1>3. CASE i.op = "IMUL_RCP"
    <2>1. k \in {0, 1}
      BY <1>3, Kinds
    <2>2. m \in {MovImm, MulRRDep}
      BY <1>3, <2>1, Mops
    <2>3. m.uop1 # {}
      BY <2>2 DEF MovImm, MulRRDep, MulRR, MacroOp
    <2> QED
      BY <2>2, <2>3, MopKinds
  <1> QED
    BY <1>1, <1>2, <1>3, Kinds

\* The slots fetch_next provides, and the opcodes create_for_slot draws for them.
LEMMA BufferCounts ==
    ASSUME NEW b \in Buffers \union {Buffer(0, <<>>)}
    PROVE  /\ Len(b.counts) \in Nat
           /\ b \in Buffers => Len(b.counts) \in 3 .. 4
           /\ b = Buffer3310 => Len(b.counts) = 3 /\ b.counts[1] = 3 /\ b.counts[2] = 3
           /\ b \in {Buffer484, Buffer493, Buffer4444} => b.counts[1] = 4
  BY DEF Buffers, Buffer, Buffer484, Buffer7333, Buffer3733, Buffer493, Buffer4444, Buffer3310

LEMMA CreatedForSlot ==
    ASSUME NEW b \in Buffers \union {Buffer(0, <<>>)}, NEW k \in Nat, k < Len(b.counts), NEW byte \in Nat
    PROVE  LET op == OpcodeForSlot(b.counts[k + 1], b.index, Len(b.counts) = k + 1, byte)
           IN  \/ op \in Single /\ b.counts[k + 1] \in SlotSize(op)
               \/ op \in HighMultiply /\ b.counts[k + 1] = 3 /\ Len(b.counts) = k + 1
               \/ op = "IMUL_RCP" /\ b.counts[k + 1] = 10 /\ Len(b.counts) = k + 1
  <1> DEFINE size == b.counts[k + 1]
             last == (Len(b.counts) = k + 1)
             op   == OpcodeForSlot(size, b.index, last, byte)
  <1>1. size \in {3, 4, 7, 8, 9, 10} /\ (size = 10 => last)
    <2>1. CASE b = Buffer484
      <3>1. b.counts = <<4, 8, 4>> /\ k \in {0, 1, 2}
        BY <2>1 DEF Buffer484, Buffer
      <3> QED
        BY <3>1
    <2>2. CASE b = Buffer7333
      <3>1. b.counts = <<7, 3, 3, 3>> /\ k \in {0, 1, 2, 3}
        BY <2>2 DEF Buffer7333, Buffer
      <3> QED
        BY <3>1
    <2>3. CASE b = Buffer3733
      <3>1. b.counts = <<3, 7, 3, 3>> /\ k \in {0, 1, 2, 3}
        BY <2>3 DEF Buffer3733, Buffer
      <3> QED
        BY <3>1
    <2>4. CASE b = Buffer493
      <3>1. b.counts = <<4, 9, 3>> /\ k \in {0, 1, 2}
        BY <2>4 DEF Buffer493, Buffer
      <3> QED
        BY <3>1
    <2>5. CASE b = Buffer4444
      <3>1. b.counts = <<4, 4, 4, 4>> /\ k \in {0, 1, 2, 3}
        BY <2>5 DEF Buffer4444, Buffer
      <3> QED
        BY <3>1
    <2>6. CASE b = Buffer3310
      <3>1. b.counts = <<3, 3, 10>> /\ k \in {0, 1, 2}
        BY <2>6 DEF Buffer3310, Buffer
      <3> QED
        BY <3>1
    <2>7. b # Buffer(0, <<>>)
      BY DEF Buffer
    <2> HIDE DEF size, last
    <2> QED
      BY <2>1, <2>2, <2>3, <2>4, <2>5, <2>6, <2>7 DEF Buffers
  <1>2. (byte % 2) + 1 \in {1, 2} /\ (byte % 4) + 1 \in {1, 2, 3, 4}
    OBVIOUS
  <1> HIDE DEF size, last
  <1>3. /\ size = 3 => op \in {"ISUB_R", "IXOR_R"} \/ (last /\ op \in {"IMULH_R", "ISMULH_R"})
        /\ size = 4 => op \in {"IMUL_R", "IROR_C", "IADD_RS"}
        /\ size = 7 => op \in {"IXOR_C7", "IADD_C7"}
        /\ size = 8 => op \in {"IXOR_C8", "IADD_C8"}
        /\ size = 9 => op \in {"IXOR_C9", "IADD_C9"}
        /\ size = 10 => op = "IMUL_RCP"
    <2> DEFINE two == (byte % 2) + 1
               four == (byte % 4) + 1
    <2>1. two \in {1, 2} /\ four \in {1, 2, 3, 4}
      BY <1>2
    <2>2. op = CASE size = 3 -> (IF last THEN <<"ISUB_R", "IXOR_R", "IMULH_R", "ISMULH_R">>[four]
                                 ELSE <<"ISUB_R", "IXOR_R">>[two])
                 [] size = 4 -> (IF b.index = 4 /\ ~last THEN "IMUL_R" ELSE <<"IROR_C", "IADD_RS">>[two])
                 [] size = 7 -> <<"IXOR_C7", "IADD_C7">>[two]
                 [] size = 8 -> <<"IXOR_C8", "IADD_C8">>[two]
                 [] size = 9 -> <<"IXOR_C9", "IADD_C9">>[two]
                 [] size = 10 -> "IMUL_RCP"
      BY DEF OpcodeForSlot
    <2> HIDE DEF two, four, op
    <2>3. size = 3 => op \in {"ISUB_R", "IXOR_R"} \/ (last /\ op \in {"IMULH_R", "ISMULH_R"})
      BY <2>1, <2>2
    <2>4. size = 4 => op \in {"IMUL_R", "IROR_C", "IADD_RS"}
      BY <2>1, <2>2
    <2>5. size \in {7, 8, 9, 10} =>
             op = CASE size = 7 -> <<"IXOR_C7", "IADD_C7">>[two]
                    [] size = 8 -> <<"IXOR_C8", "IADD_C8">>[two]
                    [] size = 9 -> <<"IXOR_C9", "IADD_C9">>[two]
                    [] size = 10 -> "IMUL_RCP"
      BY <2>2
    <2>6. /\ size = 7 => op \in {"IXOR_C7", "IADD_C7"}
          /\ size = 8 => op \in {"IXOR_C8", "IADD_C8"}
          /\ size = 9 => op \in {"IXOR_C9", "IADD_C9"}
          /\ size = 10 => op = "IMUL_RCP"
      BY <2>1, <2>5
    <2> QED
      BY <2>3, <2>4, <2>6
  <1> HIDE DEF op
  <1>4. \A o \in Single : o \notin {"IADD_C8", "IXOR_C8", "IADD_C9", "IXOR_C9"} =>
            SlotSize(o) = {InfoOf(o).mops[1].size}
    <2> SUFFICES ASSUME NEW o \in Single, o \notin {"IADD_C8", "IXOR_C8", "IADD_C9", "IXOR_C9"}
                 PROVE  SlotSize(o) = {InfoOf(o).mops[1].size}
      OBVIOUS
    <2>1. Create(o, 0).op = o
      BY DEF Create
    <2>2. Size(Create(o, 0)) = 1
      BY <2>1, SingleInfo DEF Size
    <2>3. SlotSize(o) = {MopAt(Create(o, 0), x).size : x \in 0 .. 1 - 1}
      BY <2>2 DEF SlotSize
    <2>4. 0 .. 1 - 1 = {0} /\ 0 + 1 = 1
      OBVIOUS
    <2>5. MopAt(Create(o, 0), 0) = InfoOf(o).mops[1]
      BY <2>1, <2>4 DEF MopAt
    <2> QED
      BY <2>3, <2>4, <2>5
  <1>5. /\ SlotSize("IADD_C8") = {8} /\ SlotSize("IXOR_C8") = {8}
        /\ SlotSize("IADD_C9") = {9} /\ SlotSize("IXOR_C9") = {9}
    BY DEF SlotSize
  <1>6. /\ op \in {"ISUB_R", "IXOR_R"} => op \in Single /\ InfoOf(op).mops[1].size = 3
        /\ op \in {"IMUL_R", "IROR_C", "IADD_RS"} => op \in Single /\ InfoOf(op).mops[1].size = 4
        /\ op \in {"IXOR_C7", "IADD_C7"} => op \in Single /\ InfoOf(op).mops[1].size = 7
    BY DEF Single, Opcodes, HighMultiply, InfoOf, Info, Alu3, MulRR, Ror, Lea, AluImm, MacroOp
  <1>7. op \in {"IXOR_C8", "IADD_C8", "IXOR_C9", "IADD_C9"} => op \in Single
    BY DEF Single, Opcodes, HighMultiply
  <1>8. size = 3 => \/ op \in Single /\ size \in SlotSize(op)
                    \/ op \in HighMultiply /\ last
    <2>1. op \in {"ISUB_R", "IXOR_R"} => op \in Single /\ SlotSize(op) = {3}
      BY <1>4, <1>6
    <2> QED
      BY <1>3, <2>1 DEF HighMultiply
  <1>9. size \in {4, 7} => op \in Single /\ size \in SlotSize(op)
    <2>1. op \in {"IMUL_R", "IROR_C", "IADD_RS"} => op \in Single /\ SlotSize(op) = {4}
      BY <1>4, <1>6
    <2>2. op \in {"IXOR_C7", "IADD_C7"} => op \in Single /\ SlotSize(op) = {7}
      BY <1>4, <1>6
    <2> QED
      BY <1>3, <2>1, <2>2
  <1>10. size \in {8, 9} => op \in Single /\ size \in SlotSize(op)
    BY <1>3, <1>5, <1>7
  <1> QED
    BY <1>1, <1>3, <1>8, <1>9, <1>10 DEF size, last, op

-----------------------------------------------------------------------------
(* The invariant holds initially and every action preserves it.            *)

LEMMA HistorySame ==
    ASSUME History, UNCHANGED <<registers, prog>>,
           UNCHANGED <<instr, mop>> \/ (~HighAt(2) /\ ~HighAt(2)')
    PROVE  History'
  BY DEF History, HighAt, Indices, At

LEMMA CleanSame ==
    ASSUME Clean, UNCHANGED prog
    PROVE  Clean'
  BY DEF Clean, Indices, At, Apart

LEMMA NullType == Null \in InstrType /\ Null.op = "INVALID" /\ Null.src = None
  BY DEF Null, Create, InstrType, InitialPar, HighMultiply

LEMMA InitIInv == Init => IInv
  <1> SUFFICES ASSUME Init PROVE IInv
    OBVIOUS
  <1>1. instr \in InstrType /\ instr.op = "INVALID" /\ instr.src = None /\ Size(instr) = 0
    BY NullType, Kinds DEF Init
  <1>2. instr.op \notin HighMultiply /\ ~Pending /\ ~Active /\ ~Placing
    BY <1>1, Kinds DEF Init, Pending, Active, Placing
  <1>3. Len(prog) = 0 /\ prog \in Seq(InstrType) /\ Indices = {}
    BY DEF Init, Indices
  <1>4. CycleMapSize \in Nat \ {0} /\ Latency \in Nat /\ MaxSize \in Nat /\ MaxThrowaway \in Nat
    BY SuperscalarAssumption DEF CycleMapSize
  <1>5. Typed
    <2>1. registers \in [Reg -> RegisterType]
      BY DEF Init, RegisterType, Par
    <2>2. buffer \in Buffers \union {Buffer(0, <<>>)} /\ Len(buffer.counts) = 0
      BY DEF Init, Buffer
    <2>3. asic \in [Reg -> 0 .. measured]
      BY DEF Init
    <2>4. ports_saturated \in BOOLEAN
      BY DEF Init
    <2>5. busy \subseteq (0 .. CycleMapSize - 1) \X Ports
      BY DEF Init
    <2>6. /\ stage \in Stages /\ slot \in 0 .. Len(buffer.counts) /\ mop \in 0 .. 3
          /\ cycle \in Nat /\ dep \in Nat /\ top \in 0 .. cycle /\ at \in Nat \union {None}
          /\ decode_cycle \in 0 .. Latency /\ mul_count \in 0 .. Len(prog)
          /\ throw_away_count \in 0 .. MaxThrowaway /\ Len(prog) <= MaxSize /\ measured \in 0 .. Len(prog)
      BY <1>3, <1>4, <2>2 DEF Init, Stages
    <2> QED
      BY <1>1, <1>3, <2>1, <2>2, <2>3, <2>4, <2>5, <2>6 DEF Typed
  <1>6. Loops /\ Fit /\ Saturated
    BY <1>2 DEF Init, Loops, Fit, Saturated
  <1>7. Free
    BY <1>4 DEF Init, Free
  <1>8. Times
    BY <1>2 DEF Unscheduled, Init, Times, HighAt
  <1>9. Operands
    BY <1>1, <1>2 DEF Init, Operands, HighAt
  <1>10. Current
    BY <1>2 DEF Unscheduled, Init, Current
  <1>11. History
    BY <1>2, <1>3 DEF History, HighAt
  <1>12. Clean
    BY <1>3 DEF Clean
  <1> QED
    BY <1>5, <1>6, <1>7, <1>8, <1>9, <1>10, <1>11, <1>12 DEF IInv

LEMMA FetchKeeps == IInv /\ FetchBuffer => IInv'
  <1> SUFFICES ASSUME IInv, FetchBuffer PROVE IInv'
    OBVIOUS
  <1> USE DEF IInv
  <1>1. /\ stage = "fetch" /\ stage' = "slot" /\ slot' = 0
        /\ ~ports_saturated /\ decode_cycle < Latency
        /\ UNCHANGED <<instr, mop, cycle, dep, top, at, decode_cycle, mul_count, throw_away_count,
                       ports_saturated, busy, registers, prog, measured, asic>>
    BY DEF FetchBuffer, Generating, clock, made, asics
  <1>2. PICK byte \in Bytes : buffer' = FetchNext(byte)
    BY DEF FetchBuffer
  <1>3. byte \in Nat
    BY SuperscalarAssumption
  <1>4. /\ buffer' \in Buffers
        /\ instr.op \in HighMultiply => buffer' = Buffer3310
        /\ instr.op \notin HighMultiply /\ instr.op = "IMUL_RCP" => buffer' \in {Buffer484, Buffer493, Buffer4444}
    <2>1. (byte % 4) + 1 \in {1, 2, 3, 4}
      BY <1>3
    <2>2. DecodeBuffers[(byte % 4) + 1] \in Buffers
      BY <2>1 DEF DecodeBuffers, Buffers
    <2> QED
      BY <1>2, <2>2 DEF FetchNext, Buffers
  <1>5. Len(buffer'.counts) \in 3 .. 4
    BY <1>4, BufferCounts
  <1>6. Typed'
    BY <1>1, <1>4, <1>5 DEF Typed, Stages
  <1>7. Loops'
    BY <1>1 DEF Loops, Active, Pending
  <1>8. Fit'
    <2> SUFFICES ASSUME Pending' PROVE (mop # 0 /\ FitsHere)'
      BY <1>1 DEF Fit, Active
    <2>1. Pending /\ mop = 1
      BY <1>1 DEF Pending, Fit
    <2>2. instr \in InstrType
      BY DEF Typed
    <2>3. instr.op \in HighMultiply \/ instr.op = "IMUL_RCP"
      BY <2>1, <2>2, Kinds DEF Pending
    <2>4. CASE instr.op \in HighMultiply
      <3>1. mop' = 1 /\ instr'.op \in HighMultiply /\ buffer' = Buffer3310 /\ slot' = 0
        BY <1>1, <1>4, <2>1, <2>4
      <3>2. slot' < Len(buffer'.counts)
        BY <1>1, <1>5
      <3> QED
        BY <3>1, <3>2 DEF FitsHere, HighAt
    <2>5. CASE instr.op = "IMUL_RCP"
      <3>1. instr.op \notin HighMultiply
        BY <2>2, <2>5, Kinds
      <3>2. buffer'.counts[1] = 4
        BY <1>4, <2>5, <3>1, BufferCounts
      <3> QED
        BY <1>1, <1>5, <2>1, <2>5, <3>2 DEF FitsHere
    <2> QED
      BY <2>3, <2>4, <2>5
  <1>9. Saturated' /\ Free' /\ Times' /\ Operands' /\ Current'
    BY <1>1 DEF Unscheduled, Saturated, Free, Times, Operands, Current, Active, Pending, Placing, HighAt
  <1>10. History' /\ Clean'
    BY <1>1, HistorySame, CleanSame
  <1> QED
    BY <1>6, <1>7, <1>8, <1>9, <1>10

LEMMA EndBufferKeeps == IInv /\ EndBuffer => IInv'
  <1> SUFFICES ASSUME IInv, EndBuffer PROVE IInv'
    OBVIOUS
  <1> USE DEF IInv
  <1>1. /\ stage = "next" /\ stage' = "fetch" /\ cycle' = cycle + 1 /\ decode_cycle' = decode_cycle + 1
        /\ UNCHANGED <<buffer, slot, instr, mop, dep, top, at, mul_count, throw_away_count,
                       ports_saturated, busy, registers, prog, measured, asic>>
    BY DEF EndBuffer, made, asics
  <1>2. decode_cycle < Latency /\ Latency \in Nat
    BY <1>1, SuperscalarAssumption DEF Loops
  <1>3. Typed'
    BY <1>1, <1>2 DEF Typed, Stages
  <1>4. Loops' /\ Fit' /\ Saturated' /\ Free' /\ Times' /\ Current'
    BY <1>1 DEF Unscheduled, Loops, Fit, Saturated, Free, Times, Current, Active, Pending, Placing, HighAt
  <1>5. Operands'
    <2>1. HighAt(1)' => instr'.dst \in Reg /\ registers'[instr'.dst].latency <= cycle' + 3
      <3> SUFFICES ASSUME HighAt(1) PROVE instr.dst \in Reg /\ registers[instr.dst].latency <= cycle + 1 + 3
        BY <1>1 DEF HighAt
      <3>1. instr.dst \in Reg /\ registers[instr.dst].latency <= cycle + 3 /\ cycle \in Nat
        BY DEF Operands, Typed
      <3>2. registers[instr.dst].latency \in Nat
        BY <3>1 DEF Typed, RegisterType
      <3> QED
        BY <3>1, <3>2
    <2> QED
      BY <1>1, <2>1 DEF Operands, HighAt
  <1>6. History' /\ Clean'
    BY <1>1, HistorySame, CleanSame
  <1> QED
    BY <1>3, <1>4, <1>5, <1>6

LEMMA LeaveKeeps == IInv /\ LeaveBuffer => IInv'
  <1> SUFFICES ASSUME IInv, LeaveBuffer PROVE IInv'
    OBVIOUS
  <1> USE DEF IInv
  <1>1. /\ stage = "slot" /\ stage' = "next"
        /\ UNCHANGED <<buffer, slot, instr, mop, cycle, dep, top, at, decode_cycle, mul_count, throw_away_count,
                       ports_saturated, busy, registers, prog, measured, asic>>
        /\ slot >= Len(buffer.counts) \/ mop >= Size(instr)
    BY DEF LeaveBuffer, clock, made, asics
  <1>2. Typed'
    BY <1>1 DEF Typed, Stages
  <1>3. Pending /\ ~ports_saturated => mop = 1
    <2>1. slot \in Nat /\ Len(buffer.counts) \in Nat /\ mop \in Nat /\ Size(instr) \in Nat
      BY BufferCounts, Kinds DEF Typed
    <2> QED
      BY <1>1, <2>1 DEF Fit, FitsHere, Pending
  <1>4. Loops' /\ Fit' /\ Saturated'
    BY <1>1, <1>3 DEF Loops, Fit, Saturated, Active, Pending
  <1>5. Free' /\ Times' /\ Operands' /\ Current'
    BY <1>1 DEF Unscheduled, Free, Times, Operands, Current, Active, Pending, Placing, HighAt
  <1>6. History' /\ Clean'
    BY <1>1, HistorySame, CleanSame
  <1> QED
    BY <1>2, <1>4, <1>5, <1>6

\* The rest of an instruction goes on in the next slot.
LEMMA ContinueKeeps ==
    ASSUME IInv, NextMacroOp, Pending
    PROVE  IInv'
  <1> USE DEF IInv
  <1>0. instr \in InstrType /\ mop \in 0 .. 3 /\ Size(instr) \in 0 .. 3
    BY Kinds DEF Typed
  <1>1. /\ stage = "slot" /\ stage' = "schedule" /\ top' = cycle /\ slot < Len(buffer.counts)
        /\ UNCHANGED <<buffer, slot, instr, mop, cycle, dep, at, decode_cycle, mul_count, throw_away_count,
                       ports_saturated, busy, registers, prog, measured, asic>>
    BY <1>0 DEF NextMacroOp, Pending, made, asics
  <1>2. FitsHere /\ mop # 0
    <2>1. slot \in Nat /\ Len(buffer.counts) \in Nat
      BY BufferCounts DEF Typed
    <2> QED
      BY <1>1, <2>1 DEF Fit
  <1>3. instr.op \in HighMultiply \/ instr.op = "IMUL_RCP"
    BY <1>0, <1>2, Kinds DEF Pending
  <1>4. Typed'
    BY <1>1 DEF Typed, Stages
  <1>5. Loops'
    BY <1>1 DEF Loops, Active, Pending
  <1>6. Fit'
    BY <1>1, <1>2 DEF Fit, FitsHere, HighAt, Active
  <1>7. Saturated'
    <2>1. slot \in Nat /\ Len(buffer.counts) \in Nat
      BY BufferCounts DEF Typed
    <2> QED
      BY <1>1, <2>1 DEF Saturated, Active, HighAt
  <1>8. Free' /\ Times'
    BY <1>1 DEF Unscheduled, Free, Times, Placing, HighAt
  <1>9. Operands'
    BY <1>1 DEF Operands, HighAt
  <1>10. Current'
    <2>1. instr.op \in Opcodes
      BY <1>0, <1>3, Kinds
    <2>2. instr.op \notin HighMultiply => instr.op = "IMUL_RCP" /\ instr.par = None
      BY <1>3 DEF Unscheduled, Current
    <2> QED
      BY <1>1, <2>1, <2>2 DEF Unscheduled, Current, Active, Pending
  <1>11. History' /\ Clean'
    BY <1>1, HistorySame, CleanSame
  <1> QED
    BY <1>4, <1>5, <1>6, <1>7, <1>8, <1>9, <1>10, <1>11

\* create goes on drawing the immediate of the new instruction.
LEMMA TurnKeeps ==
    ASSUME IInv, AcceptDraw \/ RefuseDraw \/ DrawAgain
    PROVE  IInv'
  <1> USE DEF IInv
  <1>1. /\ stage \in {"draw", "redraw"} /\ stage' \in {"draw", "redraw", "schedule"}
        /\ UNCHANGED <<buffer, slot, instr, mop, cycle, dep, top, at, decode_cycle, mul_count, throw_away_count,
                       ports_saturated, busy, registers, prog, measured, asic>>
    BY DEF AcceptDraw, RefuseDraw, DrawAgain, Turn, clock, made, asics
  <1>2. Typed'
    BY <1>1 DEF Typed, Stages
  <1>3. Loops'
    BY <1>1 DEF Loops, Active, Pending
  <1>4. Fit'
    BY <1>1 DEF Fit, FitsHere, HighAt, Active
  <1>5. Saturated'
    BY <1>1 DEF Saturated, Active, HighAt
  <1>6. Free' /\ Times'
    BY <1>1 DEF Free, Times, Unscheduled, Placing, HighAt
  <1>7. Operands'
    BY <1>1 DEF Operands, HighAt
  <1>8. Current'
    BY <1>1 DEF Current, Unscheduled, Active, Pending
  <1>9. History' /\ Clean'
    BY <1>1, HistorySame, CleanSame
  <1> QED
    BY <1>2, <1>3, <1>4, <1>5, <1>6, <1>7, <1>8, <1>9

\* A new instruction is drawn for the slot.
LEMMA DrawKeeps ==
    ASSUME IInv, NextMacroOp, ~Pending
    PROVE  IInv'
  <1> USE DEF IInv
  <1>0. instr \in InstrType /\ mop \in 0 .. 3 /\ Size(instr) \in 0 .. 3
    BY Kinds DEF Typed
  <1> DEFINE op(byte) == OpcodeForSlot(buffer.counts[slot + 1], buffer.index, Len(buffer.counts) = slot + 1, byte)
  <1>1. /\ stage = "slot" /\ stage' \in {"draw", "schedule"} /\ top' = cycle /\ slot < Len(buffer.counts) /\ mop' = 0
        /\ ~ports_saturated /\ Len(prog) < MaxSize
        /\ UNCHANGED <<buffer, slot, cycle, dep, at, decode_cycle, mul_count, throw_away_count,
                       ports_saturated, busy, registers, prog, measured, asic>>
        /\ instr' \in {Create(op(byte), word) : byte \in Bytes, word \in Words}
    BY <1>0 DEF NextMacroOp, Pending, made, asics
  <1>2. PICK byte \in Bytes, word \in Words : instr' = Create(op(byte), word)
    BY <1>1
  <1>3. byte \in Nat /\ slot \in Nat /\ buffer \in Buffers \union {Buffer(0, <<>>)}
    BY BufferCounts, SuperscalarAssumption DEF Typed
  <1>4. \/ op(byte) \in Single /\ buffer.counts[slot + 1] \in SlotSize(op(byte))
        \/ op(byte) \in HighMultiply /\ buffer.counts[slot + 1] = 3 /\ Len(buffer.counts) = slot + 1
        \/ op(byte) = "IMUL_RCP" /\ buffer.counts[slot + 1] = 10 /\ Len(buffer.counts) = slot + 1
    BY <1>1, <1>3, CreatedForSlot
  <1> HIDE DEF op
  <1> DEFINE o == op(byte)
  <1>5. /\ instr'.op = o /\ instr'.src = None /\ instr'.par = InitialPar(o, word)
        /\ instr' = [op |-> o, dst |-> None, src |-> None, par |-> InitialPar(o, word)]
    BY <1>2 DEF Create
  <1>6. o \in Opcodes
    BY <1>4 DEF Single, HighMultiply, Opcodes
  <1> HIDE DEF o
  <1>7. instr' \in InstrType
    <2>1. InitialPar(o, word) \in Words \union Reg \union {None, 0}
      BY DEF InitialPar
    <2> QED
      BY <1>5, <1>6, <2>1 DEF InstrType
  <1>8. mop' = 0 /\ Size(instr') \in 1 .. 3
    BY <1>1, <1>5, <1>6, <1>7, Kinds
  <1>9. Typed'
    BY <1>1, <1>7 DEF Typed, Stages
  <1>10. Loops'
    BY <1>1, <1>8 DEF Loops, Active, Pending
  <1>11. Fit'
    <2>1. \/ Size(instr') = 1 /\ buffer.counts[slot + 1] \in SlotSize(o)
          \/ o \in HighMultiply /\ buffer.counts[slot + 1] = 3 /\ Len(buffer.counts) = slot + 1
          \/ o = "IMUL_RCP" /\ buffer.counts[slot + 1] = 10 /\ Len(buffer.counts) = slot + 1
      BY <1>4, <1>5, <1>7, Kinds DEF o
    <2>2. FitsHere'
      BY <1>1, <1>5, <2>1 DEF FitsHere, HighAt
    <2> QED
      BY <1>1, <2>2 DEF Fit
  <1>12. Saturated' /\ Free' /\ Times'
    BY <1>1 DEF Unscheduled, Saturated, Free, Times, Placing, HighAt
  <1>13. Operands'
    BY <1>1, <1>5 DEF Operands, HighAt
  <1>14. Current'
    <2>1. o \notin HighMultiply => InitialPar(o, word) =
             CASE o \in {"ISUB_R", "IXOR_R", "IADD_RS", "IMUL_R", "IROR_C"} -> 0 [] OTHER -> None
      BY DEF InitialPar
    <2>2. o = "IMUL_RCP" => InitialPar(o, word) = None
      BY DEF InitialPar, HighMultiply
    <2> QED
      BY <1>1, <1>5, <1>6, <2>1, <2>2 DEF Unscheduled, Current, Active
  <1>15. History' /\ Clean'
    <2>1. ~HighAt(2) /\ ~HighAt(2)'
      BY <1>0, <1>1, Kinds DEF HighAt, Pending
    <2> QED
      BY <1>1, <2>1, HistorySame, CleanSame
  <1> QED
    BY <1>9, <1>10, <1>11, <1>12, <1>13, <1>14, <1>15

LEMMA ScheduleKeeps == IInv /\ Schedule => IInv'
  <1> SUFFICES ASSUME IInv, Schedule PROVE IInv'
    OBVIOUS
  <1> USE DEF IInv
  <1> DEFINE m == MopAt(instr, mop)
  <1>1. /\ stage = "schedule" /\ at' = ScheduleMop(m, cycle, dep)
        /\ ports_saturated' = (ports_saturated \/ at' = None)
        /\ stage' = IF at' = None THEN "next" ELSE "source"
        /\ UNCHANGED <<buffer, slot, instr, mop, cycle, dep, top, decode_cycle, mul_count, throw_away_count,
                       busy, registers, prog, measured, asic>>
    BY DEF Schedule, made, asics
  <1>2. instr \in InstrType /\ mop \in 0 .. 3 /\ Pending /\ cycle \in Nat /\ dep \in Nat
    BY <1>1 DEF Typed, Loops, Active
  <1>3. /\ m.uop1 \subseteq Ports /\ m.uop2 \subseteq Ports /\ m.dependent \in BOOLEAN
        /\ m.uop1 = {} => m = Mov
    BY <1>2, NextMop DEF Pending
  <1> HIDE DEF m
  <1>4. /\ at' # None => at' \in Nat /\ cycle <= at'
        /\ m.uop1 # {} /\ at' # None => at' < CycleMapSize
        /\ m.uop1 = {} => at' = IF m.dependent /\ dep > cycle THEN dep ELSE cycle
    BY <1>1, <1>2, <1>3, Scheduled
  <1>5. Typed'
    <2>1. at' \in Nat \union {None}
      BY <1>4
    <2>2. ports_saturated' \in BOOLEAN
      BY <1>1 DEF Typed
    <2>3. stage' \in Stages
      BY <1>1 DEF Stages
    <2> QED
      BY <1>1, <2>1, <2>2, <2>3 DEF Typed
  <1>6. Loops' /\ Fit' /\ Saturated'
    <2>1. CASE at' = None
      BY <1>1, <2>1 DEF Loops, Fit, Saturated, Active, Pending
    <2>2. CASE at' # None
      BY <1>1, <2>2 DEF Loops, Fit, FitsHere, Saturated, Active, Pending, HighAt
    <2> QED
      BY <2>1, <2>2
  <1>7. Free'
    BY <1>1 DEF Free
  <1>8. Times'
    <2>1. HighAt(0) => at' = cycle /\ at' # None
      <3> SUFFICES ASSUME HighAt(0) PROVE at' = cycle /\ at' # None
        OBVIOUS
      <3>1. m = Mov
        BY <1>2, Mops DEF m, HighAt
      <3> QED
        BY <1>2, <1>4, <3>1, MovKind DEF None
    <2>2. HighAt(0)' => at' = top' \/ stage' # "source"
      BY <1>1, <2>1 DEF Unscheduled, Times, HighAt
    <2> QED
      BY <1>1, <1>4, <2>2 DEF Unscheduled, Times, HighAt, Placing, m
  <1>9. Operands' /\ Current'
    <2>1. CASE at' = None
      BY <1>1, <2>1 DEF Unscheduled, Operands, Current, Active, Pending, HighAt
    <2>2. CASE at' # None
      BY <1>1, <2>2 DEF Unscheduled, Operands, Current, Active, Pending, HighAt
    <2> QED
      BY <2>1, <2>2
  <1>10. History' /\ Clean'
    BY <1>1, HistorySame, CleanSame
  <1> QED
    BY <1>5, <1>6, <1>7, <1>8, <1>9, <1>10

LEMMA FinishKeeps == IInv /\ (Finish \/ EndMeasure) => IInv'
  <1> SUFFICES ASSUME IInv, Finish \/ EndMeasure PROVE IInv'
    OBVIOUS
  <1> USE DEF IInv
  <1>1. /\ stage' \in {"measure", "done"}
        /\ UNCHANGED <<buffer, slot, instr, mop, cycle, dep, top, at, decode_cycle, mul_count, throw_away_count,
                       ports_saturated, busy, registers, prog, measured, asic>>
    BY DEF Finish, EndMeasure, clock, made, asics
  <1>2. Typed'
    BY <1>1 DEF Typed, Stages
  <1>3. Loops' /\ Fit' /\ Saturated'
    BY <1>1 DEF Loops, Fit, Saturated, Active, Pending
  <1>4. Free' /\ Times' /\ Operands' /\ Current'
    BY <1>1 DEF Unscheduled, Free, Times, Operands, Current, Active, Pending, Placing, HighAt
  <1>5. History' /\ Clean'
    BY <1>1, HistorySame, CleanSame
  <1> QED
    BY <1>2, <1>3, <1>4, <1>5

LEMMA MeasureKeeps == IInv /\ MeasureAsic => IInv'
  <1> SUFFICES ASSUME IInv, MeasureAsic PROVE IInv'
    OBVIOUS
  <1> USE DEF IInv
  <1> DEFINE i == prog[measured + 1]
  <1>1. /\ stage = "measure" /\ measured < Len(prog) /\ measured' = measured + 1
        /\ asic' = [asic EXCEPT ![i.dst] = AsicAfter(i)]
        /\ UNCHANGED <<stage, buffer, slot, instr, mop, cycle, dep, top, at, decode_cycle, mul_count,
                       throw_away_count, ports_saturated, busy, registers, prog>>
    BY DEF MeasureAsic, clock, made
  <1>2. measured \in Nat /\ Len(prog) \in Nat /\ prog \in Seq(InstrType)
    BY DEF Typed
  <1>3. Selected(i)
    <2>1. measured \in Indices
      BY <1>1, <1>2 DEF Indices
    <2> QED
      BY <2>1 DEF Clean, At
  <1>4. i.dst \in Reg /\ i.src \in Reg \union {None}
    BY <1>3 DEF Selected
  <1> HIDE DEF i
  <1>5. asic \in [Reg -> 0 .. measured]
    BY DEF Typed
  <1>6. AsicAfter(i) \in 0 .. measured + 1
    BY <1>2, <1>4, <1>5 DEF AsicAfter
  <1>7. asic' \in [Reg -> 0 .. measured']
    BY <1>1, <1>2, <1>4, <1>5, <1>6
  <1>8. Typed'
    BY <1>1, <1>2, <1>7 DEF Typed
  <1>9. Loops' /\ Fit' /\ Saturated'
    BY <1>1 DEF Loops, Fit, Saturated, Active, Pending
  <1>10. Free' /\ Times' /\ Operands' /\ Current'
    BY <1>1 DEF Unscheduled, Free, Times, Operands, Current, Active, Pending, Placing, HighAt
  <1>11. History' /\ Clean'
    BY <1>1, HistorySame, CleanSame
  <1> QED
    BY <1>8, <1>9, <1>10, <1>11

LEMMA StutterKeeps == IInv /\ UNCHANGED vars => IInv'
  <1> SUFFICES ASSUME IInv, UNCHANGED vars PROVE IInv'
    OBVIOUS
  <1> USE DEF IInv, vars, clock, made, asics
  <1>1. Typed'
    BY DEF Typed
  <1>2. Loops' /\ Fit' /\ Saturated'
    BY DEF Loops, Fit, FitsHere, Saturated, Active, Pending, HighAt
  <1>3. Free' /\ Times' /\ Operands' /\ Current'
    BY DEF Unscheduled, Free, Times, Operands, Current, ParOf, Active, Pending, Placing, HighAt
  <1>4. History' /\ Clean'
    BY HistorySame, CleanSame
  <1> QED
    BY <1>1, <1>2, <1>3, <1>4

\* An instruction whose operand does not become ready is thrown away.
LEMMA DiscardKeeps ==
    ASSUME IInv, Placing, ~HighAt(2), Discard,
           UNCHANGED <<at, buffer, slot, dep, top, decode_cycle, mul_count, ports_saturated, made, asics>>
    PROVE  IInv'
  <1> USE DEF IInv, made, asics
  <1>0. instr \in InstrType /\ mop \in 0 .. 3 /\ Size(instr) \in 0 .. 3 /\ cycle \in Nat /\ top \in 0 .. cycle
    BY Kinds DEF Typed
  <1>1. cycle' = cycle + 4 /\ stage' \in {"slot", "next"}
    BY DEF Discard, LookForward
  <1>2. instr' \in InstrType /\ mop' \in 0 .. 3 /\ ~Pending' /\ throw_away_count' \in 0 .. MaxThrowaway
    <2>1. CASE throw_away_count < MaxThrowaway
      BY <1>0, <2>1, SuperscalarAssumption DEF Discard, Pending, Typed
    <2>2. CASE ~(throw_away_count < MaxThrowaway)
      <3>1. Null \in InstrType /\ Size(Null) = 0
        BY NullType, Kinds
      <3> QED
        BY <1>0, <2>2, <3>1 DEF Discard, Pending, Typed
    <2> QED
      BY <2>1, <2>2
  <1>3. (instr' = instr /\ mop' = Size(instr)) \/ instr' = Null
    BY DEF Discard
  <1>4. \A k \in 0 .. 2 : ~HighAt(k)'
    <2>1. instr'.op \in HighMultiply => mop' = 3
      BY <1>0, <1>3, NullType, Kinds
    <2> QED
      BY <2>1 DEF HighAt
  <1>5. ~HighAt(0)' /\ ~HighAt(1)' /\ ~HighAt(2)'
    BY <1>4
  <1>6. ~Active' /\ ~Placing' /\ decode_cycle < Latency
    BY <1>1 DEF Active, Placing, Loops
  <1>7. Typed'
    BY <1>0, <1>1, <1>2 DEF Typed, Stages
  <1>8. Loops' /\ Fit' /\ Saturated'
    BY <1>1, <1>2, <1>6 DEF Loops, Fit, Saturated
  <1>9. Free'
    BY DEF Free
  <1>10. Times'
    BY <1>5, <1>6 DEF Unscheduled, Times
  <1>11. Operands'
    <2>1. InfoOf(instr'.op).src = None => instr'.src = None
      BY <1>3, NullType DEF Operands
    <2> QED
      BY <1>1, <1>5, <2>1 DEF Operands
  <1>12. Current'
    BY <1>1, <1>2, <1>6 DEF Unscheduled, Current
  <1>13. History' /\ Clean'
    BY <1>5, HistorySame, CleanSame
  <1> QED
    BY <1>7, <1>8, <1>9, <1>10, <1>11, <1>12, <1>13

\* The operand slots by kind of instruction.
LEMMA Slots ==
    ASSUME NEW i \in InstrType
    PROVE  /\ i.op \in Single => /\ InfoOf(i.op).dst = 0 /\ InfoOf(i.op).result = 0
                                 /\ InfoOf(i.op).src = IF i.op \in {"ISUB_R", "IXOR_R", "IADD_RS", "IMUL_R"}
                                                       THEN 0 ELSE None
           /\ i.op \in HighMultiply => InfoOf(i.op).dst = 0 /\ InfoOf(i.op).src = 1 /\ InfoOf(i.op).result = 1
           /\ i.op = "IMUL_RCP" => InfoOf(i.op).dst = 1 /\ InfoOf(i.op).src = None /\ InfoOf(i.op).result = 1
  BY SingleInfo, HighInfo, RcpInfo

\* The macro-op does not read the source, or does not need the destination.
LEMMA PassKeeps ==
    ASSUME IInv,
           \/ stage = "source" /\ mop # InfoOf(instr.op).src /\ Proceed(instr, 0, "destination")
           \/ stage = "destination" /\ mop # InfoOf(instr.op).dst /\ Proceed(instr, 0, "commit"),
           UNCHANGED <<buffer, slot, dep, top, decode_cycle, mul_count, ports_saturated, made, asics>>
    PROVE  IInv'
  <1> USE DEF IInv, made, asics
  <1>1. /\ stage \in {"source", "destination"} /\ stage' \in {"destination", "commit"}
        /\ stage = "source" => stage' = "destination" /\ mop # InfoOf(instr.op).src
        /\ stage = "destination" => stage' = "commit" /\ mop # InfoOf(instr.op).dst
        /\ at' = at + 0 /\ cycle' = cycle + 0
        /\ UNCHANGED <<instr, throw_away_count, mop>>
    BY DEF Proceed
  <1>2. at \in Nat /\ cycle \in Nat /\ instr \in InstrType /\ mop \in 0 .. 3 /\ Pending /\ top \in Nat
    BY <1>1 DEF Unscheduled, Typed, Times, Placing, Loops, Active
  <1>3. at' = at /\ cycle' = cycle
    BY <1>1, <1>2
  <1>4. Typed'
    BY <1>1, <1>3 DEF Typed, Stages
  <1>5. Loops' /\ Fit' /\ Saturated'
    BY <1>1 DEF Loops, Fit, FitsHere, Saturated, Active, Pending, HighAt
  <1>6. Free' /\ Times'
    BY <1>1, <1>2, <1>3 DEF Unscheduled, Free, Times, Placing, HighAt
  <1>7. Operands'
    BY <1>1, <1>3 DEF Operands, HighAt
  <1>8. Current'
    <2>1. stage = "source" /\ instr.op \notin HighMultiply => ParOf(instr)
      <3> SUFFICES ASSUME stage = "source", instr.op \notin HighMultiply PROVE ParOf(instr)
        OBVIOUS
      <3>1. instr.par = CASE instr.op \in {"ISUB_R", "IXOR_R", "IADD_RS", "IMUL_R", "IROR_C"} -> 0
                          [] OTHER -> None
        BY <1>2 DEF Unscheduled, Current
      <3>2. instr.op \notin {"ISUB_R", "IXOR_R", "IADD_RS", "IMUL_R"}
        <4> SUFFICES ASSUME instr.op \in {"ISUB_R", "IXOR_R", "IADD_RS", "IMUL_R"} PROVE FALSE
          OBVIOUS
        <4>1. instr.op \in Single
          BY DEF Single, Opcodes, HighMultiply
        <4> QED
          BY <1>1, <1>2, <4>1, Kinds, Slots DEF Pending
      <3> QED
        BY <3>1, <3>2 DEF ParOf
    <2>2. instr.op \in Opcodes
      BY <1>1 DEF Unscheduled, Current, Active
    <2> QED
      BY <1>1, <2>1, <2>2 DEF Unscheduled, Current, Active, Pending
  <1>9. History' /\ Clean'
    BY <1>1, HistorySame, CleanSame
  <1> QED
    BY <1>4, <1>5, <1>6, <1>7, <1>8, <1>9

\* An operand is drawn after a wait; the macro-op still ends inside the map.
LEMMA DrawnKeeps ==
    ASSUME IInv,
           stage = "source" \/ stage = "destination",
           mop = IF stage = "source" THEN InfoOf(instr.op).src ELSE InfoOf(instr.op).dst,
           NEW w \in 0 .. 3,
           MopAt(instr, mop).uop1 # {} => at + w < CycleMapSize,
           NEW i \in InstrType, i.op = instr.op,
           Proceed(i, w, IF stage = "source" THEN "destination" ELSE "commit"),
           UNCHANGED <<buffer, slot, dep, top, decode_cycle, mul_count, ports_saturated, made, asics>>,
           stage = "source" =>
               /\ i.dst = instr.dst /\ i.src \in Reg /\ registers[i.src].latency <= at + w
               /\ i.op \notin HighMultiply => ParOf(i),
           stage = "destination" =>
               /\ i.src = instr.src /\ i.par = instr.par
               /\ i.dst \in Reg /\ registers[i.dst].latency <= at + w
               /\ i.op \notin HighMultiply =>
                     /\ i.src # i.dst
                     /\ registers[i.dst].group # OpGroup(i.op) \/ registers[i.dst].par # i.par
               /\ i.op = "IADD_RS" => i.dst # Displaced
    PROVE  IInv'
  <1> USE DEF IInv, made, asics
  <1>1. /\ stage = "source" => stage' = "destination"
        /\ stage = "destination" => stage' = "commit"
        /\ instr' = i /\ at' = at + w /\ cycle' = cycle + w
        /\ UNCHANGED <<throw_away_count, mop>>
    BY DEF Proceed
  <1>2. at \in Nat /\ cycle \in Nat /\ instr \in InstrType /\ mop \in 0 .. 3 /\ Pending /\ top \in 0 .. cycle
    BY DEF Unscheduled, Typed, Times, Placing, Loops, Active
  <1>3. at' \in Nat /\ cycle' \in Nat /\ cycle <= cycle' /\ at <= at' /\ at' <= at + 3
    BY <1>1, <1>2
  <1>4. instr.op \in Opcodes /\ instr.op # "INVALID"
    BY <1>2, Kinds DEF Unscheduled, Current, Active
  <1>5. /\ instr.op \in Single => mop = 0
        /\ instr.op \in HighMultiply => mop = IF stage = "source" THEN 1 ELSE 0
        /\ instr.op = "IMUL_RCP" => mop = 1 /\ stage = "destination"
    BY <1>2, <1>4, Slots, Kinds DEF None, Pending
  <1>6. ~HighAt(2)
    BY <1>5 DEF HighAt
  <1>7. Size(i) = Size(instr) /\ MopAt(i, mop) = MopAt(instr, mop)
    BY DEF Size, MopAt
  <1>8. Typed'
    <2>1. stage' \in Stages
      BY <1>1 DEF Stages
    <2>2. instr' \in InstrType /\ at' \in Nat \union {None} /\ top' \in 0 .. cycle' /\ cycle' \in Nat
      BY <1>1, <1>2, <1>3
    <2> QED
      BY <1>1, <2>1, <2>2 DEF Typed
  <1>9. Loops'
    BY <1>1, <1>7 DEF Loops, Active, Pending
  <1>10. Fit' /\ Saturated'
    BY <1>1, <1>7 DEF Fit, FitsHere, Saturated, Active, Pending, HighAt
  <1>11. Free'
    BY DEF Free
  <1>12. Times'
    <2>1. HighAt(0)' => stage' = "commit" /\ at' <= top' + 3
      <3> SUFFICES ASSUME HighAt(0)' PROVE stage' = "commit" /\ at' <= top' + 3
        OBVIOUS
      <3>1. HighAt(0) /\ stage = "destination"
        BY <1>1, <1>5 DEF HighAt
      <3>2. at = top
        BY <3>1 DEF Unscheduled, Times
      <3> QED
        BY <1>1, <1>2, <1>3, <3>1, <3>2
    <2>2. cycle' <= at'
      BY <1>1, <1>2 DEF Unscheduled, Times, Placing
    <2> QED
      BY <1>1, <1>3, <1>7, <2>1, <2>2 DEF Unscheduled, Times, Placing
  <1>13. Operands'
    <2>1. InfoOf(i.op).src = None => i.src = None
      BY <1>2 DEF Operands, None
    <2>2. CASE stage = "source"
      <3>1. HighAt(1)' => i.dst \in Reg /\ registers[i.dst].latency <= cycle' + 3
        <4> SUFFICES ASSUME HighAt(1)' PROVE i.dst \in Reg /\ registers[i.dst].latency <= cycle' + 3
          OBVIOUS
        <4>1. HighAt(1)
          BY <1>1 DEF HighAt
        <4>2. i.dst \in Reg /\ registers[i.dst].latency <= cycle + 3
          BY <2>2, <4>1 DEF Operands
        <4>3. registers[i.dst].latency \in Nat
          BY <4>2 DEF Typed, RegisterType
        <4> QED
          BY <1>2, <1>3, <4>2, <4>3
      <3> QED
        BY <1>1, <1>6, <2>1, <2>2, <3>1 DEF Operands, HighAt
    <2>3. CASE stage = "destination"
      <3>1. mop = InfoOf(i.op).src => i.src \in Reg /\ registers[i.src].latency <= at'
        <4> SUFFICES ASSUME mop = InfoOf(i.op).src PROVE i.src \in Reg /\ registers[i.src].latency <= at'
          OBVIOUS
        <4>1. i.src \in Reg /\ registers[i.src].latency <= at
          BY <2>3 DEF Operands
        <4>2. registers[i.src].latency \in Nat
          BY <4>1 DEF Typed, RegisterType
        <4> QED
          BY <1>2, <1>3, <4>1, <4>2
      <3>2. ~HighAt(1)' /\ ~HighAt(2)'
        BY <1>1, <1>5, <2>3 DEF HighAt
      <3> QED
        BY <1>1, <2>1, <2>3, <3>1, <3>2 DEF Operands
    <2> QED
      BY <2>2, <2>3
  <1>14. Current'
    <2>1. i.op \notin HighMultiply => ParOf(i)
      BY DEF Unscheduled, ParOf, Current
    <2>2. i.op = "IMUL_RCP" => i.par = None
      BY <1>2, <1>5 DEF Unscheduled, Current
    <2> QED
      BY <1>1, <1>4, <2>1, <2>2 DEF Unscheduled, Current, Active
  <1>15. History' /\ Clean'
    BY <1>1, <1>6, HistorySame, CleanSame DEF HighAt
  <1> QED
    BY <1>8, <1>9, <1>10, <1>11, <1>12, <1>13, <1>14, <1>15

\* The cycles waited for end with a register becoming ready, before the end of the map.
LEMMA ReadyInMap ==
    ASSUME IInv, ~ports_saturated, at \in Nat, at < CycleMapSize, NEW w \in 0 .. 3, NEW x \in Reg,
           w = 0 \/ registers[x].latency > at + w - 1,
           registers[x].latency <= at + w
    PROVE  at + w < CycleMapSize
  <1>1. registers[x].latency \in Nat /\ registers[x].latency < CycleMapSize /\ CycleMapSize \in Nat
    BY SuperscalarAssumption DEF IInv, Typed, RegisterType, Free, CycleMapSize
  <1> QED
    BY <1>1

LEMMA SourceKeeps == IInv /\ SelectSource => IInv'
  <1> SUFFICES ASSUME IInv, SelectSource PROVE IInv'
    OBVIOUS
  <1> DEFINE waits == {w \in 0 .. 4 - 1 : Ready(at + w) # {}}
             w == Least(waits)
  <1>1. /\ stage = "source"
        /\ UNCHANGED <<buffer, slot, dep, top, decode_cycle, mul_count, ports_saturated, made, asics>>
    BY DEF SelectSource
  <1>2. \/ mop # InfoOf(instr.op).src /\ Proceed(instr, 0, "destination")
        \/ mop = InfoOf(instr.op).src /\ waits = {} /\ Discard /\ UNCHANGED at
        \/ /\ mop = InfoOf(instr.op).src /\ waits # {}
           /\ \E i \in WithSource(instr, at + w) : Proceed(i, w, "destination")
    BY DEF SelectSource, LookForward
  <1>3. at \in Nat /\ cycle \in Nat /\ instr \in InstrType /\ mop \in 0 .. 3 /\ Pending
    BY <1>1 DEF Unscheduled, IInv, Typed, Times, Placing, Loops, Active
  <1>4. mop = InfoOf(instr.op).src => ~HighAt(2)
    BY <1>3, Slots DEF HighAt
  <1>5. CASE mop # InfoOf(instr.op).src /\ Proceed(instr, 0, "destination")
    BY <1>1, <1>5, PassKeeps
  <1>6. CASE mop = InfoOf(instr.op).src /\ waits = {} /\ Discard /\ UNCHANGED at
    BY <1>1, <1>4, <1>6, DiscardKeeps DEF Placing
  <1>7. CASE /\ mop = InfoOf(instr.op).src /\ waits # {}
             /\ \E i \in WithSource(instr, at + w) : Proceed(i, w, "destination")
    <2>1. waits \in SUBSET (0 .. 3) /\ \A y \in 0 .. 3 : y \in waits <=> Ready(at + y) # {}
      OBVIOUS
    <2> HIDE DEF waits
    <2>2. w \in waits /\ \A y \in waits : w <= y
      <3>1. 0 \in Int /\ 3 \in Int
        OBVIOUS
      <3> QED
        BY <1>7, <2>1, <3>1, LeastMember
    <2> HIDE DEF w
    <2>3. w \in 0 .. 3 /\ Ready(at + w) # {} /\ (w # 0 => Ready(at + w - 1) = {})
      <3>1. w \in 0 .. 3 /\ Ready(at + w) # {}
        BY <2>1, <2>2
      <3>2. ASSUME w # 0 PROVE Ready(at + w - 1) = {}
        <4>1. w - 1 \in 0 .. 3 /\ at + (w - 1) = at + w - 1 /\ ~(w <= w - 1)
          BY <1>3, <3>1, <3>2
        <4>2. w - 1 \notin waits
          BY <2>2, <4>1
        <4> QED
          BY <2>1, <4>1, <4>2
      <3> QED
        BY <3>1, <3>2
    <2>4. PICK i \in WithSource(instr, at + w) : Proceed(i, w, "destination")
      BY <1>7
    <2>5. \E x \in Ready(at + w) : \/ i = [instr EXCEPT !.src = x, !.par = x] /\ instr.op = "IADD_RS"
                                   \/ i = [instr EXCEPT !.src = x, !.par = IF GroupParIsSource(instr.op) THEN x ELSE @]
      <3>1. CASE Cardinality(Ready(at + w)) = 2 /\ instr.op = "IADD_RS" /\ Displaced \in Ready(at + w)
        BY <2>4, <3>1 DEF WithSource
      <3>2. CASE ~(Cardinality(Ready(at + w)) = 2 /\ instr.op = "IADD_RS" /\ Displaced \in Ready(at + w))
        <4> DEFINE With(x) == [instr EXCEPT !.src = x, !.par = IF GroupParIsSource(instr.op) THEN x ELSE @]
                   Drawn == {Select(Ready(at + w), word) : word \in Words}
        <4>0. i \in {With(x) : x \in Drawn}
          BY <2>4, <3>2 DEF WithSource
        <4> HIDE DEF With
        <4>1. PICK word \in Words : i = With(Select(Ready(at + w), word))
          BY <4>0
        <4>2. Ready(at + w) \in SUBSET Reg
          BY DEF Ready
        <4>3. Select(Ready(at + w), word) \in Ready(at + w)
          BY <2>3, <4>2, SelectMember
        <4> QED
          BY <4>1, <4>3 DEF With
      <3> QED
        BY <3>1, <3>2
    <2>6. PICK x \in Ready(at + w) :
             \/ i = [instr EXCEPT !.src = x, !.par = x] /\ instr.op = "IADD_RS"
             \/ i = [instr EXCEPT !.src = x, !.par = IF GroupParIsSource(instr.op) THEN x ELSE @]
      BY <2>5
    <2>7. x \in Reg /\ registers[x].latency <= at + w
      BY DEF Ready
    <2>8. /\ i.op = instr.op /\ i.src = x /\ i.dst = instr.dst
          /\ i.op \in {"ISUB_R", "IXOR_R", "IADD_RS", "IMUL_R"} => i.par = x
          /\ i \in InstrType
      <3>1. /\ i.op = instr.op /\ i.src = x /\ i.dst = instr.dst
            /\ i.op \in {"ISUB_R", "IXOR_R", "IADD_RS", "IMUL_R"} => i.par = x
        BY <1>3, <2>6 DEF InstrType, GroupParIsSource
      <3>2. i \in InstrType
        BY <1>3, <2>6, <2>7 DEF InstrType
      <3> QED
        BY <3>1, <3>2
    <2>9. i.op \notin HighMultiply => ParOf(i)
      <3> SUFFICES ASSUME i.op \notin HighMultiply PROVE i.op \in {"ISUB_R", "IXOR_R", "IADD_RS", "IMUL_R"}
        BY <2>8 DEF ParOf
      <3>1. instr.op \in Opcodes /\ instr.op # "INVALID"
        BY <1>1, <1>3, Kinds DEF Unscheduled, IInv, Current, Active
      <3> QED
        BY <1>3, <1>7, <2>8, <3>1, Kinds, Slots DEF None
    <2>10. MopAt(instr, mop).uop1 # {} => at + w < CycleMapSize
      <3> SUFFICES ASSUME MopAt(instr, mop).uop1 # {} PROVE at + w < CycleMapSize
        OBVIOUS
      <3>1. ~ports_saturated /\ at < CycleMapSize
        BY <1>1, <1>4, <1>7 DEF Unscheduled, IInv, Saturated, Times, Active, Placing
      <3>2. w = 0 \/ registers[x].latency > at + w - 1
        <4>1. registers[x].latency \in Nat
          BY <2>7 DEF IInv, Typed, RegisterType
        <4> QED
          BY <1>3, <2>3, <2>7, <4>1 DEF Ready
      <3> QED
        BY <1>3, <2>3, <2>7, <3>1, <3>2, ReadyInMap
    <2> QED
      BY <1>1, <1>7, <2>3, <2>4, <2>7, <2>8, <2>9, <2>10, DrawnKeeps
  <1> QED
    BY <1>2, <1>5, <1>6, <1>7

LEMMA DestinationKeeps == IInv /\ SelectDestination => IInv'
  <1> SUFFICES ASSUME IInv, SelectDestination PROVE IInv'
    OBVIOUS
  <1> DEFINE Dests(c) == Destinations(instr, c)
             waits == {w \in 0 .. 4 - 1 : Dests(at + w) # {}}
             w == Least(waits)
  <1>1. /\ stage = "destination"
        /\ UNCHANGED <<buffer, slot, dep, top, decode_cycle, mul_count, ports_saturated, made, asics>>
    BY DEF SelectDestination
  <1>2. \/ mop # InfoOf(instr.op).dst /\ Proceed(instr, 0, "commit")
        \/ mop = InfoOf(instr.op).dst /\ waits = {} /\ Discard /\ UNCHANGED at
        \/ /\ mop = InfoOf(instr.op).dst /\ waits # {}
           /\ \E i \in WithDestination(instr, at + w) : Proceed(i, w, "commit")
    BY DEF SelectDestination, LookForward
  <1>3. at \in Nat /\ cycle \in Nat /\ instr \in InstrType /\ mop \in 0 .. 3 /\ Pending
    BY <1>1 DEF Unscheduled, IInv, Typed, Times, Placing, Loops, Active
  <1>4. mop = InfoOf(instr.op).dst => ~HighAt(2)
    BY <1>3, Slots DEF HighAt
  <1>5. CASE mop # InfoOf(instr.op).dst /\ Proceed(instr, 0, "commit")
    BY <1>1, <1>5, PassKeeps
  <1>6. CASE mop = InfoOf(instr.op).dst /\ waits = {} /\ Discard /\ UNCHANGED at
    BY <1>1, <1>4, <1>6, DiscardKeeps DEF Placing
  <1>7. CASE /\ mop = InfoOf(instr.op).dst /\ waits # {}
             /\ \E i \in WithDestination(instr, at + w) : Proceed(i, w, "commit")
    <2>1. waits \in SUBSET (0 .. 3) /\ \A y \in 0 .. 3 : y \in waits <=> Dests(at + y) # {}
      OBVIOUS
    <2> HIDE DEF waits
    <2>2. w \in waits /\ \A y \in waits : w <= y
      <3>1. 0 \in Int /\ 3 \in Int
        OBVIOUS
      <3> QED
        BY <1>7, <2>1, <3>1, LeastMember
    <2> HIDE DEF w
    <2>3. w \in 0 .. 3 /\ Dests(at + w) # {} /\ (w # 0 => Dests(at + w - 1) = {})
      <3>1. w \in 0 .. 3 /\ Dests(at + w) # {}
        BY <2>1, <2>2
      <3>2. ASSUME w # 0 PROVE Dests(at + w - 1) = {}
        <4>1. w - 1 \in 0 .. 3 /\ at + (w - 1) = at + w - 1 /\ ~(w <= w - 1)
          BY <1>3, <3>1, <3>2
        <4>2. w - 1 \notin waits
          BY <2>2, <4>1
        <4> QED
          BY <2>1, <4>1, <4>2
      <3> QED
        BY <3>1, <3>2
    <2>4. PICK i \in WithDestination(instr, at + w) : Proceed(i, w, "commit")
      BY <1>7
    <2>5. PICK x \in Dests(at + w) : i = [instr EXCEPT !.dst = x]
      <3>1. PICK word \in Words : i = [instr EXCEPT !.dst = Select(Dests(at + w), word)]
        BY <2>4 DEF WithDestination
      <3>2. Dests(at + w) \in SUBSET Reg
        BY DEF Destinations, Ready
      <3> HIDE DEF Dests
      <3>3. Select(Dests(at + w), word) \in Dests(at + w)
        BY <2>3, <3>2, SelectMember
      <3> QED
        BY <3>1, <3>3
    <2>7. /\ x \in Reg /\ registers[x].latency <= at + w
          /\ CanReuse(instr.op) \/ x # instr.src
          /\ registers[x].group # OpGroup(instr.op) \/ registers[x].par # instr.par
          /\ instr.op = "IADD_RS" => x # Displaced
      BY DEF Destinations, Ready
    <2>8. /\ i.op = instr.op /\ i.dst = x /\ i.src = instr.src /\ i.par = instr.par
          /\ i \in InstrType
      BY <1>3, <2>5, <2>7 DEF InstrType
    <2>9. i.op \notin HighMultiply => x # instr.src
      BY <2>7, <2>8 DEF CanReuse
    <2>10. MopAt(instr, mop).uop1 # {} => at + w < CycleMapSize
      <3> SUFFICES ASSUME MopAt(instr, mop).uop1 # {} PROVE at + w < CycleMapSize
        OBVIOUS
      <3>1. ~ports_saturated /\ at < CycleMapSize
        BY <1>1, <1>4, <1>7 DEF Unscheduled, IInv, Saturated, Times, Active, Placing
      <3>2. w = 0 \/ registers[x].latency > at + w - 1
        <4>1. registers[x].latency \in Nat
          BY <2>7 DEF IInv, Typed, RegisterType
        <4>2. w # 0 => x \notin Destinations(instr, at + w - 1)
          BY <2>3
        <4>3. x \in Destinations(instr, at + w)
          OBVIOUS
        <4> QED
          BY <1>3, <2>3, <2>7, <4>1, <4>2, <4>3 DEF Destinations, Ready
      <3> QED
        BY <1>3, <2>3, <2>7, <3>1, <3>2, ReadyInMap
    <2> QED
      BY <1>1, <1>7, <2>3, <2>4, <2>7, <2>8, <2>9, <2>10, DrawnKeeps
  <1> QED
    BY <1>2, <1>5, <1>6, <1>7

\* The second call of schedule_mop finds ports: the last cycle of the map is
\* free for every macro-op that needs one.
LEMMA PortsFound ==
    ASSUME IInv, stage = "commit"
    PROVE  /\ ScheduleMop(MopAt(instr, mop), at, at) \in Nat
           /\ ScheduleMop(MopAt(instr, mop), at, at) # None
           /\ at <= ScheduleMop(MopAt(instr, mop), at, at)
           /\ MopAt(instr, mop).uop1 # {} => ScheduleMop(MopAt(instr, mop), at, at) < CycleMapSize
  <1> DEFINE m == MopAt(instr, mop)
             c == ScheduleMop(m, at, at)
             last == CycleMapSize - 1
  <1>1. at \in Nat /\ instr \in InstrType /\ mop \in 0 .. 3 /\ mop < Size(instr)
    BY DEF Unscheduled, IInv, Typed, Times, Placing, Loops, Active, Pending
  <1>2. /\ m.uop1 \subseteq Ports /\ m.uop2 \subseteq Ports /\ m.dependent \in BOOLEAN
        /\ m.uop1 = {} => m = Mov /\ instr.op \in HighMultiply /\ mop \in {0, 2}
    BY <1>1, NextMop
  <1>3. m.uop1 # {} => at < CycleMapSize /\ ~ports_saturated
    <2> SUFFICES ASSUME m.uop1 # {} PROVE at < CycleMapSize /\ ~ports_saturated
      OBVIOUS
    <2>1. at < CycleMapSize
      BY DEF Unscheduled, IInv, Times, Placing
    <2>2. ~HighAt(2)
      BY <1>1, Mops, MovKind DEF HighAt
    <2> QED
      BY <2>1, <2>2 DEF IInv, Saturated, Active
  <1> HIDE DEF m
  <1>4. CycleMapSize \in Nat /\ Latency \in Nat /\ CycleMapSize = Latency + 4 /\ None = -1
    BY SuperscalarAssumption DEF CycleMapSize, None
  <1>5. /\ m.uop1 = {} => c = at
        /\ c # None => c \in Nat /\ at <= c
        /\ m.uop1 # {} /\ c # None => c < CycleMapSize
        /\ \A d \in at .. CycleMapSize - 1 :
              (\A uop \in {m.uop1, m.uop2} \ {{}} : FreePorts(uop, d) # {}) => c # None
    <2> DEFINE from == IF m.dependent /\ at > at THEN at ELSE at
    <2>1. from = at
      OBVIOUS
    <2>2. /\ m.uop1 = {} => c = from
          /\ c # None => c \in Nat /\ at <= c
          /\ m.uop1 # {} /\ c # None => c < CycleMapSize
          /\ \A d \in from .. CycleMapSize - 1 :
                (\A uop \in {m.uop1, m.uop2} \ {{}} : FreePorts(uop, d) # {}) => c # None
      BY <1>1, <1>2, Scheduled
    <2> HIDE DEF from, c
    <2> QED
      BY <2>1, <2>2
  <1>6. m.uop1 # {} => c # None
    <2> SUFFICES ASSUME m.uop1 # {} PROVE c # None
      OBVIOUS
    <2>1. last \in at .. CycleMapSize - 1 /\ last >= Latency
      BY <1>1, <1>3, <1>4
    <2>2. \A p : <<last, p>> \notin busy
      <3> SUFFICES ASSUME NEW p, <<last, p>> \in busy PROVE FALSE
        OBVIOUS
      <3>1. <<last, p>>[1] < Latency
        BY <1>3 DEF IInv, Free
      <3> QED
        BY <1>4, <2>1, <3>1
    <2>3. \A uop \in {m.uop1, m.uop2} \ {{}} : FreePorts(uop, last) # {}
      BY <2>2 DEF FreePorts
    <2> HIDE DEF last, c
    <2> QED
      BY <1>5, <2>1, <2>3
  <1> HIDE DEF c
  <1>7. c # None
    BY <1>1, <1>4, <1>5, <1>6
  <1> QED
    BY <1>5, <1>7 DEF c, m

LEMMA Placed ==
    ASSUME IInv, Commit
    PROVE  \E start \in Nat :
              /\ at <= start
              /\ MopAt(instr, mop).uop1 # {} => start < CycleMapSize
              /\ Place(MopAt(instr, mop), start)
              /\ throw_away_count' = 0
              /\ UNCHANGED <<buffer, instr, top, decode_cycle, asics>>
  BY PortsFound DEF Commit

LEMMA CommitKeeps == IInv /\ Commit => IInv'
  <1> SUFFICES ASSUME IInv, Commit PROVE IInv'
    OBVIOUS
  <1> USE DEF IInv
  <1> DEFINE m == MopAt(instr, mop)
             last == mop + 1 >= Size(instr)
             result == mop = InfoOf(instr.op).result
  <1>1. PICK start \in Nat :
              /\ at <= start
              /\ m.uop1 # {} => start < CycleMapSize
              /\ Place(m, start)
              /\ throw_away_count' = 0
              /\ UNCHANGED <<buffer, instr, top, decode_cycle, asics>>
    BY Placed
  <1> DEFINE ready == start + m.latency
  <1>2. /\ busy' = busy \union PortsTaken(m, start)
        /\ at' = start /\ dep' = ready
        /\ registers' = IF result THEN [registers EXCEPT ![instr.dst] = RegisterAfter(ready)] ELSE registers
        /\ slot' = slot + 1 /\ mop' = mop + 1
        /\ ports_saturated' = (ports_saturated \/ start >= Latency)
        /\ cycle' = top /\ throw_away_count' = 0
        /\ prog' = IF last THEN Append(prog, instr) ELSE prog
        /\ mul_count' = IF last /\ IsMultiplication(instr.op) THEN mul_count + 1 ELSE mul_count
        /\ stage = "commit" /\ stage' = "slot"
        /\ UNCHANGED <<buffer, instr, top, decode_cycle, measured, asic>>
    BY <1>1 DEF Place, asics, Commit
  <1>3. /\ instr \in InstrType /\ mop \in 0 .. 3 /\ mop < Size(instr) /\ at \in Nat /\ top \in Nat
        /\ slot \in Nat /\ Len(buffer.counts) \in Nat /\ slot < Len(buffer.counts)
        /\ Len(prog) < MaxSize /\ prog \in Seq(InstrType) /\ Len(prog) \in Nat /\ cycle <= at /\ cycle \in Nat
    BY <1>2, BufferCounts DEF Unscheduled, Typed, Times, Placing, Loops, Active, Pending
  <1>4. /\ m.uop1 \subseteq Ports /\ m.uop2 \subseteq Ports /\ m.latency \in 1 .. 4
        /\ m.uop1 = {} => m = Mov
    BY <1>3, NextMop
  <1> HIDE DEF m
  <1>5. CycleMapSize \in Nat /\ Latency \in Nat /\ CycleMapSize = Latency + 4 /\ MaxSize \in Nat /\ MaxThrowaway \in Nat
    BY SuperscalarAssumption DEF CycleMapSize
  <1>6. instr.op \in Opcodes /\ instr.op # "INVALID"
    BY <1>2, <1>3, Kinds DEF Unscheduled, Current, Active
  <1>7. /\ instr.op \in Single => mop = 0 /\ last /\ result
        /\ instr.op \in HighMultiply => mop \in 0 .. 2 /\ (last <=> mop = 2) /\ (result <=> mop = 1)
        /\ instr.op = "IMUL_RCP" => mop \in 0 .. 1 /\ (last <=> mop = 1) /\ (result <=> mop = 1)
    BY <1>3, Kinds, Slots
  <1>8. ready \in Nat /\ at < ready /\ ready <= start + 4
    BY <1>1, <1>3, <1>4
  <1>9. \/ instr.op \in Single \/ instr.op \in HighMultiply \/ instr.op = "IMUL_RCP"
    BY <1>3, <1>6, Kinds
  <1>10. result => instr.dst \in Reg
    <2> SUFFICES ASSUME result PROVE instr.dst \in Reg
      OBVIOUS
    <2>1. mop = InfoOf(instr.op).dst \/ HighAt(1)
      BY <1>3, <1>7, <1>9, Slots DEF HighAt
    <2> QED
      BY <1>2, <2>1 DEF Operands
  <1>11. \A c \in PortsTaken(m, start) : c \in {start} \X Ports /\ start < CycleMapSize
    <2> SUFFICES ASSUME NEW c \in PortsTaken(m, start) PROVE c \in {start} \X Ports /\ start < CycleMapSize
      OBVIOUS
    <2>1. PICK u \in {m.uop1, m.uop2} \ {{}} : c = <<start, FirstPort(FreePorts(u, start))>>
      BY DEF PortsTaken
    <2>2. FirstPort(FreePorts(u, start)) \in Ports
      BY DEF FirstPort, Ports
    <2>3. m # Mov
      BY <2>1, MovKind
    <2> QED
      BY <1>1, <1>4, <2>1, <2>2, <2>3
  <1>12. Len(prog') = (IF last THEN Len(prog) + 1 ELSE Len(prog)) /\ prog' \in Seq(InstrType)
    <2>1. Len(Append(prog, instr)) = Len(prog) + 1 /\ Append(prog, instr) \in Seq(InstrType)
      BY <1>3, AppendProperties
    <2> QED
      BY <1>2, <1>3, <2>1
  <1> HIDE DEF last, result, ready
  <1>13. Typed'
    <2>1. busy' \subseteq (0 .. CycleMapSize - 1) \X Ports
      <3>1. busy \subseteq (0 .. CycleMapSize - 1) \X Ports
        BY DEF Typed
      <3>2. PortsTaken(m, start) \subseteq (0 .. CycleMapSize - 1) \X Ports
        BY <1>1, <1>5, <1>11
      <3> QED
        BY <1>2, <3>1, <3>2
    <2>2. registers' \in [Reg -> RegisterType]
      <3>1. RegisterAfter(ready) \in RegisterType
        <4>1. OpGroup(instr.op) \in Opcodes
          BY <1>6 DEF OpGroup, Opcodes
        <4>2. instr.par \in Par
          BY <1>3 DEF InstrType, Par
        <4> QED
          BY <1>8, <4>1, <4>2 DEF RegisterAfter, RegisterType
      <3>2. registers \in [Reg -> RegisterType]
        BY DEF Typed
      <3> QED
        BY <1>2, <1>10, <3>1, <3>2
    <2>3. Len(prog) <= Len(prog') /\ Len(prog') <= MaxSize /\ Len(prog') \in Nat
      BY <1>3, <1>5, <1>12
    <2>4. mul_count' \in 0 .. Len(prog') /\ measured' \in 0 .. Len(prog')
      <3>1. mul_count \in 0 .. Len(prog) /\ measured \in 0 .. Len(prog)
        BY DEF Typed
      <3> QED
        BY <1>2, <1>3, <1>12, <3>1
    <2>5. mop' \in 0 .. 3 /\ slot' \in 0 .. Len(buffer'.counts)
      <3>1. Size(instr) \in 0 .. 3
        BY <1>3, Kinds
      <3> QED
        BY <1>2, <1>3, <3>1
    <2>6. stage' \in Stages /\ throw_away_count' \in 0 .. MaxThrowaway /\ ports_saturated' \in BOOLEAN
      <3>1. ports_saturated' \in BOOLEAN
        BY <1>2 DEF Typed
      <3> QED
        BY <1>2, <1>5, <3>1 DEF Stages
    <2>7. cycle' \in Nat /\ dep' \in Nat /\ top' \in 0 .. cycle' /\ at' \in Nat \union {None}
      BY <1>1, <1>2, <1>3, <1>8
    <2>8. /\ buffer' \in Buffers \union {Buffer(0, <<>>)} /\ instr' \in InstrType
          /\ decode_cycle' \in 0 .. Latency /\ asic' \in [Reg -> 0 .. measured']
      BY <1>2 DEF Typed
    <2> QED
      BY <1>12, <2>1, <2>2, <2>3, <2>4, <2>5, <2>6, <2>7, <2>8 DEF Typed
  <1>14. /\ Pending' <=> ~last
         /\ HighAt(1)' <=> HighAt(0)
         /\ HighAt(2)' <=> HighAt(1)
         /\ ~HighAt(0)'
    <2>1. Size(instr) \in 0 .. 3
      BY <1>3, Kinds
    <2> QED
      BY <1>2, <1>3, <2>1 DEF Pending, HighAt, last
  <1>15. Loops'
    <2>1. decode_cycle < Latency
      BY <1>2 DEF Loops, Active
    <2> QED
      BY <1>2, <1>3, <1>12, <1>14, <2>1 DEF Loops, Active
  <1>16. FitsHere
    BY <1>2 DEF Fit, Active
  <1>17. ~last => \/ HighAt(1) /\ buffer = Buffer3310 /\ slot = 0
                  \/ (HighAt(0) \/ (instr.op = "IMUL_RCP" /\ mop = 0)) /\ slot + 1 = Len(buffer.counts)
    <2>1. ~last => (instr.op \in HighMultiply /\ mop \in {0, 1}) \/ (instr.op = "IMUL_RCP" /\ mop = 0)
      BY <1>3, <1>7, <1>9
    <2>2. instr.op \in HighMultiply => instr.op # "IMUL_RCP" /\ Size(instr) # 1
      BY <1>3, Kinds
    <2>3. instr.op = "IMUL_RCP" => Size(instr) # 1
      BY <1>3, Kinds
    <2> QED
      BY <1>16, <2>1, <2>2, <2>3 DEF FitsHere, HighAt
  <1>18. Fit'
    <2> SUFFICES ASSUME Pending'
                 PROVE  mop' # 0 /\ (FitsHere' \/ (slot' = Len(buffer'.counts) /\ mop' = 1))
      BY <1>2 DEF Fit, Active
    <2>1. mop' # 0
      BY <1>2, <1>3
    <2>2. CASE HighAt(1) /\ buffer = Buffer3310 /\ slot = 0
      <3>1. slot' = 1 /\ Len(buffer'.counts) = 3 /\ buffer' = Buffer3310 /\ HighAt(2)'
        BY <1>2, <1>14, <2>2, BufferCounts DEF Buffers
      <3> QED
        BY <2>1, <3>1 DEF FitsHere
    <2>3. CASE (HighAt(0) \/ (instr.op = "IMUL_RCP" /\ mop = 0)) /\ slot + 1 = Len(buffer.counts)
      BY <1>2, <2>1, <2>3 DEF HighAt
    <2> QED
      BY <1>14, <1>17, <2>2, <2>3
  <1>19. Saturated'
    <2>1. Pending' => HighAt(2)' \/ slot' = Len(buffer'.counts)
      BY <1>2, <1>14, <1>17
    <2> QED
      BY <1>2, <2>1 DEF Saturated, Active
  <1>20. Free'
    <2> SUFFICES ASSUME ~ports_saturated'
                 PROVE  /\ \A b \in busy' : b[1] < Latency
                        /\ \A x \in Reg : registers'[x].latency < CycleMapSize
      BY DEF Free
    <2>1. ~ports_saturated /\ start < Latency
      <3>1. ~(ports_saturated \/ start >= Latency)
        BY <1>2, Zenon
      <3>2. start < Latency
        BY <1>1, <1>5, <3>1
      <3> QED
        BY <3>1, <3>2, Zenon
    <2>2. \A b \in busy' : b[1] < Latency
      <3>1. \A b \in busy : b[1] < Latency
        BY <2>1 DEF Free
      <3>2. \A b \in PortsTaken(m, start) : b[1] < Latency
        BY <1>11, <2>1
      <3> QED
        BY <1>2, <3>1, <3>2
    <2>3. ASSUME NEW x \in Reg PROVE registers'[x].latency < CycleMapSize
      <3>1. registers[x].latency < CycleMapSize
        BY <2>1 DEF Free
      <3>2. RegisterAfter(ready).latency < CycleMapSize
        BY <1>1, <1>5, <1>8, <2>1 DEF RegisterAfter
      <3>3. registers \in [Reg -> RegisterType]
        BY DEF Typed
      <3> QED
        BY <1>2, <1>10, <3>1, <3>2, <3>3
    <2> QED
      BY <2>2, <2>3
  <1>21. Times'
    BY <1>2, <1>14 DEF Unscheduled, Times, Placing
  <1>22. Operands'
    <2>1. HighAt(0) => instr.dst \in Reg /\ registers'[instr.dst].latency <= top + 3
      <3> SUFFICES ASSUME HighAt(0) PROVE instr.dst \in Reg /\ registers'[instr.dst].latency <= top + 3
        OBVIOUS
      <3>1. mop = InfoOf(instr.op).dst /\ ~result
        BY <1>3, <1>7, Slots DEF HighAt
      <3>2. instr.dst \in Reg /\ registers[instr.dst].latency <= at /\ at <= top + 3
        BY <1>2, <3>1 DEF Unscheduled, Operands, Times
      <3>3. registers[instr.dst].latency \in Nat
        BY <3>2 DEF Typed, RegisterType
      <3> QED
        BY <1>2, <1>3, <3>1, <3>2, <3>3
    <2>2. HighAt(1) => instr.dst \in Reg /\ instr.src \in Reg
      BY <1>2, <1>3, Slots DEF Operands, HighAt
    <2> QED
      BY <1>2, <1>14, <2>1, <2>2 DEF Operands
  <1>23. Current'
    BY <1>2, <1>3 DEF Unscheduled, Current, Active, Pending
  <1>24. HighAt(1)' \/ HighAt(2)' => ~last
    BY <1>7, <1>14 DEF HighAt
  <1> USE DEF Typed
  <1>25. registers \in [Reg -> RegisterType]
    OBVIOUS
  <1>26. result => /\ registers'[instr.dst].group = OpGroup(instr.op)
                   /\ registers'[instr.dst].par = instr.par
                   /\ \A x \in Reg : x # instr.dst => registers'[x] = registers[x]
    BY <1>2, <1>10, <1>25 DEF RegisterAfter
  <1>27. /\ \A j \in Indices : prog'[j + 1] = prog[j + 1]
         /\ last => prog'[Len(prog) + 1] = instr /\ Indices' = Indices \union {Len(prog)} /\ Len(prog') - 1 = Len(prog)
         /\ ~last => Indices' = Indices /\ prog' = prog
    BY <1>2, <1>3, <1>12 DEF Indices
  <1>28. last => Selected(instr)
    <2> SUFFICES ASSUME last PROVE Selected(instr)
      OBVIOUS
    <2>1. CASE instr.op \in HighMultiply
      <3>1. HighAt(2) /\ InfoOf(instr.op).src # None /\ instr.op # "IADD_RS"
        BY <1>3, <1>7, <2>1, Slots DEF HighAt, None, HighMultiply
      <3> QED
        BY <1>6, <2>1, <3>1 DEF Operands, Selected
    <2>2. CASE instr.op \notin HighMultiply
      <3>1. mop = InfoOf(instr.op).dst /\ (InfoOf(instr.op).src = None \/ mop = InfoOf(instr.op).src)
        BY <1>3, <1>7, <1>9, <2>2, Slots
      <3>2. /\ instr.dst \in Reg /\ instr.src # instr.dst /\ ParOf(instr)
            /\ instr.op = "IADD_RS" => instr.dst # Displaced
        BY <1>2, <2>2, <3>1 DEF Unscheduled, Operands, Current
      <3>3. instr.src \in (IF InfoOf(instr.op).src = None THEN {None} ELSE Reg)
        BY <1>2, <3>1 DEF Operands
      <3> QED
        BY <1>6, <3>2, <3>3 DEF Selected
    <2> QED
      BY <2>1, <2>2
  <1>29. History'
    <2>1. HighAt(2)' => /\ registers'[instr'.dst].group = OpGroup(instr'.op)
                        /\ registers'[instr'.dst].par = instr'.par
      BY <1>2, <1>7, <1>14, <1>26 DEF HighAt
    <2>2. ASSUME NEW j \in Indices',
                 \A n \in j + 1 .. Len(prog') - 1 : prog'[n + 1].dst # prog'[j + 1].dst
          PROVE  \/ HighAt(2)' /\ instr'.dst = prog'[j + 1].dst
                 \/ /\ registers'[prog'[j + 1].dst].group = OpGroup(prog'[j + 1].op)
                    /\ registers'[prog'[j + 1].dst].par = prog'[j + 1].par
      <3>1. CASE last /\ j = Len(prog)
        <4>1. prog'[j + 1] = instr
          BY <1>27, <3>1
        <4>2. CASE result
          BY <1>26, <4>1, <4>2
        <4>3. CASE ~result
          <5>1. HighAt(2) /\ registers' = registers
            BY <1>2, <1>7, <1>9, <3>1, <4>3 DEF HighAt
          <5> QED
            BY <4>1, <5>1 DEF History
        <4> QED
          BY <4>2, <4>3
      <3>2. CASE j \in Indices
        <4> DEFINE a == prog[j + 1]
        <4>1. prog'[j + 1] = a /\ Selected(a)
          BY <1>27, <3>2 DEF Clean, At
        <4>2. \A n \in j + 1 .. Len(prog) - 1 : prog[n + 1].dst # a.dst
          <5> SUFFICES ASSUME NEW n \in j + 1 .. Len(prog) - 1 PROVE prog[n + 1].dst # a.dst
            OBVIOUS
          <5>1. n \in Indices /\ n \in j + 1 .. Len(prog') - 1
            BY <1>3, <1>12, <3>2 DEF Indices
          <5> QED
            BY <1>27, <2>2, <4>1, <5>1
        <4>3. last => instr.dst # a.dst
          <5> SUFFICES ASSUME last PROVE instr.dst # a.dst
            OBVIOUS
          <5>1. Len(prog) \in j + 1 .. Len(prog') - 1
            BY <1>3, <1>12, <3>2 DEF Indices
          <5> QED
            BY <1>27, <2>2, <4>1, <5>1
        <4>4. \/ HighAt(2) /\ instr.dst = a.dst
              \/ registers[a.dst].group = OpGroup(a.op) /\ registers[a.dst].par = a.par
          BY <3>2, <4>2 DEF History, At
        <4>5. HighAt(2) => last
          BY <1>7 DEF HighAt
        <4>6. registers[a.dst].group = OpGroup(a.op) /\ registers[a.dst].par = a.par
          BY <4>3, <4>4, <4>5
        <4>7. a.dst \in Reg
          BY <4>1 DEF Selected
        <4>8. CASE result /\ instr.dst = a.dst
          <5>1. HighAt(1)
            BY <1>7, <1>9, <4>3, <4>8 DEF HighAt
          <5> QED
            BY <1>2, <1>14, <4>1, <4>8, <5>1
        <4>9. CASE ~(result /\ instr.dst = a.dst)
          <5>1. registers'[a.dst] = registers[a.dst]
            BY <1>2, <1>26, <4>7, <4>9
          <5> QED
            BY <4>1, <4>6, <5>1
        <4> QED
          BY <4>8, <4>9
      <3> QED
        BY <1>27, <3>1, <3>2
    <2> QED
      BY <2>1, <2>2 DEF History, At
  <1>30. Clean'
    <2>1. ASSUME NEW k \in Indices' PROVE Selected(prog'[k + 1])
      BY <1>27, <1>28 DEF Clean, At
    <2>2. ASSUME NEW k \in Indices', NEW j \in 0 .. k - 1 PROVE Apart(j, k)'
      <3>1. CASE k \in Indices
        <4>1. Apart(j, k)
          BY <3>1 DEF Clean
        <4>2. j \in Indices /\ \A n \in j + 1 .. k - 1 : n \in Indices
          BY <1>3, <3>1 DEF Indices
        <4> QED
          BY <1>27, <3>1, <4>1, <4>2 DEF Apart, At
      <3>2. CASE last /\ k = Len(prog)
        <4>1. j \in Indices /\ k - 1 = Len(prog) - 1 /\ \A n \in j + 1 .. k - 1 : n \in Indices
          BY <1>3, <3>2 DEF Indices
        <4> DEFINE a == prog[j + 1]
        <4>2. prog'[j + 1] = a /\ prog'[k + 1] = instr /\ Selected(a)
          BY <1>27, <3>2, <4>1 DEF Clean, At
        <4> SUFFICES ASSUME a.dst = instr.dst,
                            \A n \in j + 1 .. k - 1 : prog'[n + 1].dst # instr.dst,
                            OpGroup(a.op) = OpGroup(instr.op),
                            instr.op \notin HighMultiply
                     PROVE  a.src # instr.src
          BY <4>2 DEF Apart, At
        <4>3. \A n \in j + 1 .. Len(prog) - 1 : prog[n + 1].dst # a.dst
          BY <1>27, <4>1
        <4>4. registers[instr.dst].group = OpGroup(a.op) /\ registers[instr.dst].par = a.par
          BY <4>1, <4>3 DEF History, At, HighAt
        <4>5. mop = InfoOf(instr.op).dst
          BY <1>3, <1>7, <1>9, <3>2, Slots
        <4>6. a.par # instr.par /\ ParOf(instr)
          BY <1>2, <4>4, <4>5 DEF Unscheduled, Current
        <4>7. a.op \in Opcodes /\ (a.op \notin HighMultiply => ParOf(a))
          BY <4>2 DEF Selected
        <4>8. /\ a.op \notin HighMultiply
              /\ a.op \in {"ISUB_R", "IXOR_R", "IADD_RS", "IMUL_R"} <=>
                    instr.op \in {"ISUB_R", "IXOR_R", "IADD_RS", "IMUL_R"}
              /\ a.op = "IROR_C" <=> instr.op = "IROR_C"
          BY <1>6, <4>7 DEF OpGroup, Opcodes, HighMultiply
        <4> QED
          BY <4>6, <4>7, <4>8 DEF ParOf
      <3> QED
        BY <1>27, <3>1, <3>2
    <2> QED
      BY <2>1, <2>2 DEF Clean, At
  <1> QED
    BY <1>13, <1>15, <1>18, <1>19, <1>20, <1>21, <1>22, <1>23, <1>29, <1>30

LEMMA NextIInv == IInv /\ [Next]_vars => IInv'
  <1> SUFFICES ASSUME IInv, [Next]_vars PROVE IInv'
    OBVIOUS
  <1>1. CASE FetchBuffer
    BY <1>1, FetchKeeps
  <1>2. CASE EndBuffer
    BY <1>2, EndBufferKeeps
  <1>3. CASE LeaveBuffer
    BY <1>3, LeaveKeeps
  <1>4. CASE NextMacroOp
    BY <1>4, ContinueKeeps, DrawKeeps
  <1>5. CASE Schedule
    BY <1>5, ScheduleKeeps
  <1>6. CASE SelectSource
    BY <1>6, SourceKeeps
  <1>7. CASE SelectDestination
    BY <1>7, DestinationKeeps
  <1>8. CASE Commit
    BY <1>8, CommitKeeps
  <1>9. CASE Finish \/ EndMeasure
    BY <1>9, FinishKeeps
  <1>10. CASE MeasureAsic
    BY <1>10, MeasureKeeps
  <1>11. CASE UNCHANGED vars \/ Returned
    BY <1>11, StutterKeeps DEF Returned
  <1>12. CASE AcceptDraw \/ RefuseDraw \/ DrawAgain
    BY <1>12, TurnKeeps
  <1> QED
    BY <1>1, <1>2, <1>3, <1>4, <1>5, <1>6, <1>7, <1>8, <1>9, <1>10, <1>11, <1>12 DEF Next

-----------------------------------------------------------------------------
(* The theorems.                                                           *)

\* The loops of generate keep the inductive invariant, whatever bytes and
\* words the Blake2 generator returns.
THEOREM SpecIInv == Spec => []IInv
  BY InitIInv, NextIInv, PTL DEF Spec

\* The counters, indices and latencies of generate stay in their ranges.
THEOREM AlwaysTypeOK == Spec => []TypeOK
  <1>1. IInv => TypeOK
    <2> SUFFICES ASSUME Typed PROVE TypeOK
      BY DEF IInv
    <2>1. asic \in [Reg -> 0 .. Len(prog)]
      <3>1. measured \in Nat /\ measured <= Len(prog) /\ Len(prog) \in Nat /\ asic \in [Reg -> 0 .. measured]
        BY DEF Typed
      <3> QED
        BY <3>1
    <2>2. \A x \in Reg : registers[x] \in RegisterType
      BY DEF Typed
    <2> QED
      BY <2>1, <2>2 DEF Typed, TypeOK, Stages, RegisterType, Par, Ports
  <1> QED
    BY <1>1, SpecIInv, PTL

\* create_for_slot and fetch_next: every macro-op is placed in a slot of its
\* own size.
THEOREM SlotAlwaysFits == Spec => []SlotFits
  <1>1. IInv => SlotFits
    <2> SUFFICES ASSUME IInv, stage = "schedule"
                 PROVE  IF Size(instr) = 1 THEN buffer.counts[slot + 1] \in SlotSize(instr.op)
                        ELSE buffer.counts[slot + 1] = MopAt(instr, mop).size
      BY DEF SlotFits
    <2>1. FitsHere /\ instr \in InstrType /\ buffer \in Buffers \union {Buffer(0, <<>>)}
      BY DEF IInv, Fit, Active, Typed
    <2>2. CASE Size(instr) = 1 /\ mop = 0 /\ buffer.counts[slot + 1] \in SlotSize(instr.op)
      BY <2>2
    <2>3. CASE HighAt(0) /\ buffer.counts[slot + 1] = 3
      BY <2>1, <2>3, Kinds, Mops, MovKind DEF HighAt
    <2>4. CASE HighAt(1) /\ buffer = Buffer3310 /\ slot = 0
      <3>1. buffer.counts[slot + 1] = 3
        BY <2>1, <2>4, BufferCounts
      <3> QED
        BY <2>1, <2>4, <3>1, Kinds, Mops, MulKind DEF HighAt
    <2>5. CASE HighAt(2) /\ buffer = Buffer3310 /\ slot = 1
      <3>1. buffer.counts[slot + 1] = 3
        BY <2>1, <2>5, BufferCounts
      <3> QED
        BY <2>1, <2>5, <3>1, Kinds, Mops, MovKind DEF HighAt
    <2>6. CASE instr.op = "IMUL_RCP" /\ mop = 0 /\ buffer.counts[slot + 1] = 10
      BY <2>1, <2>6, Kinds, Mops, MulKind
    <2>7. CASE instr.op = "IMUL_RCP" /\ mop = 1 /\ buffer.counts[1] = 4 /\ slot = 0
      BY <2>1, <2>7, Kinds, Mops, MulKind
    <2> QED
      BY <2>1, <2>2, <2>3, <2>4, <2>5, <2>6, <2>7 DEF FitsHere
  <1> QED
    BY <1>1, SpecIInv, PTL

\* The second schedule_mop of generate never fails.
THEOREM CommitAlwaysFindsPorts == Spec => []CommitFindsPorts
  <1>1. IInv => CommitFindsPorts
    BY PortsFound DEF CommitFindsPorts
  <1> QED
    BY <1>1, SpecIInv, PTL

\* select_register and the RegisterInfo of the last instruction keep the
\* finished program from wasting work.
THEOREM NeverWastesWork == Spec => []NoWastedWork
  <1>1. IInv => NoWastedWork
    <2> SUFFICES ASSUME Clean PROVE NoWastedWork
      BY DEF IInv
    <2> QED
      BY DEF Clean, Selected, Apart, NoWastedWork
  <1> QED
    BY <1>1, SpecIInv, PTL

\* A result is ready after its operands, whatever was waited for.
THEOREM ResultsAlwaysAfterOperands == Spec => ResultsAfterOperands
  <1> DEFINE After == \A x \in Reg : registers'[x] # registers[x] =>
                         /\ registers'[x].latency > registers[x].latency
                         /\ instr'.src # None => registers'[x].latency > registers[instr'.src].latency
  <1>1. ASSUME IInv, Next PROVE After
    <2> SUFFICES ASSUME NEW x \in Reg, registers'[x] # registers[x]
                 PROVE  /\ registers'[x].latency > registers[x].latency
                        /\ instr'.src # None => registers'[x].latency > registers[instr'.src].latency
      OBVIOUS
    <2>1. Commit
      BY <1>1 DEF Next, FetchBuffer, EndBuffer, LeaveBuffer, NextMacroOp, AcceptDraw, RefuseDraw, DrawAgain,
                  Turn, Schedule, SelectSource, SelectDestination, Finish, MeasureAsic, EndMeasure, Returned, vars, made
    <2>2. PICK start \in Nat : /\ at <= start
                               /\ Place(MopAt(instr, mop), start)
                               /\ UNCHANGED <<buffer, instr, top, decode_cycle, asics>>
      BY <1>1, <2>1, Placed
    <2> DEFINE m == MopAt(instr, mop)
    <2>3. /\ instr \in InstrType /\ mop \in 0 .. 3 /\ mop < Size(instr) /\ at \in Nat /\ cycle \in Nat /\ cycle <= at
          /\ registers \in [Reg -> RegisterType] /\ stage = "commit" /\ instr' = instr
      BY <1>1, <2>1, <2>2 DEF Unscheduled, Commit, IInv, Typed, Times, Placing, Loops, Active, Pending
    <2>4. /\ mop = InfoOf(instr.op).result
          /\ registers' = [registers EXCEPT ![instr.dst] = RegisterAfter(start + m.latency)]
      BY <2>2 DEF Place
    <2>5. x = instr.dst /\ registers'[x].latency = start + m.latency
      BY <2>3, <2>4 DEF RegisterAfter
    <2>6. m.latency \in 1 .. 4 /\ (instr.op \in HighMultiply => m.latency = 4)
      BY <2>3, <2>4, NextMop, Mops, MulKind, Slots
    <2> HIDE DEF m
    <2>7. instr.op \in Opcodes /\ instr.op # "INVALID"
      BY <1>1, <2>3, Kinds DEF Unscheduled, IInv, Current, Active
    <2>8. registers[x].latency \in Nat /\ \A r \in Reg : registers[r].latency \in Nat
      BY <2>3 DEF RegisterType
    <2>9. registers'[x].latency > registers[x].latency
      <3>1. CASE instr.op \in HighMultiply
        <4>1. registers[x].latency <= cycle + 3
          BY <1>1, <2>3, <2>4, <2>5, <3>1, Slots DEF IInv, Operands, HighAt
        <4> QED
          BY <2>2, <2>3, <2>5, <2>6, <2>8, <3>1, <4>1
      <3>2. CASE instr.op \notin HighMultiply
        <4>1. mop = InfoOf(instr.op).dst
          BY <2>3, <2>4, <2>7, <3>2, Slots, Kinds
        <4>2. registers[x].latency <= at
          BY <1>1, <2>3, <2>5, <4>1 DEF IInv, Operands
        <4> QED
          BY <2>2, <2>3, <2>5, <2>6, <2>8, <4>2
      <3> QED
        BY <3>1, <3>2
    <2>10. ASSUME instr.src # None PROVE registers'[x].latency > registers[instr.src].latency
      <3>1. mop = InfoOf(instr.op).src
        <4>1. InfoOf(instr.op).src # None
          BY <1>1, <2>10 DEF IInv, Operands
        <4> QED
          BY <2>3, <2>4, <2>7, <4>1, Slots, Kinds
      <3>2. instr.src \in Reg /\ registers[instr.src].latency <= at
        BY <1>1, <2>3, <3>1 DEF IInv, Operands
      <3> QED
        BY <2>2, <2>3, <2>5, <2>6, <2>8, <3>2
    <2> QED
      BY <2>3, <2>9, <2>10
  <1>2. IInv /\ [Next]_vars => [After]_vars
    BY <1>1
  <1> QED
    BY <1>2, SpecIInv, PTL DEF Spec, ResultsAfterOperands

-----------------------------------------------------------------------------
(* The dispatch of the finished program.                                   *)

\* What the handler of an instruction's own opcode does.
LEMMA OwnEffect ==
    ASSUME NEW i, Selected(i)
    PROVE  /\ ExecOpcode(i.op) \in 0 .. 9
           /\ Effect(ExecOpcode(i.op), ExecInstr(i)) = [do |-> OperationOf(i.op), dst |-> i.dst, src |-> i.src]
  <1>1. i.op \in Opcodes /\ i.dst \in Nat
    BY SuperscalarAssumption DEF Selected, Reg
  <1>2. /\ ExecOpcode(i.op) \in 0 .. 9
        /\ Operations[ExecOpcode(i.op) + 1] = OperationOf(i.op)
        /\ ExecOpcode(i.op) \in {0, 1, 2, 3, 7, 8} <=> InfoOf(i.op).src # None
    <2> DEFINE x == ExecOpcode(i.op)
               o == OperationOf(i.op)
    <2>1. /\ i.op = "ISUB_R" => x = 0 /\ o = "sub"
          /\ i.op = "IXOR_R" => x = 1 /\ o = "xor"
          /\ i.op = "IADD_RS" => x = 2 /\ o = "add_shifted"
          /\ i.op = "IMUL_R" => x = 3 /\ o = "mul"
          /\ i.op = "IROR_C" => x = 4 /\ o = "ror"
      BY DEF ExecOpcode, OperationOf
    <2>2. /\ i.op \in {"IADD_C7", "IADD_C8", "IADD_C9"} => x = 5 /\ o = "add_imm"
          /\ i.op \in {"IXOR_C7", "IXOR_C8", "IXOR_C9"} => x = 6 /\ o = "xor_imm"
      BY DEF ExecOpcode, OperationOf
    <2>3. /\ i.op = "IMULH_R" => x = 7 /\ o = "mulh"
          /\ i.op = "ISMULH_R" => x = 8 /\ o = "smulh"
          /\ i.op = "IMUL_RCP" => x = 9 /\ o = "mul_rcp"
      BY DEF ExecOpcode, OperationOf
    <2>4. /\ Operations[0 + 1] = "sub" /\ Operations[1 + 1] = "xor" /\ Operations[2 + 1] = "add_shifted"
          /\ Operations[3 + 1] = "mul" /\ Operations[4 + 1] = "ror" /\ Operations[5 + 1] = "add_imm"
          /\ Operations[6 + 1] = "xor_imm" /\ Operations[7 + 1] = "mulh" /\ Operations[8 + 1] = "smulh"
          /\ Operations[9 + 1] = "mul_rcp"
      BY DEF Operations
    <2> HIDE DEF x, o
    <2>5. /\ i.op \in {"ISUB_R", "IXOR_R", "IADD_RS", "IMUL_R"} => i.op \in Single /\ InfoOf(i.op).src # None
          /\ i.op \in Opcodes \ {"ISUB_R", "IXOR_R", "IADD_RS", "IMUL_R", "IMULH_R", "ISMULH_R"} =>
                InfoOf(i.op).src = None
          /\ i.op \in {"IMULH_R", "ISMULH_R"} => InfoOf(i.op).src # None
      <3>1. i.op \in Opcodes \ {"IMULH_R", "ISMULH_R", "IMUL_RCP"} => i.op \in Single
        BY DEF Single, HighMultiply
      <3>2. i.op \in {"ISUB_R", "IXOR_R", "IADD_RS", "IMUL_R"} => i.op \in Single
        BY <3>1 DEF Opcodes
      <3>3. i.op \in {"IMULH_R", "ISMULH_R"} => InfoOf(i.op).src # None
        BY HighInfo DEF HighMultiply, None
      <3>4. i.op \in Single => (InfoOf(i.op).src # None <=> i.op \in {"ISUB_R", "IXOR_R", "IADD_RS", "IMUL_R"})
        BY SingleInfo DEF None
      <3> QED
        BY <3>1, <3>2, <3>3, <3>4, RcpInfo
    <2>6. x \in 0 .. 9 /\ Operations[x + 1] = o
      BY <1>1, <2>1, <2>2, <2>3, <2>4 DEF Opcodes
    <2>7. x \in {0, 1, 2, 3, 7, 8} <=>
             i.op \in {"ISUB_R", "IXOR_R", "IADD_RS", "IMUL_R", "IMULH_R", "ISMULH_R"}
      BY <1>1, <2>1, <2>2, <2>3 DEF Opcodes
    <2> QED
      BY <1>1, <2>5, <2>6, <2>7 DEF x, o
  <1>3. (i.dst * 8) \div 8 = i.dst
    BY <1>1
  <1>4. CASE InfoOf(i.op).src = None
    <2>1. i.src = None
      BY <1>4 DEF Selected
    <2> QED
      BY <1>2, <1>3, <1>4, <2>1 DEF Effect, ExecInstr, WordSize
  <1>5. CASE InfoOf(i.op).src # None
    <2>1. i.src \in Nat
      BY <1>5, SuperscalarAssumption DEF Selected, Reg
    <2>2. (i.src * 8) \div 8 = i.src /\ ~(i.src < 0)
      BY <2>1
    <2> QED
      BY <1>2, <1>3, <1>5, <2>2 DEF Effect, ExecInstr, WordSize
  <1> QED
    BY <1>2, <1>4, <1>5

\* A handler offset fits a u16 and names the two opcodes of its pair.
LEMMA PairOfOffset ==
    ASSUME NEW a \in 0 .. 9, NEW b \in 0 .. 9
    PROVE  /\ PairHandlers[(((a * 10 + b) * PointerSize) % 2^16) \div PointerSize][1] = a
           /\ PairHandlers[(((a * 10 + b) * PointerSize) % 2^16) \div PointerSize][2] = b
  <1> DEFINE n == a * 10 + b
  <1>1. n \in 0 .. 99 /\ n \div 10 = a /\ n % 10 = b
    OBVIOUS
  <1> HIDE DEF n
  <1>2. 2^16 = 65536
    OBVIOUS
  <1>3. (n * 8) % 65536 = n * 8 /\ (n * 8) \div 8 = n
    BY <1>1
  <1>4. ((n * PointerSize) % 2^16) \div PointerSize = n
    BY <1>2, <1>3 DEF PointerSize
  <1>5. PairHandlers[n] = <<n \div 10, n % 10>>
    BY <1>1 DEF PairHandlers
  <1>6. PairHandlers[n][1] = a /\ PairHandlers[n][2] = b
    BY <1>1, <1>5
  <1> QED
    BY <1>4, <1>6 DEF n

\* The pair an instruction belongs to, from its position in a chunk or after
\* the last one.
LEMMA PairStart ==
    ASSUME NEW base \in Nat, base % 2 = 0, NEW k \in Nat, base <= k
    PROVE  /\ base + ((k - base) \div 2) * 2 \in Nat
           /\ (base + ((k - base) \div 2) * 2) % 2 = 0
           /\ k - (base + ((k - base) \div 2) * 2) \in {0, 1}
  <1>1. PICK r \in Nat : r = k - base
    OBVIOUS
  <1>2. (r \div 2) * 2 \in {r, r - 1} /\ (r \div 2) * 2 \in Nat /\ ((r \div 2) * 2) % 2 = 0
    BY <1>1
  <1> QED
    BY <1>1, <1>2

LEMMA EvenMultiple ==
    ASSUME NEW c \in Nat, c % 2 = 0, NEW q \in Nat
    PROVE  q * c \in Nat /\ (q * c) % 2 = 0
  <1>1. PICK h \in Nat : c = 2 * h
    OBVIOUS
  <1>2. PICK n \in Nat : n = q * h
    OBVIOUS
  <1>3. q * c = 2 * n
    BY <1>1, <1>2
  <1> QED
    BY <1>3

LEMMA DivMod ==
    ASSUME NEW k \in Nat, NEW c \in Nat \ {0}
    PROVE  /\ k = (k \div c) * c + (k % c) /\ k % c \in 0 .. c - 1 /\ k \div c \in Nat
           /\ (k \div c) * c \in Nat /\ (k \div c) * c <= k
  OBVIOUS

\* The first of a pair knows the handler of both.
LEMMA PairHandler ==
    ASSUME Clean, Len(prog) \in Nat, NEW first \in Nat, first % 2 = 0, first + 1 < Len(prog),
           NEW k \in Nat, k - first \in {0, 1}
    PROVE  PairHandlers[PairHandlerOffset(first) \div PointerSize][k - first + 1] = ExecOpcode(At(k).op)
  <1> DEFINE a == ExecOpcode(At(first).op)
             b == ExecOpcode(At(first + 1).op)
  <1>1. first \in Indices /\ first + 1 \in Indices
    BY DEF Indices
  <1>2. a \in 0 .. 9 /\ b \in 0 .. 9
    BY <1>1, OwnEffect DEF Clean
  <1>3. PairHandlerOffset(first) = ((a * 10 + b) * PointerSize) % 2^16
    BY <1>1 DEF PairHandlerOffset
  <1> HIDE DEF a, b
  <1>4. /\ PairHandlers[PairHandlerOffset(first) \div PointerSize][1] = a
        /\ PairHandlers[PairHandlerOffset(first) \div PointerSize][2] = b
    <2>1. /\ PairHandlers[(((a * 10 + b) * PointerSize) % 2^16) \div PointerSize][1] = a
          /\ PairHandlers[(((a * 10 + b) * PointerSize) % 2^16) \div PointerSize][2] = b
      BY <1>2, PairOfOffset, Zenon
    <2> QED
      BY <1>3, <2>1, Zenon
  <1>5. CASE k - first = 0
    <2>1. k = first /\ k - first + 1 = 1
      BY <1>5
    <2> QED
      BY <1>4, <2>1 DEF a
  <1>6. CASE k - first = 1
    <2>1. k = first + 1 /\ k - first + 1 = 2
      BY <1>6
    <2> QED
      BY <1>4, <2>1 DEF b
  <1> QED
    BY <1>5, <1>6

\* Every instruction gets the handler of its own opcode.
LEMMA OwnHandler ==
    ASSUME Clean, Len(prog) \in Nat, NEW k \in Indices
    PROVE  HandlerOf(k) = ExecOpcode(At(k).op)
  <1>1. k \in Nat /\ k < Len(prog) /\ ChunkSize \in Nat \ {0} /\ ChunkSize % 2 = 0
    BY SuperscalarAssumption DEF Indices
  <1>2. Chunked \in Nat /\ Chunked % 2 = 0 /\ Chunked <= Len(prog)
    <2>1. PICK q : q = Len(prog) \div ChunkSize
      OBVIOUS
    <2>2. q \in Nat /\ q * ChunkSize <= Len(prog)
      BY <1>1, <2>1, DivMod
    <2> QED
      BY <1>1, <2>1, <2>2, EvenMultiple DEF Chunked
  <1>3. /\ Paired \in Nat /\ Paired % 2 = 0 /\ Paired <= Len(prog)
    <2>1. Paired = Chunked + ((Len(prog) - Chunked) \div 2) * 2
      BY DEF Paired
    <2> QED
      BY <1>2, <2>1, PairStart
  <1>4. CASE k < Chunked
    <2> DEFINE base == (k \div ChunkSize) * ChunkSize
               first == base + ((k % ChunkSize) \div 2) * 2
    <2>1. base \in Nat /\ base % 2 = 0 /\ base <= k /\ k % ChunkSize = k - base
      <3>1. PICK q : q = k \div ChunkSize
        OBVIOUS
      <3>2. q \in Nat /\ q * ChunkSize <= k /\ k = q * ChunkSize + (k % ChunkSize) /\ k % ChunkSize \in Nat
        BY <1>1, <3>1, DivMod
      <3>3. PICK n \in Nat : n = q * ChunkSize
        BY <1>1, <3>2, EvenMultiple
      <3>4. n % 2 = 0
        BY <1>1, <3>2, <3>3, EvenMultiple
      <3>5. base = n
        BY <3>1, <3>3
      <3> HIDE DEF base
      <3> QED
        BY <1>1, <3>2, <3>3, <3>4, <3>5
    <2> HIDE DEF base
    <2>2. first \in Nat /\ first % 2 = 0 /\ k - first \in {0, 1}
      BY <1>1, <2>1, PairStart
    <2>3. HandlerOf(k) = PairHandlers[PairHandlerOffset(first) \div PointerSize][k - first + 1]
      BY <1>4 DEF HandlerOf, base
    <2> HIDE DEF first
    <2>4. first + 1 < Len(prog)
      BY <1>1, <1>2, <1>4, <2>2
    <2> QED
      BY <1>1, <2>2, <2>3, <2>4, PairHandler
  <1>5. CASE ~(k < Chunked) /\ k < Paired
    <2> DEFINE first == Chunked + ((k - Chunked) \div 2) * 2
    <2>1. first \in Nat /\ first % 2 = 0 /\ k - first \in {0, 1}
      BY <1>1, <1>2, <1>5, PairStart
    <2>2. HandlerOf(k) = PairHandlers[PairHandlerOffset(first) \div PointerSize][k - first + 1]
      BY <1>5 DEF HandlerOf
    <2> HIDE DEF first
    <2>3. first + 1 < Len(prog)
      BY <1>1, <1>3, <1>5, <2>1
    <2> QED
      BY <1>1, <2>1, <2>2, <2>3, PairHandler
  <1>6. CASE ~(k < Chunked) /\ ~(k < Paired)
    BY <1>6 DEF HandlerOf
  <1> QED
    BY <1>4, <1>5, <1>6

\* execute_compact_unchecked does what execute_reference does, for every
\* length of program and every even chunk.
THEOREM DispatchAlwaysFaithful == Spec => []DispatchFaithful
  <1>1. IInv => DispatchFaithful
    <2> SUFFICES ASSUME Clean, Len(prog) \in Nat PROVE ExecuteCompact = ExecuteReference
      BY DEF IInv, Typed, DispatchFaithful
    <2>1. ASSUME NEW k \in Indices
          PROVE  Effect(HandlerOf(k), ExecInstr(At(k))) =
                     [do |-> OperationOf(At(k).op), dst |-> At(k).dst, src |-> At(k).src]
      BY <2>1, OwnHandler, OwnEffect DEF Clean
    <2> QED
      BY <2>1 DEF ExecuteCompact, ExecuteReference
  <1> QED
    BY <1>1, SpecIInv, PTL

-----------------------------------------------------------------------------
(* The latencies of asic_latencies are lengths of chains.                  *)

Needs(k) == LastWriter(At(k).dst, k) \union LastWriter(At(k).src, k)

\* Each instruction of the set but the first needs the one before it in the set.
Chain(S) ==
    /\ S \in SUBSET Indices
    /\ \A k \in S : \/ \A j \in S : k <= j
                    \/ \E j \in S \intersect Needs(k) : \A m \in S : m <= j \/ k <= m

EndsAt(S, k) == k \in S /\ \A j \in S : j <= k

\* The latency of a register is the length of a chain that ends at its last
\* writer, and no chain is longer than the latency of the register it ends in.
Longest ==
    /\ stage \notin {"measure", "done"} => measured = 0
    /\ stage = "done" => measured = Len(prog)
    /\ \A x \in Reg : asic[x] = 0 => \A j \in 0 .. measured - 1 : At(j).dst # x
    /\ \A x \in Reg : asic[x] # 0 =>
          \E l \in LastWriter(x, measured), T \in SUBSET Indices :
             Chain(T) /\ EndsAt(T, l) /\ Cardinality(T) = asic[x]
    /\ \A k \in 0 .. measured - 1, S \in SUBSET Indices :
          Chain(S) /\ EndsAt(S, k) => Cardinality(S) <= asic[At(k).dst]

LEMMA GreatestMember ==
    ASSUME NEW n \in Nat, NEW S \in SUBSET (0 .. n), S # {}
    PROVE  \E k \in S : \A j \in S : j <= k
  <1> DEFINE M == {n - y : y \in S}
             k == n - Least(M)
  <1>1. M \in SUBSET (0 .. n)
    <2> SUFFICES ASSUME NEW y \in S PROVE n - y \in 0 .. n
      OBVIOUS
    <2>1. y \in 0 .. n
      OBVIOUS
    <2> QED
      BY <2>1
  <1>2. M # {} /\ \A y \in S : n - y \in M /\ y \in Nat
    <2>1. \A y \in S : n - y \in M
      OBVIOUS
    <2>2. \A y \in S : y \in Nat
      OBVIOUS
    <2> HIDE DEF M
    <2> QED
      BY <2>1, <2>2
  <1>3. \A x \in M : n - x \in S /\ x \in Nat
    <2> SUFFICES ASSUME NEW x \in M PROVE n - x \in S /\ x \in Nat
      OBVIOUS
    <2>1. PICK y \in S : x = n - y
      OBVIOUS
    <2>2. n - x = y /\ x \in Nat
      BY <2>1
    <2> QED
      BY <2>2
  <1> HIDE DEF M
  <1>4. Least(M) \in M /\ \A x \in M : Least(M) <= x
    <2>1. 0 \in Int /\ n \in Int
      OBVIOUS
    <2> QED
      BY <1>1, <1>2, <2>1, LeastMember
  <1>5. k \in S
    BY <1>3, <1>4
  <1>6. \A j \in S : j <= k
    BY <1>2, <1>3, <1>4
  <1> QED
    BY <1>5, <1>6

\* The address register is one with the greatest latency.
LEMMA AddressGreatest ==
    ASSUME NEW n \in Nat, asic \in [Reg -> 0 .. n]
    PROVE  AddressReg \in Reg /\ \A y \in Reg : asic[y] <= asic[AddressReg]
  <1> DEFINE M == {n - asic[x] : x \in Reg}
             w == Least(M)
             R == {x \in Reg : n - asic[x] = w}
             r == Least(R)
  <1>0. RegCount \in Nat \ {0} /\ 0 \in Reg /\ \A x \in Reg : asic[x] \in 0 .. n /\ x \in Nat
    BY SuperscalarAssumption DEF Reg
  <1>1. M \in SUBSET (0 .. n) /\ M # {} /\ \A x \in Reg : n - asic[x] \in M
    BY <1>0
  <1>2. \A v \in M : \E x \in Reg : v = n - asic[x]
    OBVIOUS
  <1> HIDE DEF M
  <1>3. w \in M /\ \A v \in M : w <= v
    <2>1. 0 \in Int /\ n \in Int
      OBVIOUS
    <2> QED
      BY <1>1, <2>1, LeastMember
  <1>4. R \in SUBSET (0 .. RegCount - 1) /\ R # {}
    BY <1>2, <1>3 DEF Reg
  <1>5. \A x \in R : x \in Reg /\ n - asic[x] = w
    OBVIOUS
  <1>6. \A x \in Reg : n - asic[x] = w => x \in R
    OBVIOUS
  <1> HIDE DEF R, w
  <1>7. r \in R /\ \A y \in R : r <= y
    <2> DEFINE top_reg == RegCount - 1
    <2>1. 0 \in Int /\ top_reg \in Int /\ R \in SUBSET (0 .. top_reg)
      BY <1>0, <1>4
    <2> HIDE DEF top_reg
    <2> QED
      BY <1>4, <2>1, LeastMember
  <1> HIDE DEF r
  <1>8. r \in Reg /\ n - asic[r] = w
    BY <1>5, <1>7
  <1>9. \A y \in Reg : asic[y] < asic[r] \/ (asic[y] = asic[r] /\ r <= y)
    <2> SUFFICES ASSUME NEW y \in Reg PROVE asic[y] < asic[r] \/ (asic[y] = asic[r] /\ r <= y)
      OBVIOUS
    <2>1. w <= n - asic[y] /\ (n - asic[y] = w => r <= y)
      BY <1>1, <1>3, <1>6, <1>7
    <2>2. asic[y] \in Nat /\ asic[r] \in Nat
      BY <1>0, <1>8
    <2> QED
      BY <1>8, <2>1, <2>2
  <1>10. /\ AddressReg \in Reg
         /\ \A y \in Reg : asic[y] < asic[AddressReg] \/ (asic[y] = asic[AddressReg] /\ AddressReg <= y)
    BY <1>8, <1>9 DEF AddressReg
  <1> QED
    BY <1>0, <1>10

LEMMA Nothing == Cardinality({}) = 0
  BY FS_EmptySet

LEMMA OneMore ==
    ASSUME NEW T, IsFiniteSet(T), NEW n, n \notin T
    PROVE  Cardinality(T \union {n}) = Cardinality(T) + 1
  BY FS_AddElement

LEMMA FiniteIndices ==
    ASSUME Len(prog) \in Nat, NEW S \in SUBSET Indices
    PROVE  IsFiniteSet(S) /\ Cardinality(S) \in Nat /\ \A k \in S : k \in Nat /\ k < Len(prog)
  <1>1. IsFiniteSet(Indices) /\ \A k \in Indices : k \in Nat /\ k < Len(prog)
    <2> DEFINE e == Len(prog) - 1
    <2>1. e \in Int /\ Indices = 0 .. e
      BY DEF Indices
    <2> HIDE DEF e
    <2>2. IsFiniteSet(0 .. e)
      BY <2>1, FS_Interval
    <2> QED
      BY <2>1, <2>2 DEF Indices
  <1>2. IsFiniteSet(S)
    BY <1>1, FS_Subset
  <1> QED
    BY <1>1, <1>2, FS_CardinalityType

\* Without its last instruction a chain is a chain that ends at one the last
\* one needs.
LEMMA Shortened ==
    ASSUME Len(prog) \in Nat, NEW n \in Indices, NEW S, Chain(S), EndsAt(S, n), ~(\A j \in S : n <= j)
    PROVE  \E j \in Needs(n) : /\ Chain(S \ {n}) /\ EndsAt(S \ {n}, j) /\ j \in 0 .. n - 1
                               /\ Cardinality(S) = Cardinality(S \ {n}) + 1
  <1> DEFINE R == S \ {n}
  <1>1. S \in SUBSET Indices /\ R \in SUBSET Indices /\ n \in S
    BY DEF Chain, EndsAt
  <1>2. /\ \A k \in S : k \in Nat /\ k < Len(prog)
        /\ IsFiniteSet(R) /\ n \in Nat
    BY <1>1, FiniteIndices
  <1>3. PICK j \in S \intersect Needs(n) : \A m \in S : m <= j \/ n <= m
    BY <1>1 DEF Chain
  <1>4. \A k \in S : \A x \in Needs(k) : x \in 0 .. k - 1
    BY DEF Needs, LastWriter
  <1>5. j \in R /\ j \in 0 .. n - 1
    BY <1>1, <1>2, <1>3, <1>4
  <1>6. EndsAt(R, j)
    <2> SUFFICES ASSUME NEW m \in R PROVE m <= j
      BY <1>5 DEF EndsAt
    <2>1. m \in Nat /\ m <= n /\ m # n
      BY <1>2 DEF EndsAt
    <2> QED
      BY <1>2, <1>3, <2>1
  <1>7. Chain(R)
    <2> SUFFICES ASSUME NEW k \in R
                 PROVE  \/ \A x \in R : k <= x
                        \/ \E x \in R \intersect Needs(k) : \A m \in R : m <= x \/ k <= m
      BY <1>1 DEF Chain
    <2>1. CASE \A x \in S : k <= x
      BY <2>1
    <2>2. CASE \E x \in S \intersect Needs(k) : \A m \in S : m <= x \/ k <= m
      <3>1. PICK x \in S \intersect Needs(k) : \A m \in S : m <= x \/ k <= m
        BY <2>2
      <3>2. x \in 0 .. k - 1 /\ k \in Nat /\ k <= n
        BY <1>2, <1>4 DEF EndsAt
      <3>3. x # n
        BY <1>2, <3>2
      <3> QED
        BY <3>1, <3>3
    <2> QED
      BY <2>1, <2>2 DEF Chain
  <1>8. Cardinality(S) = Cardinality(R) + 1
    <2>1. S = R \union {n} /\ n \notin R
      BY <1>1
    <2> HIDE DEF R
    <2> QED
      BY <1>2, <2>1, OneMore
  <1> QED
    BY <1>3, <1>5, <1>6, <1>7, <1>8

\* A chain is prolonged by an instruction that needs its end.
LEMMA Prolonged ==
    ASSUME Len(prog) \in Nat, NEW n \in Indices, NEW l \in Needs(n), NEW T, Chain(T), EndsAt(T, l)
    PROVE  /\ Chain(T \union {n}) /\ EndsAt(T \union {n}, n)
           /\ Cardinality(T \union {n}) = Cardinality(T) + 1
  <1> DEFINE U == T \union {n}
  <1>1. T \in SUBSET Indices /\ U \in SUBSET Indices /\ l \in T
    BY DEF Chain, EndsAt
  <1>2. (\A k \in T : k \in Nat) /\ IsFiniteSet(T) /\ n \in Nat
    <2>1. {n} \in SUBSET Indices
      OBVIOUS
    <2> QED
      BY <1>1, <2>1, FiniteIndices
  <1>3. l \in 0 .. n - 1
    BY DEF Needs, LastWriter
  <1>4. \A k \in T : k < n
    BY <1>1, <1>2, <1>3 DEF EndsAt
  <1>5. n \notin T
    BY <1>2, <1>4
  <1>6. EndsAt(U, n)
    BY <1>2, <1>4 DEF EndsAt
  <1>7. Chain(U)
    <2> SUFFICES ASSUME NEW k \in U
                 PROVE  \/ \A x \in U : k <= x
                        \/ \E x \in U \intersect Needs(k) : \A m \in U : m <= x \/ k <= m
      BY <1>1 DEF Chain
    <2>1. CASE k = n
      <3>1. \A m \in U : m <= l \/ n <= m
        BY <1>2 DEF EndsAt
      <3> QED
        BY <1>1, <2>1, <3>1
    <2>2. CASE k \in T /\ \A x \in T : k <= x
      <3>1. \A x \in U : k <= x
        BY <1>2, <1>4, <2>2
      <3> QED
        BY <3>1
    <2>3. CASE k \in T /\ \E x \in T \intersect Needs(k) : \A m \in T : m <= x \/ k <= m
      <3>1. PICK x \in T \intersect Needs(k) : \A m \in T : m <= x \/ k <= m
        BY <2>3
      <3>2. \A m \in U : m <= x \/ k <= m
        BY <1>2, <1>4, <2>3, <3>1
      <3> QED
        BY <3>1, <3>2
    <2> QED
      BY <2>1, <2>2, <2>3 DEF Chain
  <1> QED
    BY <1>2, <1>5, <1>6, <1>7, OneMore

LEMMA Alone ==
    ASSUME Len(prog) \in Nat, NEW n \in Indices
    PROVE  Chain({n}) /\ EndsAt({n}, n) /\ Cardinality({n}) = 1
  <1>1. n \in Nat
    BY DEF Indices
  <1>2. Cardinality({n}) = 1
    BY FS_Singleton
  <1> QED
    BY <1>1, <1>2 DEF Chain, EndsAt

\* Before the loop over the program no instruction has been seen.
LEMMA LongestZero ==
    ASSUME Typed, measured = 0, stage = "done" => Len(prog) = 0
    PROVE  Longest
  <1>1. \A x \in Reg : asic[x] = 0
    BY DEF Typed
  <1>2. 0 .. measured - 1 = {}
    OBVIOUS
  <1> QED
    BY <1>1, <1>2 DEF Longest

LEMMA LongestSame ==
    ASSUME Longest, UNCHANGED <<prog, measured, asic>>,
           stage' \notin {"measure", "done"} => measured = 0,
           stage' = "done" => measured = Len(prog)
    PROVE  Longest'
  <1>0. /\ \A j : At(j)' = At(j)
        /\ Indices' = Indices /\ \A S : Chain(S)' <=> Chain(S)
        /\ \A x : LastWriter(x, measured)' = LastWriter(x, measured)
    BY DEF At, Indices, Chain, Needs, LastWriter
  <1>1. /\ \A x \in Reg : asic'[x] = 0 => \A j \in 0 .. measured' - 1 : At(j)'.dst # x
        /\ \A x \in Reg : asic'[x] # 0 =>
              \E l \in LastWriter(x, measured)', T \in SUBSET Indices' :
                 Chain(T)' /\ EndsAt(T, l) /\ Cardinality(T) = asic'[x]
        /\ \A k \in 0 .. measured' - 1, S \in SUBSET Indices' :
              Chain(S)' /\ EndsAt(S, k) => Cardinality(S) <= asic'[At(k)'.dst]
    BY <1>0 DEF Longest
  <1> QED
    BY <1>1 DEF Longest, EndsAt

\* One iteration of the loop over the program.
LEMMA MeasureLongest ==
    ASSUME IInv, Longest, MeasureAsic
    PROVE  Longest'
  <1> DEFINE n == measured
             i == At(n)
             A == AsicAfter(i)
  <1>1. /\ stage = "measure" /\ stage' = "measure" /\ n < Len(prog) /\ measured' = n + 1
        /\ asic' = [asic EXCEPT ![i.dst] = A] /\ prog' = prog
    BY DEF MeasureAsic, made, At
  <1>2. n \in Nat /\ Len(prog) \in Nat /\ asic \in [Reg -> 0 .. n]
    BY DEF IInv, Typed
  <1>3. n \in Indices /\ \A k \in Indices : Selected(At(k))
    BY <1>1, <1>2 DEF Indices, IInv, Clean
  <1>4. i.dst \in Reg /\ i.src \in Reg \union {None} /\ None \notin Reg
    <2>1. Selected(i)
      BY <1>3
    <2>2. None \notin Reg
      BY DEF Reg, None
    <2> QED
      BY <2>1, <2>2 DEF Selected
  <1> HIDE DEF i
  <1>5. /\ A \in Nat /\ A >= asic[i.dst] + 1
        /\ i.src \in Reg => A >= asic[i.src] + 1
        /\ \E r \in {i.dst, i.src} \intersect Reg : A = asic[r] + 1
    <2>1. asic[i.dst] \in Nat /\ (i.src \in Reg => asic[i.src] \in Nat)
      BY <1>2, <1>4
    <2>2. CASE i.src = None \/ i.src = i.dst
      <3>1. A = asic[i.dst] + 1
        BY <2>1, <2>2 DEF AsicAfter
      <3> QED
        BY <1>4, <2>1, <2>2, <3>1
    <2>3. CASE ~(i.src = None \/ i.src = i.dst)
      <3>1. A = IF asic[i.dst] + 1 >= asic[i.src] + 1 THEN asic[i.dst] + 1 ELSE asic[i.src] + 1
        BY <2>3 DEF AsicAfter
      <3> QED
        BY <1>4, <2>1, <2>3, <3>1
    <2> QED
      BY <2>2, <2>3
  <1> HIDE DEF A
  <1>6. /\ asic'[i.dst] = A
        /\ \A x \in Reg : x # i.dst => asic'[x] = asic[x]
        /\ \A x \in Reg : asic[x] \in Nat /\ asic'[x] \in Nat /\ asic'[x] >= asic[x]
    BY <1>1, <1>2, <1>4, <1>5
  <1>7. \A j \in 0 .. n : j \in Indices /\ (j = n \/ j \in 0 .. n - 1)
    BY <1>1, <1>2 DEF Indices
  <1>8. ASSUME NEW x \in Reg, asic'[x] = 0, NEW j \in 0 .. n
        PROVE  At(j).dst # x
    <2>1. x # i.dst /\ asic[x] = 0
      BY <1>5, <1>6, <1>8
    <2>2. j \in 0 .. n - 1 => At(j).dst # x
      BY <2>1 DEF Longest
    <2> QED
      BY <1>7, <2>1, <2>2 DEF i
  <1>9. ASSUME NEW x \in Reg, asic'[x] # 0
        PROVE  \E l \in LastWriter(x, n + 1), T \in SUBSET Indices :
                  Chain(T) /\ EndsAt(T, l) /\ Cardinality(T) = asic'[x]
    <2>1. CASE x # i.dst
      <3>1. PICK l \in LastWriter(x, n), T \in SUBSET Indices :
                Chain(T) /\ EndsAt(T, l) /\ Cardinality(T) = asic[x]
        BY <1>6, <1>9, <2>1 DEF Longest
      <3>2. l \in LastWriter(x, n + 1)
        <4>1. l \in 0 .. n - 1 /\ At(l).dst = x /\ \A m \in l + 1 .. n - 1 : At(m).dst # x
          BY DEF LastWriter
        <4>2. \A m \in l + 1 .. (n + 1) - 1 : m \in l + 1 .. n - 1 \/ m = n
          BY <1>2
        <4>3. l \in 0 .. (n + 1) - 1
          BY <1>2, <4>1
        <4> QED
          BY <2>1, <4>1, <4>2, <4>3 DEF LastWriter, i
      <3> QED
        BY <1>6, <2>1, <3>1, <3>2
    <2>2. CASE x = i.dst
      <3>1. n \in LastWriter(x, n + 1)
        <4>1. n \in 0 .. (n + 1) - 1 /\ n + 1 .. (n + 1) - 1 = {}
          BY <1>2
        <4> QED
          BY <2>2, <4>1 DEF LastWriter, i
      <3>2. PICK r \in {i.dst, i.src} \intersect Reg : A = asic[r] + 1
        BY <1>5
      <3>3. CASE asic[r] = 0
        <4>0. A = 1
          BY <3>2, <3>3
        <4>1. {n} \in SUBSET Indices /\ Chain({n}) /\ EndsAt({n}, n) /\ Cardinality({n}) = A
          BY <1>2, <1>3, <4>0, Alone
        <4> QED
          BY <1>6, <2>2, <3>1, <4>1
      <3>4. CASE asic[r] # 0
        <4>1. PICK l \in LastWriter(r, n), T \in SUBSET Indices :
                  Chain(T) /\ EndsAt(T, l) /\ Cardinality(T) = asic[r]
          BY <3>2, <3>4 DEF Longest
        <4>2. l \in Needs(n)
          BY <3>2, <4>1 DEF Needs, i
        <4>3. /\ Chain(T \union {n}) /\ EndsAt(T \union {n}, n)
              /\ Cardinality(T \union {n}) = A
          BY <1>2, <1>3, <3>2, <4>1, <4>2, Prolonged
        <4>4. T \union {n} \in SUBSET Indices
          BY <1>3
        <4> QED
          BY <1>6, <2>2, <3>1, <4>3, <4>4
      <3> QED
        BY <3>3, <3>4
    <2> QED
      BY <2>1, <2>2
  <1>10. ASSUME NEW k \in 0 .. n, NEW S \in SUBSET Indices, Chain(S), EndsAt(S, k)
         PROVE  Cardinality(S) <= asic'[At(k).dst]
    <2>1. CASE k \in 0 .. n - 1
      <3>1. Cardinality(S) <= asic[At(k).dst] /\ At(k).dst \in Reg
        BY <1>3, <1>7, <1>10, <2>1 DEF Longest, Selected
      <3>2. Cardinality(S) \in Nat
        BY <1>2, FiniteIndices
      <3> QED
        BY <1>6, <3>1, <3>2
    <2>2. CASE k = n /\ \A j \in S : n <= j
      <3>1. S = {n}
        <4>1. \A j \in S : j \in Nat /\ j <= n /\ n <= j
          BY <1>2, <1>10, <2>2, FiniteIndices DEF EndsAt
        <4>2. \A j \in S : j = n
          BY <1>2, <4>1
        <4>3. n \in S
          BY <1>10, <2>2 DEF EndsAt
        <4> QED
          BY <4>2, <4>3
      <3>2. Cardinality(S) = 1
        BY <1>2, <1>3, <3>1, Alone
      <3> QED
        BY <1>4, <1>5, <1>6, <2>2, <3>2 DEF i
    <2>3. CASE k = n /\ ~(\A j \in S : n <= j)
      <3>1. PICK j \in Needs(n) : /\ Chain(S \ {n}) /\ EndsAt(S \ {n}, j) /\ j \in 0 .. n - 1
                                  /\ Cardinality(S) = Cardinality(S \ {n}) + 1
        BY <1>2, <1>3, <1>10, <2>3, Shortened
      <3>2. S \ {n} \in SUBSET Indices
        OBVIOUS
      <3>3. Cardinality(S \ {n}) <= asic[At(j).dst] /\ Cardinality(S \ {n}) \in Nat
        <4> DEFINE R == S \ {n}
        <4>1. R \in SUBSET Indices /\ Chain(R) /\ EndsAt(R, j)
          BY <3>1, <3>2
        <4> HIDE DEF R
        <4>2. Cardinality(R) <= asic[At(j).dst] /\ Cardinality(R) \in Nat
          BY <1>2, <3>1, <4>1, FiniteIndices DEF Longest
        <4> QED
          BY <4>2 DEF R
      <3>4. At(j).dst \in {i.dst, i.src} /\ At(j).dst \in Reg
        <4>1. At(j).dst \in {i.dst, i.src}
          BY <3>1 DEF Needs, LastWriter, i
        <4>2. j \in Indices
          BY <1>2, <1>7, <3>1
        <4>3. Selected(At(j))
          BY <1>3, <4>2
        <4> QED
          BY <4>1, <4>3 DEF Selected
      <3>5. A >= asic[At(j).dst] + 1 /\ asic[At(j).dst] \in Nat
        BY <1>5, <1>6, <3>4
      <3> QED
        BY <1>5, <1>6, <2>3, <3>1, <3>3, <3>5 DEF i
    <2> QED
      BY <1>7, <2>1, <2>2, <2>3
  <1>11. (n + 1) - 1 = n
    BY <1>2
  <1>12. /\ \A x \in Reg : asic'[x] = 0 => \A j \in 0 .. measured' - 1 : At(j)'.dst # x
         /\ \A x \in Reg : asic'[x] # 0 =>
               \E l \in LastWriter(x, measured)', T \in SUBSET Indices' :
                  Chain(T)' /\ EndsAt(T, l) /\ Cardinality(T) = asic'[x]
         /\ \A k \in 0 .. measured' - 1, S \in SUBSET Indices' :
               Chain(S)' /\ EndsAt(S, k) => Cardinality(S) <= asic'[At(k)'.dst]
    <2>1. /\ \A j : At(j)' = At(j)
          /\ Indices' = Indices /\ \A S : Chain(S)' <=> Chain(S)
          /\ \A x : LastWriter(x, measured)' = LastWriter(x, n + 1)
          /\ 0 .. measured' - 1 = 0 .. n
      BY <1>1, <1>11 DEF At, Indices, Chain, Needs, LastWriter
    <2> QED
      BY <1>8, <1>9, <1>10, <2>1
  <1> QED
    BY <1>1, <1>12 DEF Longest, EndsAt

LEMMA NextLongest == IInv /\ Longest /\ [Next]_vars => Longest'
  <1> SUFFICES ASSUME IInv, Longest, [Next]_vars PROVE Longest'
    OBVIOUS
  <1>1. Typed'
    BY NextIInv DEF IInv
  <1>2. CASE MeasureAsic
    BY <1>2, MeasureLongest
  <1>3. CASE Commit
    <2>1. measured' = 0 /\ stage' \in {"slot", "next"}
      BY <1>3 DEF Commit, Place, asics, Longest
    <2>2. \A x \in Reg : asic'[x] = 0
      BY <1>1, <2>1 DEF Typed
    <2>3. 0 .. measured' - 1 = {}
      BY <2>1
    <2> QED
      BY <2>1, <2>2, <2>3 DEF Longest
  <1>4. CASE Finish \/ EndMeasure \/ Returned \/ UNCHANGED vars
    <2>1. /\ UNCHANGED <<prog, measured, asic>>
          /\ stage' \notin {"measure", "done"} => measured = 0
          /\ stage' = "done" => measured = Len(prog)
      BY <1>4 DEF Finish, EndMeasure, Returned, vars, made, asics, Longest
    <2> QED
      BY <2>1, LongestSame
  <1>5. CASE \/ FetchBuffer \/ EndBuffer \/ LeaveBuffer \/ NextMacroOp
             \/ AcceptDraw \/ RefuseDraw \/ DrawAgain
             \/ Schedule \/ SelectSource \/ SelectDestination
    <2>1. UNCHANGED <<prog, measured, asic>> /\ stage \notin {"measure", "done"}
      <3>1. UNCHANGED made /\ UNCHANGED asics
        BY <1>5 DEF FetchBuffer, EndBuffer, LeaveBuffer, NextMacroOp, AcceptDraw, RefuseDraw, DrawAgain,
                    Turn, Schedule, SelectSource, SelectDestination
      <3>2. stage \notin {"measure", "done"}
        BY <1>5 DEF FetchBuffer, EndBuffer, LeaveBuffer, NextMacroOp, AcceptDraw, RefuseDraw, DrawAgain,
                    Turn, Schedule, SelectSource, SelectDestination
      <3> QED
        BY <3>1, <3>2 DEF made, asics
    <2>2. stage' \notin {"measure", "done"}
      <3>1. CASE \/ FetchBuffer \/ EndBuffer \/ LeaveBuffer \/ NextMacroOp
                 \/ AcceptDraw \/ RefuseDraw \/ DrawAgain \/ Schedule
        BY <3>1 DEF FetchBuffer, EndBuffer, LeaveBuffer, NextMacroOp, AcceptDraw, RefuseDraw, DrawAgain,
                    Turn, Schedule
      <3>2. CASE SelectSource
        BY <3>2 DEF SelectSource, Discard, Proceed
      <3>3. CASE SelectDestination
        BY <3>3 DEF SelectDestination, Discard, Proceed
      <3> QED
        BY <1>5, <3>1, <3>2, <3>3
    <2> QED
      BY <2>1, <2>2, LongestSame DEF Longest
  <1> QED
    BY <1>2, <1>3, <1>4, <1>5 DEF Next

\* The register returned by generate for addressing the cache ends a longest
\* chain of dependent instructions.
THEOREM AddressAlwaysOnLongestChain == Spec => []AddressOnLongestChain
  <1>1. IInv /\ Longest => AddressOnLongestChain
    <2> SUFFICES ASSUME IInv, Longest, stage = "done", prog # <<>>
                 PROVE  \E last \in LastWriter(AddressReg, Len(prog)) :
                        \E T \in {S \in SUBSET Indices : Chain(S)} :
                           /\ last \in T /\ \A k \in T : k <= last
                           /\ \A S \in {S \in SUBSET Indices : Chain(S)} : Cardinality(S) <= Cardinality(T)
      BY DEF AddressOnLongestChain, Chain, Needs
    <2> DEFINE a == AddressReg
               n == Len(prog)
    <2>1. n \in Nat /\ n # 0 /\ measured = n /\ asic \in [Reg -> 0 .. n]
      BY EmptySeq DEF IInv, Typed, Longest
    <2>2. a \in Reg /\ \A y \in Reg : asic[y] <= asic[a]
      BY <2>1, AddressGreatest
    <2>3. \A k \in Indices : k \in 0 .. n - 1 /\ At(k).dst \in Reg
      BY DEF IInv, Clean, Selected, Indices
    <2>4. asic[a] # 0
      <3>1. 0 \in Indices
        BY <2>1 DEF Indices
      <3>2. asic[At(0).dst] # 0 /\ At(0).dst \in Reg
        BY <2>1, <2>3, <3>1 DEF Longest
      <3> QED
        BY <2>1, <2>2, <3>2
    <2> HIDE DEF a
    <2>5. PICK last \in LastWriter(a, n), T \in SUBSET Indices :
             Chain(T) /\ EndsAt(T, last) /\ Cardinality(T) = asic[a]
      BY <2>1, <2>2, <2>4 DEF Longest
    <2>6. ASSUME NEW S \in SUBSET Indices, Chain(S)
          PROVE  Cardinality(S) <= Cardinality(T)
      <3>1. CASE S = {}
        BY <2>1, <2>2, <2>5, <3>1, Nothing
      <3>2. CASE S # {}
        <4>1. S \in SUBSET (0 .. n)
          BY <2>1, <2>3
        <4>2. PICK k \in S : \A j \in S : j <= k
          BY <2>1, <3>2, <4>1, GreatestMember
        <4>3. Cardinality(S) <= asic[At(k).dst] /\ At(k).dst \in Reg
          BY <2>1, <2>3, <2>6, <4>2 DEF Longest, EndsAt
        <4>4. Cardinality(S) \in Nat
          BY <2>1, FiniteIndices
        <4>5. asic[At(k).dst] <= asic[a] /\ asic[At(k).dst] \in Nat /\ asic[a] \in Nat
          BY <2>1, <2>2, <4>3
        <4> QED
          BY <2>5, <4>3, <4>4, <4>5
      <3> QED
        BY <3>1, <3>2
    <2> QED
      BY <2>5, <2>6 DEF EndsAt, a
  <1>2. Init => Longest
    <2> SUFFICES ASSUME Init PROVE Longest
      OBVIOUS
    <2>1. Typed /\ measured = 0 /\ stage # "done"
      BY InitIInv DEF Init, IInv
    <2> QED
      BY <2>1, LongestZero
  <1> QED
    BY <1>1, <1>2, NextLongest, SpecIInv, PTL DEF Spec
=============================================================================
