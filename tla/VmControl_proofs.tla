-------------------------- MODULE VmControl_proofs --------------------------
EXTENDS VmControl, TLAPS, WellFoundedInduction

(***************************************************************************)
(* Arithmetic: quotients and remainders.                                   *)
(***************************************************************************)
LEMMA Division ==
    ASSUME NEW n \in Int, NEW d \in Nat \ {0}
    PROVE  /\ n \div d \in Int
           /\ n % d \in 0 .. d - 1
           /\ n = (d * (n \div d)) + (n % d)
  BY Z3

\* A quotient and remainder in range are those of the division.
LEMMA DivisionUnique ==
    ASSUME NEW d \in Nat \ {0}, NEW q \in Int, NEW s \in 0 .. d - 1
    PROVE  /\ (d * q + s) \div d = q
           /\ (d * q + s) % d = s
  BY Z3

\* The same, for a number given by its quotient and remainder.
LEMMA DivisionForm ==
    ASSUME NEW n \in Int, NEW d \in Nat \ {0}, NEW q \in Int, NEW s \in Int,
           0 <= s, s < d, n = (d * q) + s
    PROVE  n \div d = q /\ n % d = s
  BY DivisionUnique

\* A number without remainder is a multiple.
LEMMA Multiple ==
    ASSUME NEW n \in Int, NEW d \in Nat \ {0}, n % d = 0
    PROVE  \E q \in Int : n = d * q
  <1>1. n = (d * (n \div d)) + (n % d) /\ n \div d \in Int
    BY Division
  <1>2. PICK q \in Int : q = n \div d
    BY <1>1
  <1> QED
    BY <1>1, <1>2

\* The form of an odd number.
LEMMA Odd ==
    ASSUME NEW n \in Int, n % 2 = 1
    PROVE  \E q \in Int : n = (2 * q) + 1
  BY Z3

\* The quotient of a natural number is natural.
LEMMA QuotientOfNatural ==
    ASSUME NEW n \in Nat, NEW d \in Nat \ {0}
    PROVE  n \div d \in Nat
  BY Z3

\* Products are monotone in a natural factor.
LEMMA ProductMonotone ==
    ASSUME NEW a \in Nat, NEW b \in Nat, NEW c \in Nat, a >= b
    PROVE  a * c >= b * c
  BY Z3

\* Products of positive numbers are positive.
LEMMA ProductPositive ==
    ASSUME NEW a \in Nat \ {0}, NEW b \in Nat \ {0}
    PROVE  a * b \in Nat \ {0}
  BY Z3

(***************************************************************************)
(* What decode_instruction makes of an immediate, for every unit 2 * h:    *)
(* an increment whose quotient by the unit is odd and whose remainder is   *)
(* below half a unit, and which is still a word of m * (2 * unit) values.  *)
(***************************************************************************)
LEMMA IncrementShape ==
    ASSUME NEW u \in Nat \ {0}, NEW h \in Nat \ {0}, u = 2 * h, u \div 2 = h,
           NEW m \in Nat, NEW imm \in Nat, imm < m * (2 * u)
    PROVE  LET inc == Increment(imm, u)
           IN  /\ inc \in Nat
               /\ inc < m * (2 * u)
               /\ (inc \div u) % 2 = 1
               /\ inc % u < h
  <1>1. PICK q \in Nat, s \in Nat : imm = (u * q) + s /\ s < u /\ imm \div u = q
    BY ONLY Division, QuotientOfNatural, u \in Nat \ {0}, imm \in Nat
  <1>2. PICK p \in Nat : /\ q = 2 * p \/ q = 2 * p + 1
                         /\ q % 2 = 0 <=> q = 2 * p
    BY ONLY q \in Nat
  <1>3. PICK set \in Nat, y \in Nat :
             /\ y = 2 * p + 1
             /\ set = (u * y) + s
             /\ set = IF (imm \div u) % 2 = 0 THEN imm + u ELSE imm
    <2>1. CASE q = 2 * p
      <3>1. imm + u = (u * (2 * p + 1)) + s
        BY ONLY <1>1, <2>1, u \in Nat, p \in Nat, q \in Nat, s \in Nat, imm \in Nat
      <3> QED
        BY <3>1, <2>1, <1>1, <1>2
    <2>2. CASE q = 2 * p + 1
      BY <2>2, <1>1, <1>2
    <2> QED
      BY <2>1, <2>2, <1>2
  <1>4. (u * y) + u <= m * (2 * u)
    <2>1. p < m
      <3>1. SUFFICES ASSUME p >= m PROVE FALSE
        OBVIOUS
      <3>2. PICK c \in Nat : c = 2 * u
        OBVIOUS
      <3>3. p * c >= m * c
        BY ONLY ProductMonotone, <3>1, p \in Nat, m \in Nat, c \in Nat
      <3>4. u * q >= p * c
        BY ONLY <1>2, <3>2, u \in Nat, q \in Nat, p \in Nat
      <3> QED
        BY <1>1, <3>2, <3>3, <3>4
    <2>2. PICK c \in Nat : c = 2 * u
      OBVIOUS
    <2>3. m * c >= (p + 1) * c
      BY ONLY ProductMonotone, <2>1, p + 1 \in Nat, p \in Nat, m \in Nat, c \in Nat
    <2>4. (p + 1) * c = (u * y) + u
      BY ONLY <1>3, <2>2, u \in Nat, p \in Nat, y \in Nat
    <2> QED
      BY <2>2, <2>3, <2>4
  <1>5. CASE s < h
    <2>1. set = (h * (2 * y)) + s
      BY ONLY <1>3, u = 2 * h, h \in Nat, y \in Nat, s \in Nat, set \in Nat
    <2>2. set \div h = 2 * y
      BY ONLY <2>1, <1>5, DivisionForm, set \in Int, h \in Nat \ {0}, 2 * y \in Int,
              s \in Int, 0 <= s
    <2>3. Increment(imm, u) = set
      BY <2>2, <1>3 DEF Increment
    <2>4. set \div u = y /\ set % u = s
      BY ONLY <1>1, <1>3, DivisionForm, set \in Int, u \in Nat \ {0}, y \in Int,
              s \in Int, 0 <= s
    <2>5. set < m * (2 * u)
      BY <1>1, <1>3, <1>4
    <2> QED
      BY <2>3, <2>4, <2>5, <1>3, <1>5
  <1>6. CASE s >= h
    <2>1. PICK w \in Nat : s = h + w /\ w < h
      BY <1>1, <1>6
    <2>2. set = (h * (2 * y + 1)) + w
      BY ONLY <1>3, <2>1, u = 2 * h, h \in Nat, y \in Nat, s \in Nat, set \in Nat,
              w \in Nat
    <2>3. set \div h = 2 * y + 1
      BY ONLY <2>1, <2>2, DivisionForm, set \in Int, h \in Nat \ {0},
              2 * y + 1 \in Int, w \in Int, 0 <= w
    <2>4. PICK inc \in Nat : inc = set - h /\ inc = (u * y) + w
      BY <1>3, <2>1
    <2>5. Increment(imm, u) = inc
      BY <2>3, <2>4, <1>3 DEF Increment
    <2>6. inc \div u = y /\ inc % u = w
      <3>1. w < u
        BY <2>1
      <3> QED
        BY ONLY <2>4, <3>1, DivisionForm, inc \in Int, u \in Nat \ {0}, y \in Int,
                w \in Int, 0 <= w
    <2>7. inc < m * (2 * u)
      BY <1>4, <2>1, <2>4
    <2> QED
      BY <2>1, <2>5, <2>6, <2>7, <1>3
  <1> QED
    BY <1>5, <1>6

(***************************************************************************)
(* Why a branch is taken at most twice in a row.  The register v of a      *)
(* branch that has just been taken has a zero condition field; the         *)
(* increment is odd in that field, so the field can be zero again only     *)
(* through a carry, after which the low part is too small for another one. *)
(***************************************************************************)
LEMMA TakenAgain ==
    ASSUME NEW u \in Nat \ {0}, NEW h \in Nat \ {0}, u = 2 * h,
           NEW f \in Nat \ {0}, FieldRange = 2 * f,
           NEW m \in Nat \ {0}, WordRange = (u * FieldRange) * m,
           NEW v \in Nat, CondField(v, u) = 0,
           NEW inc \in Nat, (inc \div u) % 2 = 1, inc % u < h
    PROVE  LET w == WrappingAdd(v, inc)
           IN  CondField(w, u) = 0 => w % u < h /\ ~(v % u < h)
  <1>1. FieldRange \in Nat \ {0}
    OBVIOUS
  <1>2. WordRange \in Nat \ {0}
    BY <1>1, ProductPositive
  <1>3. PICK a \in Int, l \in 0 .. u - 1 :
             v = u * (FieldRange * a) + l /\ v % u = l
    <2>1. PICK q \in Int : q = v \div u /\ v = u * q + (v % u)
      BY ONLY Division, u \in Nat \ {0}, v \in Nat
    <2>2. q = FieldRange * (q \div FieldRange) + (q % FieldRange)
      BY ONLY Division, <1>1, q \in Int
    <2>3. q % FieldRange = 0
      BY <2>1 DEF CondField
    <2>4. PICK a \in Int : q = FieldRange * a
      BY ONLY <2>3, <1>1, Multiple, q \in Int
    <2>5. v % u \in 0 .. u - 1
      BY ONLY Division, u \in Nat \ {0}, v \in Nat
    <2> QED
      BY <2>1, <2>4, <2>5
  <1>4. PICK b \in Int, k \in 0 .. h - 1 : inc = u * (2 * b + 1) + k
    <2>0. inc = u * (inc \div u) + (inc % u) /\ inc \div u \in Int
      BY ONLY Division, u \in Nat \ {0}, inc \in Int
    <2>1. PICK q \in Int : q = inc \div u /\ inc = u * q + (inc % u)
      BY ONLY <2>0
    <2>2. inc % u \in 0 .. u - 1
      BY ONLY Division, u \in Nat \ {0}, inc \in Nat
    <2>3. PICK b \in Int : q = 2 * b + 1
      BY <2>1, Odd
    <2>4. inc % u \in 0 .. h - 1
      BY <2>2
    <2>5. inc = u * (2 * b + 1) + (inc % u)
      BY <2>1, <2>3
    <2> QED
      BY <2>4, <2>5
  <1>5. PICK w \in 0 .. WordRange - 1, c \in Int :
             /\ w = WrappingAdd(v, inc)
             /\ v + inc = WordRange * c + w
    <2>1. PICK n \in Int : n = v + inc
      OBVIOUS
    <2>2. /\ n \div WordRange \in Int
          /\ n % WordRange \in 0 .. WordRange - 1
          /\ n = WordRange * (n \div WordRange) + (n % WordRange)
      BY ONLY Division, <1>2, n \in Int
    <2> QED
      BY <2>1, <2>2 DEF WrappingAdd
  <1>6. PICK x \in Int : w = u * (2 * x + 1) + (l + k)
    <2>1. PICK d \in Int : d = m * c
      OBVIOUS
    <2>2. WordRange * c = u * (FieldRange * d)
      BY ONLY <2>1, <1>1, WordRange = (u * FieldRange) * m, u \in Nat, m \in Nat,
              c \in Int
    <2>3. PICK e \in Int : e = a - d
      OBVIOUS
    <2>5. FieldRange * a - FieldRange * d = 2 * (f * e)
      BY <2>3
    <2>6. w = u * (FieldRange * a) + l + u * (2 * b + 1) + k - u * (FieldRange * d)
      BY <1>3, <1>4, <1>5, <2>2
    <2>7. PICK y \in Int, z \in Int, t \in Int :
               y = FieldRange * a /\ z = FieldRange * d /\ t = f * e
      BY <1>1
    <2>8. w = u * y + l + u * (2 * b + 1) + k - u * z
      BY <2>6, <2>7
    <2>9. y - z = 2 * t
      BY <2>5, <2>7
    <2>10. w = u * (2 * t + 2 * b + 1) + (l + k)
      BY ONLY <2>8, <2>9, u \in Nat, y \in Int, z \in Int, t \in Int,
              b \in Int, l \in Int, k \in Int, w \in Int
    <2> QED
      BY <2>10, t + b \in Int, 2 * t + 2 * b + 1 = 2 * (t + b) + 1
  <1>7. CASE l + k < u
    <2>1. w \div u = 2 * x + 1
      <3>1. PICK y \in Int, s \in Int : y = 2 * x + 1 /\ s = l + k
        OBVIOUS
      <3>2. w = (u * y) + s /\ 0 <= s /\ s < u
        BY <1>6, <1>7, <3>1
      <3> QED
        BY ONLY <3>1, <3>2, DivisionForm, w \in Int, u \in Nat \ {0}, y \in Int,
                s \in Int
    <2>2. CondField(w, u) # 0
      <3>1. SUFFICES ASSUME (2 * x + 1) % FieldRange = 0 PROVE FALSE
        BY <2>1 DEF CondField
      <3>2. PICK n \in Int : n = 2 * x + 1
        OBVIOUS
      <3>3. PICK y \in Int : n = FieldRange * y
        BY ONLY <3>1, <3>2, Multiple, <1>1, n \in Int
      <3>4. PICK z \in Int : z = f * y
        OBVIOUS
      <3>5. n = 2 * z
        BY <3>3, <3>4
      <3> QED
        BY ONLY <3>2, <3>5, x \in Int, z \in Int
    <2> QED
      BY <2>2, <1>5
  <1>8. CASE l + k >= u
    <2>1. w = u * (2 * x + 2) + (l + k - u)
      BY ONLY <1>6, u \in Nat, x \in Int, l \in Int, k \in Int
    <2>2. l + k - u \in 0 .. u - 1
      BY <1>8
    <2>3. w % u = l + k - u
      BY ONLY <2>1, <2>2, DivisionUnique, u \in Nat \ {0}, 2 * x + 2 \in Int
    <2> QED
      BY <2>3, <1>3, <1>5, <1>8
  <1> QED
    BY <1>7, <1>8
(***************************************************************************)
(* The inductive invariant.                                                *)
(***************************************************************************)
Index    == 0 .. ProgramSize - 1
Branches == {j \in 0 .. decoded - 1 : IsBranch(j)}

\* What each stage knows.
Stages ==
    /\ stage # "decode" => decoded = ProgramSize
    /\ stage = "execute" => iter < Iterations
    /\ stage = "decode" => visits = [k \in Index |-> 0]

\* register_usage is, for every register, what the next branch needs.
UsageCanonical ==
    \A x \in Reg : /\ usage[x] # -1 => Sets(program[usage[x]], x)
                   /\ \A k \in usage[x] + 1 .. decoded - 1 : ~Sets(program[k], x)

\* The increments are odd in the condition field and have half a unit free.
Increments ==
    \A j \in Branches :
        /\ (program[j].inc \div program[j].unit) % 2 = 1
        /\ program[j].inc % program[j].unit < program[j].unit \div 2

\* The register of a branch that has been taken and not yet passed.
Retrying ==
    \A j \in Branches : pc <= j /\ visits[j] # 0 =>
        LET v == r[program[j].dst]
            u == program[j].unit
        IN  /\ program[j].target < pc
            /\ visits[j] \in {1, 2}
            /\ CondField(v, u) = 0
            /\ visits[j] = 2 => v % u < u \div 2

\* The instructions of a block are fetched once per fetch of the branch that
\* ends it, and once more when they lead to it.
Blocks ==
    \A j \in Branches, i \in Index :
        i <= j /\ (\A k \in i .. j - 1 : ~IsBranch(k)) =>
            visits[i] <= visits[j] + (IF i < pc /\ pc <= j THEN 1 ELSE 0)

\* The instructions after the last branch are fetched once.
LastBlock ==
    \A i \in Index :
        (\A k \in i .. decoded - 1 : ~IsBranch(k)) =>
            visits[i] <= (IF i < pc THEN 1 ELSE 0)

IInv ==
    /\ TypeOK /\ Stages
    /\ UsageCanonical /\ TargetsCanonical /\ Increments
    /\ BoundedVisits
    /\ stage = "execute" => Retrying /\ Blocks /\ LastBlock
-----------------------------------------------------------------------------
\* The fields of a decoded instruction.
LEMMA InstrFields ==
    ASSUME NEW i \in Instr
    PROVE  /\ i.op \in {"plain", "swap", "branch"}
           /\ i.op = "plain" => i.writes \subseteq Reg
           /\ i.op = "swap" => i.dst \in Reg /\ i.src \in Reg
           /\ i.op = "branch" => /\ i.dst \in Reg /\ i.unit \in Units
                                /\ i.inc \in Word
                                /\ i.target \in -1 .. ProgramSize - 1
  BY DEF Instr

\* The units a modifier encodes, as the arithmetic lemmas want them.
LEMMA UnitForm ==
    ASSUME NEW u \in Units
    PROVE  \E h \in Nat \ {0}, f \in Nat \ {0}, m \in Nat \ {0} :
              /\ u \in Nat \ {0} /\ u = 2 * h /\ u \div 2 = h
              /\ FieldRange = 2 * f /\ WordRange = (u * FieldRange) * m
  <1>1. u \in Nat \ {0} /\ u % 2 = 0 /\ WordRange % (u * FieldRange) = 0
    BY VmAssumption
  <1>2. PICK h \in Nat \ {0} : u = 2 * h /\ u \div 2 = h
    BY <1>1
  <1>3. PICK f \in Nat \ {0} : FieldRange = 2 * f
    BY VmAssumption
  <1>4. u * FieldRange \in Nat \ {0}
    BY <1>1, VmAssumption, ProductPositive
  <1>5. WordRange \in Nat \ {0}
    BY VmAssumption
  <1>6. PICK d \in Nat \ {0} : d = u * FieldRange
    BY <1>4
  <1>7. PICK m \in Int : WordRange = d * m
    <2>1. WordRange % d = 0 /\ WordRange \in Int
      BY <1>1, <1>5, <1>6
    <2> QED
      BY ONLY <2>1, Multiple, d \in Nat \ {0}
  <1>8. m \in Nat \ {0}
    BY ONLY <1>7, <1>5, d \in Nat \ {0}, m \in Int
  <1>9. WordRange = (u * FieldRange) * m
    BY <1>6, <1>7
  <1> QED
    BY ONLY <1>1, <1>2, <1>3, <1>8, <1>9, Zenon

\* Decoding an immediate yields an increment of the required shape.
LEMMA DecodedIncrement ==
    ASSUME NEW imm \in Immediates, NEW u \in Units
    PROVE  /\ Increment(imm, u) \in Word
           /\ (Increment(imm, u) \div u) % 2 = 1
           /\ Increment(imm, u) % u < u \div 2
  <1>1. PICK h \in Nat \ {0}, f \in Nat \ {0}, m \in Nat \ {0} :
              /\ u \in Nat \ {0} /\ u = 2 * h /\ u \div 2 = h
              /\ FieldRange = 2 * f /\ WordRange = (u * FieldRange) * m
    BY UnitForm
  <1>2. imm \in Nat /\ imm < WordRange /\ WordRange \in Nat
    BY VmAssumption DEF Word
  <1>3. PICK n \in Nat : n = f * m
    OBVIOUS
  <1>4. WordRange = n * (2 * u)
    <2>1. WordRange = (u * (2 * f)) * m
      BY <1>1
    <2> QED
      BY ONLY <1>1, <2>1, <1>3, f \in Nat, m \in Nat
  <1>5. /\ Increment(imm, u) \in Nat
        /\ Increment(imm, u) < n * (2 * u)
        /\ (Increment(imm, u) \div u) % 2 = 1
        /\ Increment(imm, u) % u < h
    <2>1. imm < n * (2 * u)
      BY <1>2, <1>4
    <2> QED
      BY ONLY <1>1, <1>2, <2>1, IncrementShape, h \in Nat \ {0}, n \in Nat
  <1> QED
    BY <1>1, <1>2, <1>4, <1>5 DEF Word

\* The decoder's two results agree: an instruction is recorded in
\* register_usage for exactly the registers it sets.
LEMMA DecodeStep ==
    ASSUME TypeOK, decoded < ProgramSize, NEW raw \in Raw
    PROVE  LET i == Decoded(raw)
               use == UsageAfter(raw, decoded)
           IN  /\ i \in Instr
               /\ use \in [Reg -> -1 .. decoded]
               /\ i.op = "branch" =>
                     /\ i.target = usage[i.dst]
                     /\ (i.inc \div i.unit) % 2 = 1
                     /\ i.inc % i.unit < i.unit \div 2
               /\ \A x \in Reg :
                     use[x] = IF \/ i.op = "branch"
                                 \/ i.op = "plain" /\ x \in i.writes
                                 \/ i.op = "swap" /\ x \in {i.dst, i.src}
                              THEN decoded ELSE usage[x]
  <1> DEFINE i == Decoded(raw)
             use == UsageAfter(raw, decoded)
  <1>1. /\ decoded \in Nat /\ decoded <= ProgramSize /\ ProgramSize \in Nat
        /\ usage \in [Reg -> -1 .. decoded - 1]
    BY VmAssumption DEF TypeOK
  <1>2. CASE raw \in [op : {"write"}, dst : Reg]
    <2>1. i = [op |-> "plain", writes |-> {raw.dst}]
      BY <1>2 DEF Decoded
    <2>2. use = [usage EXCEPT ![raw.dst] = decoded]
      BY <1>2 DEF UsageAfter
    <2> QED
      BY <1>1, <1>2, <2>1, <2>2 DEF Instr
  <1>3. CASE raw \in [op : {"rcp"}, dst : Reg, trivial : BOOLEAN]
    <2>1. CASE raw.trivial
      <3>1. i = NoWrites /\ use = usage
        BY <1>3, <2>1 DEF Decoded, UsageAfter
      <3> QED
        BY <1>1, <3>1 DEF Instr, NoWrites
    <2>2. CASE ~raw.trivial
      <3>1. i = [op |-> "plain", writes |-> {raw.dst}]
        BY <1>3, <2>2 DEF Decoded
      <3>2. use = [usage EXCEPT ![raw.dst] = decoded]
        BY <1>3, <2>2 DEF UsageAfter
      <3> QED
        BY <1>1, <1>3, <3>1, <3>2 DEF Instr
    <2> QED
      BY <2>1, <2>2
  <1>4. CASE raw \in [op : {"swap"}, dst : Reg, src : Reg]
    <2>1. CASE raw.src = raw.dst
      <3>1. i = NoWrites /\ use = usage
        BY <1>4, <2>1 DEF Decoded, UsageAfter
      <3> QED
        BY <1>1, <3>1 DEF Instr, NoWrites
    <2>2. CASE raw.src # raw.dst
      <3>1. i = [op |-> "swap", dst |-> raw.dst, src |-> raw.src]
        BY <1>4, <2>2 DEF Decoded
      <3>2. use = [usage EXCEPT ![raw.dst] = decoded, ![raw.src] = decoded]
        BY <1>4, <2>2 DEF UsageAfter
      <3> QED
        BY <1>1, <1>4, <3>1, <3>2 DEF Instr
    <2> QED
      BY <2>1, <2>2
  <1>5. CASE raw \in [op : {"other"}]
    <2>1. i = NoWrites /\ use = usage
      BY <1>5 DEF Decoded, UsageAfter
    <2> QED
      BY <1>1, <2>1 DEF Instr, NoWrites
  <1>6. CASE raw \in [op : {"branch"}, dst : Reg, unit : Units, imm : Immediates]
    <2>1. i = [op |-> "branch", dst |-> raw.dst, unit |-> raw.unit,
               inc |-> Increment(raw.imm, raw.unit), target |-> usage[raw.dst]]
      BY <1>6 DEF Decoded
    <2>2. use = [x \in Reg |-> decoded]
      BY <1>6 DEF UsageAfter
    <2>3. /\ Increment(raw.imm, raw.unit) \in Word
          /\ (Increment(raw.imm, raw.unit) \div raw.unit) % 2 = 1
          /\ Increment(raw.imm, raw.unit) % raw.unit < raw.unit \div 2
      BY <1>6, DecodedIncrement
    <2>4. usage[raw.dst] \in -1 .. ProgramSize - 1
      BY <1>1, <1>6
    <2>5. i \in Instr
      BY <1>6, <2>1, <2>3, <2>4 DEF Instr
    <2>6. use \in [Reg -> -1 .. decoded]
      BY <1>1, <2>2
    <2> QED
      BY <2>1, <2>2, <2>3, <2>5, <2>6
  <1> QED
    BY <1>2, <1>3, <1>4, <1>5, <1>6 DEF Raw
-----------------------------------------------------------------------------
\* Every nonempty set of naturals has a least element.
LEMMA LeastNatural ==
    ASSUME NEW S \in SUBSET Nat, S # {}
    PROVE  \E n \in S : \A m \in S : n <= m
  <1> DEFINE R == OpToRel(<, Nat)
  <1>1. \E n \in S : \A m \in S : ~(<<m, n>> \in R)
    BY NatLessThanWellFounded, WFMin, Zenon
  <1>2. \A m, n \in Nat : m < n => <<m, n>> \in R
    BY DEF OpToRel
  <1> HIDE DEF R
  <1>3. \E n \in S : \A m \in S : ~(m < n)
    BY <1>1, <1>2, Zenon
  <1>4. PICK n \in S : \A m \in S : ~(m < n)
    BY <1>3
  <1>5. \A m \in S : n <= m
    BY <1>4
  <1> QED
    BY <1>5

\* The block of an instruction ends with a branch or with the program.
LEMMA BlockEnd ==
    ASSUME TypeOK, NEW i \in Nat
    PROVE  \/ \A k \in i .. decoded - 1 : ~IsBranch(k)
           \/ \E j \in Branches : i <= j /\ \A k \in i .. j - 1 : ~IsBranch(k)
  <1> DEFINE S == {k \in i .. decoded - 1 : IsBranch(k)}
  <1>0. decoded \in Nat
    BY DEF TypeOK
  <1>1. CASE S = {}
    BY <1>1
  <1>2. CASE S # {}
    <2>1. S \in SUBSET Nat
      BY <1>0
    <2> HIDE DEF S
    <2>2. PICK j \in S : \A m \in S : j <= m
      BY <1>2, <2>1, LeastNatural
    <2>3. j \in Branches /\ i <= j /\ j < decoded /\ j \in Nat
      BY <1>0, <2>2 DEF S, Branches
    <2>4. ASSUME NEW k \in i .. j - 1 PROVE ~IsBranch(k)
      BY <1>0, <2>2, <2>3 DEF S
    <2> QED
      BY <2>3, <2>4
  <1> QED
    BY <1>1, <1>2

\* The invariant holds before anything is decoded.
LEMMA InitIInv == Init => IInv
  <1> SUFFICES ASSUME Init PROVE IInv
    OBVIOUS
  <1>1. ProgramSize \in Nat /\ Iterations \in Nat /\ WordRange \in Nat \ {0}
    BY VmAssumption
  <1>2. TypeOK
    <2>1. program \in [0 .. decoded - 1 -> Instr]
      BY DEF Init
    <2>2. visits \in [0 .. ProgramSize - 1 -> 0 .. VisitCap]
      BY <1>1 DEF Init, VisitCap
    <2> QED
      BY <1>1, <2>1, <2>2 DEF Init, TypeOK, Word
  <1>3. Stages /\ UsageCanonical /\ TargetsCanonical /\ Increments
    BY DEF Init, Stages, UsageCanonical, TargetsCanonical, Increments, Index, Branches
  <1>4. BoundedVisits
    BY <1>1 DEF Init, BoundedVisits, VisitCap
  <1> QED
    BY <1>2, <1>3, <1>4 DEF IInv, Init

\* What decoding established survives every step that decodes nothing.
LEMMA ProgramKept ==
    ASSUME UsageCanonical, TargetsCanonical, Increments,
           UNCHANGED <<program, decoded, usage>>
    PROVE  UsageCanonical' /\ TargetsCanonical' /\ Increments'
  <1>1. UsageCanonical'
    BY DEF UsageCanonical
  <1>2. TargetsCanonical'
    BY DEF TargetsCanonical, IsBranch
  <1>3. Increments'
    BY DEF Increments, Branches, IsBranch
  <1> QED
    BY <1>1, <1>2, <1>3

\* One decoded instruction.
LEMMA DecodeIInv == IInv /\ Decode => IInv'
  <1> SUFFICES ASSUME IInv, Decode PROVE IInv'
    OBVIOUS
  <1>1. /\ TypeOK /\ Stages /\ UsageCanonical /\ TargetsCanonical /\ Increments
        /\ BoundedVisits
    BY DEF IInv
  <1>2. /\ stage = "decode" /\ stage' = "decode"
        /\ decoded \in Nat /\ decoded < ProgramSize /\ decoded' = decoded + 1
        /\ UNCHANGED <<iter, pc, r, visits>>
    BY <1>1 DEF Decode, TypeOK
  <1>3. PICK raw \in Raw :
          /\ program' = [k \in 0 .. decoded |->
                            IF k = decoded THEN Decoded(raw) ELSE program[k]]
          /\ usage' = UsageAfter(raw, decoded)
    BY DEF Decode
  <1>4. PICK i \in Instr : i = Decoded(raw)
    BY <1>1, <1>2, DecodeStep
  <1>5. /\ usage' \in [Reg -> -1 .. decoded]
        /\ i.op = "branch" => /\ i.target = usage[i.dst]
                             /\ (i.inc \div i.unit) % 2 = 1
                             /\ i.inc % i.unit < i.unit \div 2
        /\ \A x \in Reg :
              usage'[x] = IF \/ i.op = "branch"
                             \/ i.op = "plain" /\ x \in i.writes
                             \/ i.op = "swap" /\ x \in {i.dst, i.src}
                          THEN decoded ELSE usage[x]
    BY <1>1, <1>2, <1>3, <1>4, DecodeStep
  <1>6. /\ program' \in [0 .. decoded -> Instr]
        /\ program'[decoded] = i
        /\ \A k \in 0 .. decoded - 1 : program'[k] = program[k]
    BY <1>1, <1>2, <1>3, <1>4 DEF TypeOK
  <1>7. \A x \in Reg : usage'[x] = IF Sets(i, x) THEN decoded ELSE usage[x]
    BY <1>2, <1>5 DEF Sets, Modifies
  <1>9. usage \in [Reg -> -1 .. decoded - 1]
    BY <1>1 DEF TypeOK
  <1>10. TypeOK'
    <2>1. 0 .. decoded' - 1 = 0 .. decoded /\ decoded' \in 0 .. ProgramSize
      BY <1>2, VmAssumption
    <2> QED
      BY <1>1, <1>2, <1>5, <1>6, <2>1 DEF TypeOK
  <1>11. Stages'
    BY <1>1, <1>2 DEF Stages, Index
  <1>12. UsageCanonical'
    <2> SUFFICES ASSUME NEW x \in Reg
                 PROVE  /\ usage'[x] # -1 => Sets(program'[usage'[x]], x)
                        /\ \A k \in usage'[x] + 1 .. decoded : ~Sets(program'[k], x)
      BY <1>2 DEF UsageCanonical
    <2>1. CASE Sets(i, x)
      BY <1>2, <1>6, <1>7, <2>1
    <2>2. CASE ~Sets(i, x)
      <3>1. usage'[x] = usage[x] /\ usage[x] \in -1 .. decoded - 1
        BY <1>7, <1>9, <2>2
      <3>2. usage[x] # -1 => Sets(program[usage[x]], x)
        BY <1>1 DEF UsageCanonical
      <3>3. ASSUME usage[x] # -1 PROVE Sets(program'[usage[x]], x)
        <4>1. usage[x] \in 0 .. decoded - 1
          BY <3>1, <3>3, <1>2
        <4> QED
          BY <4>1, <3>2, <3>3, <1>6
      <3>4. ASSUME NEW k \in usage[x] + 1 .. decoded PROVE ~Sets(program'[k], x)
        <4>1. CASE k = decoded
          BY <4>1, <2>2, <1>6
        <4>2. CASE k # decoded
          <5>1. k \in usage[x] + 1 .. decoded - 1 /\ k \in 0 .. decoded - 1
            BY <4>2, <3>1, <1>2
          <5> QED
            BY <5>1, <1>6, <1>1 DEF UsageCanonical
        <4> QED
          BY <4>1, <4>2
      <3> QED
        BY <3>1, <3>3, <3>4
    <2> QED
      BY <2>1, <2>2
  <1>13. TargetsCanonical'
    <2> SUFFICES ASSUME NEW j \in 0 .. decoded, IsBranch(j)'
                 PROVE  /\ program'[j].target \in -1 .. j - 1
                        /\ program'[j].target # -1 =>
                              Sets(program'[program'[j].target], program'[j].dst)
                        /\ \A k \in program'[j].target + 1 .. j - 1 :
                              ~Sets(program'[k], program'[j].dst)
      BY <1>2 DEF TargetsCanonical
    <2>1. CASE j = decoded
      <3>1. /\ i.op = "branch" /\ i.dst \in Reg /\ i.target = usage[i.dst]
            /\ program'[j] = i
        BY <2>1, <1>5, <1>6, InstrFields DEF IsBranch
      <3>2. i.target \in -1 .. decoded - 1
        BY <3>1, <1>9
      <3>3. /\ i.target # -1 => Sets(program[i.target], i.dst)
            /\ \A k \in i.target + 1 .. decoded - 1 : ~Sets(program[k], i.dst)
        BY <1>1, <3>1 DEF UsageCanonical
      <3>4. i.target # -1 => i.target \in 0 .. decoded - 1
        BY <3>2, <1>2
      <3>5. \A k \in i.target + 1 .. decoded - 1 : k \in 0 .. decoded - 1
        BY <3>2, <1>2
      <3> QED
        BY <2>1, <3>1, <3>2, <3>3, <3>4, <3>5, <1>6
    <2>2. CASE j # decoded
      <3>1. j \in 0 .. decoded - 1 /\ program'[j] = program[j] /\ IsBranch(j)
        BY <2>2, <1>2, <1>6 DEF IsBranch
      <3>2. program[j].dst \in Reg
        BY <3>1, <1>1, InstrFields DEF TypeOK, IsBranch
      <3>3. /\ program[j].target \in -1 .. j - 1
            /\ program[j].target # -1 => Sets(program[program[j].target], program[j].dst)
            /\ \A k \in program[j].target + 1 .. j - 1 : ~Sets(program[k], program[j].dst)
        BY <1>1, <3>1 DEF TargetsCanonical
      <3>4. program[j].target # -1 => program[j].target \in 0 .. decoded - 1
        BY <3>1, <3>3, <1>2
      <3>5. \A k \in program[j].target + 1 .. j - 1 : k \in 0 .. decoded - 1
        BY <3>1, <3>3, <1>2
      <3> QED
        BY <3>1, <3>2, <3>3, <3>4, <3>5, <1>6
    <2> QED
      BY <2>1, <2>2
  <1>14. Increments'
    <2> SUFFICES ASSUME NEW j \in 0 .. decoded, IsBranch(j)'
                 PROVE  /\ (program'[j].inc \div program'[j].unit) % 2 = 1
                        /\ program'[j].inc % program'[j].unit < program'[j].unit \div 2
      BY <1>2 DEF Increments, Branches
    <2>1. CASE j = decoded
      BY <2>1, <1>5, <1>6 DEF IsBranch
    <2>2. CASE j # decoded
      <3>1. j \in Branches /\ program'[j] = program[j]
        BY <2>2, <1>2, <1>6 DEF IsBranch, Branches
      <3> QED
        BY <3>1, <1>1 DEF Increments
    <2> QED
      BY <2>1, <2>2
  <1>15. BoundedVisits'
    BY <1>1, <1>2 DEF BoundedVisits
  <1> QED
    BY <1>2, <1>10, <1>11, <1>12, <1>13, <1>14, <1>15 DEF IInv
-----------------------------------------------------------------------------
\* An instruction about to be fetched has been fetched at most twice.
LEMMA FetchedTwice ==
    ASSUME IInv, stage = "execute", pc < ProgramSize
    PROVE  visits[pc] \in 0 .. 2
  <1>1. /\ TypeOK /\ Retrying /\ Blocks /\ LastBlock
        /\ decoded = ProgramSize /\ ProgramSize \in Nat
        /\ pc \in Index /\ pc \in Nat
        /\ visits \in [Index -> 0 .. VisitCap]
    BY VmAssumption DEF IInv, Stages, TypeOK, Index
  <1>2. CASE \A k \in pc .. decoded - 1 : ~IsBranch(k)
    <2>1. visits[pc] <= (IF pc < pc THEN 1 ELSE 0)
      BY <1>1, <1>2 DEF LastBlock
    <2> QED
      BY <1>1, <2>1 DEF VisitCap
  <1>3. CASE \E j \in Branches : pc <= j /\ \A k \in pc .. j - 1 : ~IsBranch(k)
    <2>1. PICK j \in Branches : pc <= j /\ \A k \in pc .. j - 1 : ~IsBranch(k)
      BY <1>3
    <2>2. j \in Index
      BY <1>1 DEF Branches, Index
    <2>3. visits[pc] <= visits[j] + (IF pc < pc /\ pc <= j THEN 1 ELSE 0)
      BY <1>1, <2>1 DEF Blocks
    <2>4. visits[j] = 0 \/ visits[j] \in {1, 2}
      BY <1>1, <2>1 DEF Retrying
    <2>5. visits[pc] \in Nat
      BY <1>1 DEF VisitCap
    <2> QED
      BY <1>1, <2>3, <2>4, <2>5
  <1> QED
    BY <1>1, <1>2, <1>3, BlockEnd

\* What a fetch alone does.
LEMMA FetchStep ==
    ASSUME IInv, Fetch
    PROVE  /\ stage = "execute" /\ decoded = ProgramSize /\ ProgramSize \in Nat
           /\ pc \in Index /\ pc \in Nat
           /\ program[pc] \in Instr
           /\ visits \in [Index -> 0 .. VisitCap] /\ visits[pc] \in 0 .. 2
           /\ visits' = [visits EXCEPT ![pc] = visits[pc] + 1]
           /\ BoundedVisits'
           /\ Stages'
           /\ UsageCanonical' /\ TargetsCanonical' /\ Increments'
           /\ Branches' = Branches
           /\ \A k : IsBranch(k)' <=> IsBranch(k)
  <1>1. /\ stage = "execute" /\ pc < ProgramSize
        /\ UNCHANGED <<stage, program, decoded, usage, iter>>
    BY DEF Fetch
  <1>2. /\ decoded = ProgramSize /\ ProgramSize \in Nat
        /\ pc \in Index /\ pc \in Nat /\ program[pc] \in Instr
        /\ visits \in [Index -> 0 .. VisitCap]
    BY <1>1, VmAssumption DEF IInv, Stages, TypeOK, Index
  <1>3. visits[pc] \in 0 .. 2
    BY <1>1, FetchedTwice
  <1>4. visits' = [visits EXCEPT ![pc] = visits[pc] + 1]
    <2>1. (IF visits[pc] < VisitCap THEN visits[pc] + 1 ELSE visits[pc]) = visits[pc] + 1
      BY <1>3 DEF VisitCap
    <2>2. visits' = [visits EXCEPT ![pc] =
                        IF visits[pc] < VisitCap THEN visits[pc] + 1 ELSE visits[pc]]
      BY DEF Fetch
    <2> QED
      BY ONLY <2>1, <2>2
  <1>5. BoundedVisits'
    BY <1>2, <1>3, <1>4 DEF IInv, BoundedVisits, VisitCap, Index
  <1>6. Stages'
    BY <1>1 DEF IInv, Stages
  <1>7. UsageCanonical' /\ TargetsCanonical' /\ Increments'
    BY <1>1, ProgramKept DEF IInv
  <1>8. Branches' = Branches /\ \A k : IsBranch(k)' <=> IsBranch(k)
    BY <1>1 DEF Branches, IsBranch
  <1> QED
    BY <1>1, <1>2, <1>3, <1>4, <1>5, <1>6, <1>7, <1>8

\* Any instruction that is not a branch.
LEMMA StraightLine ==
    ASSUME IInv, Fetch, ~IsBranch(pc), pc' = pc + 1,
           r' \in [Reg -> Word],
           \A x \in Reg : ~Modifies(program[pc], x) => r'[x] = r[x]
    PROVE  IInv'
  <1>1. /\ stage = "execute" /\ decoded = ProgramSize /\ ProgramSize \in Nat
        /\ pc \in Index /\ pc \in Nat
        /\ program[pc] \in Instr
        /\ visits \in [Index -> 0 .. VisitCap] /\ visits[pc] \in 0 .. 2
        /\ visits' = [visits EXCEPT ![pc] = visits[pc] + 1]
        /\ BoundedVisits' /\ Stages'
        /\ UsageCanonical' /\ TargetsCanonical' /\ Increments'
        /\ Branches' = Branches
        /\ \A k : IsBranch(k)' <=> IsBranch(k)
    BY FetchStep
  <1>2. UNCHANGED <<stage, program, decoded, usage, iter>>
    BY DEF Fetch
  <1>3. TypeOK /\ TargetsCanonical /\ Retrying /\ Blocks /\ LastBlock
    BY <1>1 DEF IInv
  <1>4. TypeOK'
    <2>1. visits' \in [0 .. ProgramSize - 1 -> 0 .. VisitCap]
      BY <1>1 DEF VisitCap, Index
    <2>2. pc' \in 0 .. ProgramSize
      BY <1>1 DEF Index
    <2> QED
      BY <1>2, <1>3, <2>1, <2>2 DEF TypeOK
  <1>5. \A j \in Branches : j \in Index /\ j # pc /\ program[j] \in Instr
                           /\ program[j].op = "branch"
    BY <1>1, <1>3 DEF Branches, Index, TypeOK, IsBranch
  <1>6. \A k \in Index : visits'[k] = IF k = pc THEN visits[k] + 1 ELSE visits[k]
    BY <1>1
  <1>7. Retrying'
    <2> SUFFICES ASSUME NEW j \in Branches, pc + 1 <= j, visits'[j] # 0
                 PROVE  /\ program[j].target < pc + 1
                        /\ visits'[j] \in {1, 2}
                        /\ CondField(r'[program[j].dst], program[j].unit) = 0
                        /\ visits'[j] = 2 =>
                              r'[program[j].dst] % program[j].unit < program[j].unit \div 2
      BY <1>1, <1>2 DEF Retrying, CondField
    <2>1. pc <= j /\ visits[j] # 0 /\ visits'[j] = visits[j] /\ j \in Index
      BY <1>1, <1>5, <1>6 DEF Index
    <2>2. /\ program[j].target < pc
          /\ visits[j] \in {1, 2}
          /\ CondField(r[program[j].dst], program[j].unit) = 0
          /\ visits[j] = 2 =>
                r[program[j].dst] % program[j].unit < program[j].unit \div 2
      BY <1>3, <2>1 DEF Retrying
    <2>3. program[j].target \in Int /\ program[j].dst \in Reg
      BY <1>5, InstrFields, VmAssumption
    <2>4. ~Sets(program[pc], program[j].dst)
      <3>1. \A k \in program[j].target + 1 .. j - 1 : ~Sets(program[k], program[j].dst)
        BY <1>1, <1>3, <1>5 DEF TargetsCanonical, IsBranch, Index
      <3>2. pc \in program[j].target + 1 .. j - 1
        BY <2>1, <2>2, <2>3, <1>1, <1>5 DEF Index
      <3> QED
        BY <3>1, <3>2
    <2>5. r'[program[j].dst] = r[program[j].dst]
      BY <2>3, <2>4 DEF Sets
    <2> QED
      BY <2>1, <2>2, <2>3, <2>5, <1>1
  <1>8. Blocks'
    <2> SUFFICES ASSUME NEW j \in Branches, NEW i \in Index, i <= j,
                        \A k \in i .. j - 1 : ~IsBranch(k)
                 PROVE  visits'[i] <= visits'[j] +
                            (IF i < pc + 1 /\ pc + 1 <= j THEN 1 ELSE 0)
      BY <1>1, <1>2 DEF Blocks
    <2>1. visits[i] <= visits[j] + (IF i < pc /\ pc <= j THEN 1 ELSE 0)
      BY <1>3 DEF Blocks
    <2>2. visits'[j] = visits[j] /\ j \in Index /\ j # pc
      BY <1>5, <1>6
    <2>3. visits[i] \in Nat /\ visits[j] \in Nat
      BY <1>1, <2>2 DEF VisitCap
    <2>4. i \in Nat /\ j \in Nat
      BY <2>2 DEF Index
    <2> QED
      BY <1>1, <1>6, <2>1, <2>2, <2>3, <2>4
  <1>9. LastBlock'
    <2> SUFFICES ASSUME NEW i \in Index, \A k \in i .. decoded - 1 : ~IsBranch(k)
                 PROVE  visits'[i] <= (IF i < pc + 1 THEN 1 ELSE 0)
      BY <1>1, <1>2 DEF LastBlock
    <2>1. visits[i] <= (IF i < pc THEN 1 ELSE 0)
      BY <1>3 DEF LastBlock
    <2>2. visits[i] \in Nat /\ i \in Nat
      BY <1>1 DEF VisitCap, Index
    <2> QED
      BY <1>1, <1>6, <2>1, <2>2
  <1> QED
    BY <1>1, <1>4, <1>7, <1>8, <1>9 DEF IInv
\* Every effect but ISWAP_R and CBRANCH.
LEMMA ExecPlainIInv == IInv /\ ExecPlain => IInv'
  <1> SUFFICES ASSUME IInv, ExecPlain PROVE IInv'
    OBVIOUS
  <1>1. Fetch /\ program[pc].op = "plain" /\ pc' = pc + 1
    BY DEF ExecPlain
  <1>2. r \in [Reg -> Word] /\ Values \subseteq Word
    BY VmAssumption DEF IInv, TypeOK
  <1>3. PICK v \in [program[pc].writes -> Values] :
          r' = [x \in Reg |-> IF x \in program[pc].writes THEN v[x] ELSE r[x]]
    BY DEF ExecPlain
  <1>4. r' \in [Reg -> Word]
    BY <1>2, <1>3
  <1>5. \A x \in Reg : ~Modifies(program[pc], x) => r'[x] = r[x]
    BY <1>1, <1>3 DEF Modifies
  <1> QED
    BY <1>1, <1>4, <1>5, StraightLine DEF IsBranch

\* ISWAP_R of two registers.
LEMMA ExecSwapIInv == IInv /\ ExecSwap => IInv'
  <1> SUFFICES ASSUME IInv, ExecSwap PROVE IInv'
    OBVIOUS
  <1>1. /\ Fetch /\ program[pc].op = "swap" /\ pc' = pc + 1
        /\ r' = [r EXCEPT ![program[pc].dst] = r[program[pc].src],
                          ![program[pc].src] = r[program[pc].dst]]
    BY DEF ExecSwap
  <1>2. r \in [Reg -> Word]
    BY DEF IInv, TypeOK
  <1>3. program[pc].dst \in Reg /\ program[pc].src \in Reg
    BY <1>1, FetchStep, InstrFields
  <1>4. r' \in [Reg -> Word]
    BY <1>1, <1>2, <1>3
  <1>5. \A x \in Reg : ~Modifies(program[pc], x) => r'[x] = r[x]
    BY <1>1, <1>2, <1>3 DEF Modifies
  <1> QED
    BY <1>1, <1>4, <1>5, StraightLine DEF IsBranch

\* CBRANCH, taken or not.
LEMMA ExecBranchIInv == IInv /\ ExecBranch => IInv'
  <1> SUFFICES ASSUME IInv, ExecBranch PROVE IInv'
    OBVIOUS
  <1>0. Fetch /\ IsBranch(pc)
    BY DEF ExecBranch, IsBranch
  <1>1. /\ stage = "execute" /\ decoded = ProgramSize /\ ProgramSize \in Nat
        /\ pc \in Index /\ pc \in Nat
        /\ program[pc] \in Instr
        /\ visits \in [Index -> 0 .. VisitCap] /\ visits[pc] \in 0 .. 2
        /\ visits' = [visits EXCEPT ![pc] = visits[pc] + 1]
        /\ BoundedVisits' /\ Stages'
        /\ UsageCanonical' /\ TargetsCanonical' /\ Increments'
        /\ Branches' = Branches
        /\ \A k : IsBranch(k)' <=> IsBranch(k)
    BY <1>0, FetchStep
  <1>2. UNCHANGED <<stage, program, decoded, usage, iter>>
    BY <1>0 DEF Fetch
  <1>3. TypeOK /\ TargetsCanonical /\ Increments /\ Retrying /\ Blocks /\ LastBlock
    BY <1>1 DEF IInv
  <1>4. PICK x \in Reg, u \in Units, inc \in Word, t \in -1 .. pc - 1 :
          /\ x = program[pc].dst /\ u = program[pc].unit
          /\ inc = program[pc].inc /\ t = program[pc].target
    <2>1. pc \in 0 .. decoded - 1
      BY <1>1 DEF Index
    <2>2. program[pc].target \in -1 .. pc - 1
      BY <2>1, <1>0, <1>3 DEF TargetsCanonical
    <2> QED
      BY <2>2, <1>0, <1>1, InstrFields DEF IsBranch
  <1>5. PICK v : /\ v = WrappingAdd(r[x], inc)
                 /\ r' = [r EXCEPT ![x] = v]
                 /\ pc' = PcAfterBranch(program[pc], v)
    BY <1>4 DEF ExecBranch
  <1>6. pc' = IF CondField(v, u) = 0 THEN t + 1 ELSE pc + 1
    BY <1>4, <1>5 DEF PcAfterBranch
  <1>7. WordRange \in Nat \ {0} /\ r \in [Reg -> Word] /\ r[x] \in Nat /\ inc \in Nat
    BY <1>3, VmAssumption DEF TypeOK, Word
  <1>8. v \in Word
    <2>1. PICK n \in Int : n = r[x] + inc
      BY <1>7
    <2>2. n % WordRange \in 0 .. WordRange - 1
      BY ONLY <1>7, Division, n \in Int
    <2> QED
      BY <1>5, <2>1, <2>2 DEF WrappingAdd, Word
  <1>9. TypeOK'
    <2>1. visits' \in [0 .. ProgramSize - 1 -> 0 .. VisitCap]
      BY <1>1 DEF VisitCap, Index
    <2>2. pc' \in 0 .. ProgramSize
      BY <1>1, <1>6 DEF Index
    <2>3. r' \in [Reg -> Word]
      BY <1>5, <1>7, <1>8
    <2> QED
      BY <1>2, <1>3, <2>1, <2>2, <2>3 DEF TypeOK
  <1>10. \A j \in Branches : /\ j \in Index /\ j \in Nat
                            /\ program[j] \in Instr /\ program[j].op = "branch"
                            /\ program[j].target \in Int
    BY <1>1, <1>3, InstrFields, VmAssumption DEF Branches, Index, TypeOK, IsBranch
  <1>11. \A k \in Index : visits'[k] = IF k = pc THEN visits[k] + 1 ELSE visits[k]
    BY <1>1
  <1>12. Retrying'
    <2> SUFFICES ASSUME NEW j \in Branches, pc' <= j, visits'[j] # 0
                 PROVE  /\ program[j].target < pc'
                        /\ visits'[j] \in {1, 2}
                        /\ CondField(r'[program[j].dst], program[j].unit) = 0
                        /\ visits'[j] = 2 =>
                              r'[program[j].dst] % program[j].unit < program[j].unit \div 2
      BY <1>1, <1>2 DEF Retrying, CondField
    <2>1. CASE j < pc
      <3>1. j \in t + 1 .. pc - 1
        BY <2>1, <1>1, <1>4, <1>6, <1>10
      <3>2. ~Sets(program[j], x)
        BY <3>1, <1>0, <1>1, <1>3, <1>4 DEF TargetsCanonical, Index
      <3> QED
        BY <3>2, <1>10 DEF Sets
    <2>2. CASE j > pc
      <3>1. visits[j] # 0 /\ pc <= j
        BY <2>2, <1>1, <1>10, <1>11
      <3>2. program[j].target < pc
        BY <3>1, <1>3 DEF Retrying
      <3>3. pc \in program[j].target + 1 .. j - 1
        BY <3>2, <2>2, <1>1, <1>10
      <3>4. ~Sets(program[pc], program[j].dst)
        BY <3>3, <1>1, <1>3, <1>10 DEF TargetsCanonical, Index, IsBranch
      <3> QED
        BY <3>4, <1>0 DEF Sets, IsBranch
    <2>3. CASE j = pc
      <3>1. CondField(v, u) = 0 /\ pc' = t + 1
        BY <2>3, <1>1, <1>6
      <3>2. visits'[j] = visits[j] + 1 /\ visits[j] \in 0 .. 2
        BY <2>3, <1>1, <1>11
      <3>3. r'[x] = v
        BY <1>5, <1>7
      <3>4. visits[j] # 0 => v % u < u \div 2 /\ ~(r[x] % u < u \div 2)
        <4> SUFFICES ASSUME visits[j] # 0
                     PROVE  v % u < u \div 2 /\ ~(r[x] % u < u \div 2)
          OBVIOUS
        <4>1. CondField(r[x], u) = 0
          BY <2>3, <1>1, <1>3, <1>4 DEF Retrying
        <4>2. (inc \div u) % 2 = 1 /\ inc % u < u \div 2
          BY <2>3, <1>3, <1>4 DEF Increments
        <4>3. PICK h \in Nat \ {0}, f \in Nat \ {0}, m \in Nat \ {0} :
                 /\ u \in Nat \ {0} /\ u = 2 * h /\ u \div 2 = h
                 /\ FieldRange = 2 * f /\ WordRange = (u * FieldRange) * m
          BY UnitForm
        <4>4. inc % u < h
          BY <4>2, <4>3
        <4>5. v % u < h /\ ~(r[x] % u < h)
          BY ONLY TakenAgain, <4>1, <4>2, <4>3, <4>4, <3>1, <1>5, <1>7,
                  h \in Nat \ {0}, f \in Nat \ {0}, m \in Nat \ {0}
        <4> QED
          BY <4>3, <4>5
      <3>5. visits[j] # 2
        BY <3>4, <2>3, <1>1, <1>3, <1>4 DEF Retrying
      <3> QED
        BY <2>3, <3>1, <3>2, <3>3, <3>4, <3>5, <1>4
    <2> QED
      BY <2>1, <2>2, <2>3, <1>1, <1>10
  <1>13. Blocks'
    <2> SUFFICES ASSUME NEW j \in Branches, NEW i \in Index, i <= j,
                        \A k \in i .. j - 1 : ~IsBranch(k)
                 PROVE  visits'[i] <= visits'[j] + (IF i < pc' /\ pc' <= j THEN 1 ELSE 0)
      BY <1>1, <1>2 DEF Blocks
    <2>1. visits[i] <= visits[j] + (IF i < pc /\ pc <= j THEN 1 ELSE 0)
      BY <1>3 DEF Blocks
    <2>2. i \in Nat /\ j \in Nat /\ j \in Index
      BY <1>10 DEF Index
    <2>3. visits[i] \in Nat /\ visits[j] \in Nat
      BY <1>1, <2>2 DEF VisitCap
    <2>4. ~(i <= pc /\ pc <= j - 1)
      BY <1>0, <1>1, <2>2
    <2> QED
      BY <1>1, <1>11, <2>1, <2>2, <2>3, <2>4
  <1>14. LastBlock'
    <2> SUFFICES ASSUME NEW i \in Index, \A k \in i .. decoded - 1 : ~IsBranch(k)
                 PROVE  visits'[i] <= (IF i < pc' THEN 1 ELSE 0)
      BY <1>1, <1>2 DEF LastBlock
    <2>1. visits[i] <= (IF i < pc THEN 1 ELSE 0)
      BY <1>3 DEF LastBlock
    <2>2. visits[i] \in Nat /\ i \in Nat
      BY <1>1 DEF VisitCap, Index
    <2>3. pc < i
      BY <1>0, <1>1, <2>2 DEF Index
    <2> QED
      BY <1>1, <1>11, <2>1, <2>2, <2>3
  <1> QED
    BY <1>1, <1>9, <1>12, <1>13, <1>14 DEF IInv
\* Entering run.
LEMMA StartRunIInv == IInv /\ StartRun => IInv'
  <1> SUFFICES ASSUME IInv, StartRun PROVE IInv'
    OBVIOUS
  <1>1. TypeOK' /\ Stages' /\ BoundedVisits' /\ stage' = "prepare"
    BY DEF IInv, StartRun, TypeOK, Stages, BoundedVisits
  <1>2. UsageCanonical' /\ TargetsCanonical' /\ Increments'
    BY ProgramKept DEF IInv, StartRun
  <1> QED
    BY <1>1, <1>2 DEF IInv

\* The head of an iteration: nothing has been fetched.
LEMMA PrepareIInv == IInv /\ Prepare => IInv'
  <1> SUFFICES ASSUME IInv, Prepare PROVE IInv'
    OBVIOUS
  <1>1. /\ stage = "prepare" /\ stage' = "execute" /\ iter < Iterations
        /\ r' \in [Reg -> Values] /\ pc' = 0
        /\ visits' = [k \in Index |-> 0]
        /\ UNCHANGED <<program, decoded, usage, iter>>
    BY DEF Prepare, Index
  <1>2. TypeOK /\ decoded = ProgramSize /\ ProgramSize \in Nat
    BY <1>1, VmAssumption DEF IInv, Stages
  <1>3. TypeOK'
    <2>1. r' \in [Reg -> Word]
      BY <1>1, VmAssumption
    <2>2. visits' \in [0 .. ProgramSize - 1 -> 0 .. VisitCap]
      BY <1>1 DEF VisitCap, Index
    <2>3. pc' \in 0 .. ProgramSize /\ stage' \in {"decode", "prepare", "execute"}
      BY <1>1, <1>2
    <2>4. UNCHANGED <<program, decoded, usage, iter>>
      BY <1>1
    <2> QED
      BY ONLY <1>2, <2>1, <2>2, <2>3, <2>4 DEF TypeOK
  <1>4. Stages' /\ BoundedVisits'
    BY <1>1, <1>2 DEF Stages, BoundedVisits, VisitCap, Index
  <1>5. UsageCanonical' /\ TargetsCanonical' /\ Increments'
    BY <1>1, ProgramKept DEF IInv
  <1>6. Branches' \subseteq Index
    BY <1>1, <1>2 DEF Branches, Index
  <1>7. Retrying'
    BY <1>1, <1>6 DEF Retrying
  <1>8. Blocks'
    BY <1>1, <1>6 DEF Blocks
  <1>9. LastBlock'
    BY <1>1 DEF LastBlock
  <1> QED
    BY <1>3, <1>4, <1>5, <1>7, <1>8, <1>9 DEF IInv

\* The tail of an iteration.
LEMMA FinishIInv == IInv /\ Finish => IInv'
  <1> SUFFICES ASSUME IInv, Finish PROVE IInv'
    OBVIOUS
  <1>1. /\ stage = "execute" /\ stage' = "prepare" /\ iter' = iter + 1
        /\ r' \in [Reg -> Values]
        /\ UNCHANGED <<program, decoded, usage, pc, visits>>
    BY DEF Finish
  <1>2. TypeOK'
    <2>1. r' \in [Reg -> Word]
      BY <1>1, VmAssumption
    <2>2. iter' \in 0 .. Iterations
      BY <1>1, VmAssumption DEF IInv, TypeOK, Stages
    <2> QED
      BY <1>1, <2>1, <2>2 DEF IInv, TypeOK
  <1>3. Stages' /\ BoundedVisits'
    BY <1>1 DEF IInv, Stages, BoundedVisits
  <1>4. UsageCanonical' /\ TargetsCanonical' /\ Increments'
    BY <1>1, ProgramKept DEF IInv
  <1> QED
    BY <1>1, <1>2, <1>3, <1>4 DEF IInv

\* A step that changes nothing.
LEMMA StutterIInv == IInv /\ UNCHANGED vars => IInv'
  <1> SUFFICES ASSUME IInv, UNCHANGED vars PROVE IInv'
    OBVIOUS
  <1>1. UNCHANGED <<stage, program, decoded, usage, iter, pc, r, visits>>
    BY DEF vars
  <1>2. TypeOK' /\ Stages' /\ BoundedVisits'
    BY <1>1 DEF IInv, TypeOK, Stages, BoundedVisits
  <1>3. UsageCanonical' /\ TargetsCanonical' /\ Increments'
    BY <1>1, ProgramKept DEF IInv
  <1>4. stage = "execute" => Retrying' /\ Blocks' /\ LastBlock'
    BY <1>1 DEF IInv, Retrying, Blocks, LastBlock, Branches, IsBranch, CondField
  <1> QED
    BY <1>1, <1>2, <1>3, <1>4 DEF IInv

(***************************************************************************)
(* The theorems.                                                           *)
(***************************************************************************)

\* The inductive invariant holds of every behaviour of the interpreter.
THEOREM SpecIInv == Spec => []IInv
  <1>1. Init => IInv
    BY InitIInv
  <1>2. IInv /\ [Next]_vars => IInv'
    BY DecodeIInv, StartRunIInv, PrepareIInv, ExecPlainIInv, ExecSwapIInv,
       ExecBranchIInv, FinishIInv, StutterIInv DEF Next, Returned
  <1> QED
    BY <1>1, <1>2, PTL DEF Spec

\* Type correctness of decoding and execution.
THEOREM TypeCorrect == Spec => []TypeOK
  <1>1. IInv => TypeOK
    BY DEF IInv
  <1> QED
    BY <1>1, SpecIInv, PTL

\* The unchecked fetch of run never leaves the program, for every program,
\* every register content and every program size.
THEOREM FetchAlwaysInBounds == Spec => []FetchInBounds
  <1>1. IInv => FetchInBounds
    BY VmAssumption DEF IInv, FetchInBounds, TypeOK, Stages
  <1> QED
    BY <1>1, SpecIInv, PTL

\* decode_instruction gives every branch the target RandomX defines.
THEOREM TargetsAlwaysCanonical == Spec => []TargetsCanonical
  <1>1. IInv => TargetsCanonical
    BY DEF IInv
  <1> QED
    BY <1>1, SpecIInv, PTL

\* No instruction is fetched more than three times in an iteration of run,
\* for every width of the words and of the condition field: the loop that
\* has no counter makes at most 3 * ProgramSize turns.
THEOREM VisitsAlwaysBounded == Spec => []BoundedVisits
  <1>1. IInv => BoundedVisits
    BY DEF IInv
  <1> QED
    BY <1>1, SpecIInv, PTL

\* The body of a branch leaves the register of the branch alone.
THEOREM BodyAlwaysKeepsRegister == Spec => BodyKeepsRegister
  <1> DEFINE Keeps == \A j \in 0 .. decoded - 1 :
            /\ stage = "execute" /\ pc < ProgramSize
            /\ IsBranch(j) /\ program[j].target < pc /\ pc < j
            => r'[program[j].dst] = r[program[j].dst]
  <1>1. IInv /\ Next => Keeps
    <2> SUFFICES ASSUME IInv, Next,
                        NEW j \in 0 .. decoded - 1,
                        stage = "execute", pc < ProgramSize,
                        IsBranch(j), program[j].target < pc, pc < j
                 PROVE  r'[program[j].dst] = r[program[j].dst]
      OBVIOUS
    <2>1. /\ TypeOK /\ decoded = ProgramSize /\ ProgramSize \in Nat
          /\ pc \in Nat /\ program[j] \in Instr /\ r \in [Reg -> Word]
      BY VmAssumption DEF IInv, Stages, TypeOK
    <2>2. program[j].dst \in Reg /\ program[j].target \in Int
      BY <2>1, InstrFields, VmAssumption DEF IsBranch
    <2>3. pc \in program[j].target + 1 .. j - 1
      BY <2>1, <2>2
    <2>4. ~Sets(program[pc], program[j].dst)
      BY <2>3 DEF IInv, TargetsCanonical
    <2>5. CASE ExecPlain
      BY <2>2, <2>4, <2>5 DEF ExecPlain, Sets, Modifies
    <2>6. CASE ExecSwap
      BY <2>1, <2>2, <2>4, <2>6 DEF ExecSwap, Sets, Modifies
    <2>7. CASE ExecBranch
      BY <2>4, <2>7 DEF ExecBranch, Sets
    <2>8. ~(Decode \/ StartRun \/ Prepare \/ Finish \/ Returned)
      BY <2>1 DEF Decode, StartRun, Prepare, Finish, Returned
    <2> QED
      BY <2>5, <2>6, <2>7, <2>8 DEF Next
  <1>2. IInv /\ [Next]_vars => [Keeps]_vars
    BY <1>1
  <1> QED
    BY <1>2, SpecIInv, PTL DEF Spec, BodyKeepsRegister
=============================================================================
