---------------------------- MODULE Superscalar ----------------------------
(***************************************************************************)
(* The superscalar program generator of the light-mode dataset             *)
(* (randomx-core/src/superscalar.rs): ScProgram::generate simulates the    *)
(* decoder and the three execution ports of a processor, draws an          *)
(* instruction for every decoder slot, and gives its macro-ops the first   *)
(* free ports.  Operands must be ready within LOOK_FORWARD_CYCLES, else    *)
(* the instruction is thrown away.  The finished program is translated to  *)
(* pairs of statically dispatched handlers.                                *)
(*                                                                         *)
(* What the Blake2 generator returns is any of Bytes and Words.  Generation *)
(* looks at two immediates, which it draws until they will do; the others  *)
(* and the shifts are left out.                                            *)
(***************************************************************************)
EXTENDS Integers, Sequences, FiniteSets

CONSTANTS Latency,       \* RANDOMX_SUPERSCALAR_LATENCY: 170
          MaxSize,       \* SUPERSCALAR_MAX_SIZE: 512
          MaxThrowaway,  \* MAX_THROWAWAY_COUNT: 256
          RegCount,      \* 8
          Displaced,     \* REG_NEEDS_DISPLACEMENT_IX: 5
          ChunkSize,     \* instructions in an unrolled chunk: 32
          Bytes,         \* what get_byte may return
          Words          \* what get_u32 may return

ASSUME SuperscalarAssumption ==
    /\ Latency \in Nat /\ MaxSize \in Nat /\ MaxThrowaway \in Nat
    /\ RegCount \in Nat \ {0}
    /\ ChunkSize \in Nat \ {0} /\ ChunkSize % 2 = 0
    /\ Bytes \subseteq Nat /\ Words \subseteq Nat

VARIABLES stage,         \* where the two loops of generate are
          buffer,        \* decode_buffer
          slot,          \* buffer_index
          instr,         \* current_instr
          mop,           \* macro_op_index
          cycle, dep,    \* cycle, dep_cycle
          top, at,       \* top_cycle, schedule_cycle
          decode_cycle, mul_count, throw_away_count,
          ports_saturated,
          busy,          \* port_busy: the <<cycle, port>> that are taken
          registers,     \* RegisterInfo of every register
          prog,
          measured,      \* instructions the loop over asic_latencies has seen
          asic           \* asic_latencies

clock == <<cycle, dep, top, at, decode_cycle, mul_count, throw_away_count, ports_saturated>>
made  == <<busy, registers, prog>>
asics == <<measured, asic>>
vars  == <<stage, buffer, slot, instr, mop, clock, made, asics>>

\* Mutant: the map ends with the target latency.
CycleMapShort == Latency

CycleMapSize == Latency + 4
LookForward  == 4
Reg  == 0 .. RegCount - 1
None == -1
Least(S) == CHOOSE x \in S : \A y \in S : x <= y

-----------------------------------------------------------------------------
(* Macro-ops and instructions.                                             *)

MacroOp(size, latency, uop1, uop2) ==
    [size |-> size, latency |-> latency, uop1 |-> uop1, uop2 |-> uop2, dependent |-> FALSE]

Alu3  == MacroOp(3, 1, {"P0", "P1", "P5"}, {})     \* SUB_RR, XOR_RR
Mov   == MacroOp(3, 1, {}, {})                     \* MOV_RR, eliminated
Mul   == MacroOp(3, 4, {"P1"}, {"P5"})             \* MUL_R, IMUL_R
Lea   == MacroOp(4, 1, {"P0", "P1"}, {})           \* LEA_SIB
Ror   == MacroOp(4, 1, {"P0", "P5"}, {})           \* ROR_RI
MulRR == MacroOp(4, 3, {"P1"}, {})                 \* IMUL_RR
MulRRDep == [MulRR EXCEPT !.dependent = TRUE]      \* IMUL_RR_DEP
AluImm   == MacroOp(7, 1, {"P0", "P1", "P5"}, {})  \* ADD_RI, XOR_RI
MovImm   == MacroOp(10, 1, {"P0", "P1", "P5"}, {}) \* MOV_RI64

Info(mops, result, dst, src) == [mops |-> mops, result |-> result, dst |-> dst, src |-> src]

\* The ScInstrInfo of an opcode; the indices are those of its macro-ops.
InfoOf(op) ==
    CASE op = "INVALID"              -> Info(<<>>, 0, 0, 0)
      [] op \in {"ISUB_R", "IXOR_R"} -> Info(<<Alu3>>, 0, 0, 0)
      [] op = "IADD_RS"              -> Info(<<Lea>>, 0, 0, 0)
      [] op = "IMUL_R"               -> Info(<<MulRR>>, 0, 0, 0)
      [] op = "IROR_C"               -> Info(<<Ror>>, 0, 0, None)
      [] op \in {"IADD_C7", "IADD_C8", "IADD_C9", "IXOR_C7", "IXOR_C8", "IXOR_C9"} ->
           Info(<<AluImm>>, 0, 0, None)
      [] op \in {"IMULH_R", "ISMULH_R"} -> Info(<<Mov, Mul, Mov>>, 1, 0, 1)
      [] op = "IMUL_RCP"             -> Info(<<MovImm, MulRRDep>>, 1, 1, None)

IsMultiplication(op) == op \in {"IMUL_R", "IMULH_R", "ISMULH_R", "IMUL_RCP"}
HighMultiply == {"IMULH_R", "ISMULH_R"}
Opcodes == {"ISUB_R", "IXOR_R", "IADD_RS", "IMUL_R", "IROR_C", "IADD_C7", "IADD_C8", "IADD_C9",
            "IXOR_C7", "IXOR_C8", "IXOR_C9", "IMULH_R", "ISMULH_R", "IMUL_RCP"}

OpGroup(op) ==
    CASE op \in {"ISUB_R", "IADD_RS"} -> "IADD_RS"
      [] op \in {"IADD_C7", "IADD_C8", "IADD_C9"} -> "IADD_C7"
      [] op \in {"IXOR_C7", "IXOR_C8", "IXOR_C9"} -> "IXOR_C7"
      [] OTHER -> op

\* ScInstr::create but for the immediate: a high multiply keeps a random group parameter, the
\* others take their source for it when they have one.
GroupParIsSource(op) == op \in {"ISUB_R", "IXOR_R", "IADD_RS", "IMUL_R", "IROR_C", "IMUL_RCP"}
CanReuse(op) == op \in HighMultiply
InitialPar(op, word) ==
    CASE op \in HighMultiply -> word
      [] op \in {"ISUB_R", "IXOR_R", "IADD_RS", "IMUL_R", "IROR_C"} -> 0
      [] OTHER -> None

Create(op, word) ==
    [op |-> op, dst |-> None, src |-> None, par |-> InitialPar(op, word)]
Null == Create("INVALID", 0)

\* The immediates that create draws in a loop, a rotation and a divisor, and
\* those it does not take.
Redrawn == {"IROR_C", "IMUL_RCP"}
Draws(op) == IF op = "IROR_C" THEN {byte % 64 : byte \in Bytes} ELSE Words
is_zero_or_power_of_2(v) == v = 0 \/ \E k \in 0 .. v : v = 2 ^ k
Refused(op, imm) == IF op = "IROR_C" THEN imm = 0 ELSE is_zero_or_power_of_2(imm)

Size(i) == Len(InfoOf(i.op).mops)
MopAt(i, k) == InfoOf(i.op).mops[k + 1]

-----------------------------------------------------------------------------
(* The decoder.                                                            *)

Buffer(index, counts) == [index |-> index, counts |-> counts]
Buffer484  == Buffer(0, <<4, 8, 4>>)
Buffer7333 == Buffer(1, <<7, 3, 3, 3>>)
Buffer3733 == Buffer(2, <<3, 7, 3, 3>>)
Buffer493  == Buffer(3, <<4, 9, 3>>)
Buffer4444 == Buffer(4, <<4, 4, 4, 4>>)
Buffer3310 == Buffer(5, <<3, 3, 10>>)
DecodeBuffers == <<Buffer484, Buffer7333, Buffer3733, Buffer493>>

\* Mutant: the balance of multiplications is looked at first.
FetchNextMulFirst(byte) ==
    CASE mul_count < decode_cycle + 1 -> Buffer4444
      [] mul_count >= decode_cycle + 1 /\ instr.op \in HighMultiply -> Buffer3310
      [] OTHER -> DecodeBuffers[(byte % 4) + 1]

FetchNext(byte) ==
    IF instr.op \in HighMultiply THEN Buffer3310
    ELSE IF mul_count < decode_cycle + 1 THEN Buffer4444
    ELSE IF instr.op = "IMUL_RCP" THEN (IF byte % 2 = 1 THEN Buffer484 ELSE Buffer493)
    ELSE DecodeBuffers[(byte % 4) + 1]

\* create_for_slot; any other size panics.
OpcodeForSlot(size, index, last, byte) ==
    CASE size = 3 -> IF last THEN <<"ISUB_R", "IXOR_R", "IMULH_R", "ISMULH_R">>[(byte % 4) + 1]
                     ELSE <<"ISUB_R", "IXOR_R">>[(byte % 2) + 1]
      [] size = 4 -> IF index = 4 /\ ~last THEN "IMUL_R"
                     ELSE <<"IROR_C", "IADD_RS">>[(byte % 2) + 1]
      [] size = 7 -> <<"IXOR_C7", "IADD_C7">>[(byte % 2) + 1]
      [] size = 8 -> <<"IXOR_C8", "IADD_C8">>[(byte % 2) + 1]
      [] size = 9 -> <<"IXOR_C9", "IADD_C9">>[(byte % 2) + 1]
      [] size = 10 -> "IMUL_RCP"

-----------------------------------------------------------------------------
(* The execution ports.                                                    *)

FreePorts(uop, c) == {p \in uop : <<c, p>> \notin busy}

\* The ports are tried in this order.
FirstPort(S) == IF "P5" \in S THEN "P5" ELSE IF "P0" \in S THEN "P0" ELSE "P1"

\* schedule_mop: the first cycle at which each micro-op finds a port.  For two
\* of them the code looks for a cycle from which schedule_uop returns the same
\* cycle for both, which is the first one with ports for both.
ScheduleMop(m, from, after) ==
    LET start == IF m.dependent /\ after > from THEN after ELSE from
        open  == {c \in start .. CycleMapSize - 1 :
                     \A uop \in {m.uop1, m.uop2} \ {{}} : FreePorts(uop, c) # {}}
    IN  IF m.uop1 = {} THEN start ELSE IF open = {} THEN None ELSE Least(open)

\* What committing a macro-op at a cycle takes.
PortsTaken(m, c) ==
    {<<c, FirstPort(FreePorts(u, c))>> : u \in {m.uop1, m.uop2} \ {{}}}

-----------------------------------------------------------------------------
(* Operand selection.                                                      *)

\* select_register: the registers are listed in increasing order.
Select(S, word) ==
    CHOOSE x \in S : Cardinality({y \in S : y < x}) = word % Cardinality(S)

Ready(c) == {x \in Reg : registers[x].latency <= c}

\* The instruction with its source, for each draw.
WithSource(i, c) ==
    IF Cardinality(Ready(c)) = 2 /\ i.op = "IADD_RS" /\ Displaced \in Ready(c)
    THEN {[i EXCEPT !.src = Displaced, !.par = Displaced]}
    ELSE {[i EXCEPT !.src = s, !.par = IF GroupParIsSource(i.op) THEN s ELSE @] :
             s \in {Select(Ready(c), word) : word \in Words}}

\* Mutant: the previous operation on the register is not looked at.
DestinationsAnyGroup(i, c) ==
    {x \in Ready(c) :
        /\ CanReuse(i.op) \/ x # i.src
        /\ i.op = "IADD_RS" => x # Displaced}

\* Mutant: a register is available whatever its latency.
DestinationsEarly(i, c) ==
    {x \in Reg :
        /\ CanReuse(i.op) \/ x # i.src
        /\ registers[x].group # OpGroup(i.op) \/ registers[x].par # i.par
        /\ i.op = "IADD_RS" => x # Displaced}

Destinations(i, c) ==
    {x \in Ready(c) :
        /\ CanReuse(i.op) \/ x # i.src
        /\ \/ throw_away_count > 0
           \/ OpGroup(i.op) # "IMUL_R"
           \/ registers[x].group # "IMUL_R"
        /\ registers[x].group # OpGroup(i.op) \/ registers[x].par # i.par
        /\ i.op = "IADD_RS" => x # Displaced}

WithDestination(i, c) ==
    {[i EXCEPT !.dst = d] : d \in {Select(Destinations(i, c), word) : word \in Words}}

-----------------------------------------------------------------------------
Init ==
    /\ stage = "fetch"
    /\ buffer = Buffer(0, <<>>)
    /\ slot = 0
    /\ instr = Null
    /\ mop = 0
    /\ cycle = 0 /\ dep = 0 /\ top = 0 /\ at = 0
    /\ decode_cycle = 0 /\ mul_count = 0 /\ throw_away_count = 0
    /\ ports_saturated = FALSE
    /\ busy = {}
    /\ registers = [x \in Reg |-> [latency |-> 0, group |-> "INVALID", par |-> None]]
    /\ prog = <<>>
    /\ measured = 0 /\ asic = [x \in Reg |-> 0]

Generating ==
    decode_cycle < Latency /\ ~ports_saturated /\ Len(prog) < MaxSize

\* The head of the outer loop.
FetchBuffer ==
    /\ stage = "fetch"
    /\ Generating
    /\ buffer' \in {FetchNext(byte) : byte \in Bytes}
    /\ slot' = 0
    /\ stage' = "slot"
    /\ UNCHANGED <<instr, mop, clock, made, asics>>

\* The tail of the outer loop.
EndBuffer ==
    /\ stage = "next"
    /\ cycle' = cycle + 1
    /\ decode_cycle' = decode_cycle + 1
    /\ stage' = "fetch"
    /\ UNCHANGED <<buffer, slot, instr, mop, dep, top, at, mul_count, throw_away_count,
                   ports_saturated, made, asics>>

\* The condition of the inner loop fails, or its first break is taken.
LeaveBuffer ==
    /\ stage = "slot"
    /\ \/ slot >= Len(buffer.counts)
       \/ mop >= Size(instr) /\ (ports_saturated \/ Len(prog) >= MaxSize)
    /\ stage' = "next"
    /\ UNCHANGED <<buffer, slot, instr, mop, clock, made, asics>>

\* The next macro-op: of a new instruction, or of one begun in an earlier slot.
NextMacroOp ==
    /\ stage = "slot"
    /\ slot < Len(buffer.counts)
    /\ \/ /\ mop >= Size(instr)
          /\ ~ports_saturated /\ Len(prog) < MaxSize
          /\ LET op(byte) == OpcodeForSlot(buffer.counts[slot + 1], buffer.index,
                                           Len(buffer.counts) = slot + 1, byte)
             IN  instr' \in {Create(op(byte), word) : byte \in Bytes, word \in Words}
          /\ mop' = 0
          /\ stage' = IF instr'.op \in Redrawn THEN "draw" ELSE "schedule"
       \/ mop < Size(instr) /\ stage' = "schedule" /\ UNCHANGED <<instr, mop>>
    /\ top' = cycle
    /\ UNCHANGED <<buffer, slot, cycle, dep, at, decode_cycle, mul_count, throw_away_count,
                   ports_saturated, made, asics>>

\* The loops of create: draw until the immediate will do.
Turn(from, to) ==
    /\ stage = from
    /\ stage' = to
    /\ UNCHANGED <<buffer, slot, instr, mop, clock, made, asics>>

AcceptDraw ==
    /\ \E imm \in Draws(instr.op) : ~Refused(instr.op, imm)
    /\ Turn("draw", "schedule")

RefuseDraw ==
    /\ \E imm \in Draws(instr.op) : Refused(instr.op, imm)
    /\ Turn("draw", "redraw")

DrawAgain == Turn("redraw", "draw")

\* The first call of schedule_mop, which only looks.
Schedule ==
    /\ stage = "schedule"
    /\ at' = ScheduleMop(MopAt(instr, mop), cycle, dep)
    /\ ports_saturated' = (ports_saturated \/ at' = None)
    /\ stage' = IF at' = None THEN "next" ELSE "source"
    /\ UNCHANGED <<buffer, slot, instr, mop, cycle, dep, top, decode_cycle, mul_count,
                   throw_away_count, made, asics>>

\* Mutant: the same macro-op is tried again.
DiscardRetries ==
    /\ stage' = "slot"
    /\ UNCHANGED <<throw_away_count, mop, instr, cycle>>

\* No operand became ready: another instruction is drawn for the slot, or,
\* after too many of them, the rest of the buffer is given up.  cycle keeps
\* the cycles waited for.
Discard ==
    /\ IF throw_away_count < MaxThrowaway
       THEN /\ throw_away_count' = throw_away_count + 1
            /\ mop' = Size(instr)
            /\ stage' = "slot"
            /\ UNCHANGED instr
       ELSE /\ instr' = Null
            /\ stage' = "next"
            /\ UNCHANGED <<throw_away_count, mop>>
    /\ cycle' = cycle + LookForward

Proceed(i, wait, to) ==
    /\ instr' = i
    /\ at' = at + wait
    /\ cycle' = cycle + wait
    /\ stage' = to
    /\ UNCHANGED <<throw_away_count, mop>>

\* select_source at the macro-op that reads the source, for up to LookForward
\* cycles; then select_destination at the one that needs the destination.
SelectSource ==
    /\ stage = "source"
    /\ LET waits == {w \in 0 .. LookForward - 1 : Ready(at + w) # {}}
       IN  \/ mop # InfoOf(instr.op).src /\ Proceed(instr, 0, "destination")
           \/ mop = InfoOf(instr.op).src /\ waits = {} /\ Discard /\ UNCHANGED at
           \/ /\ mop = InfoOf(instr.op).src /\ waits # {}
              /\ \E i \in WithSource(instr, at + Least(waits)) :
                    Proceed(i, Least(waits), "destination")
    /\ UNCHANGED <<buffer, slot, dep, top, decode_cycle, mul_count, ports_saturated, made, asics>>

SelectDestination ==
    /\ stage = "destination"
    /\ LET waits == {w \in 0 .. LookForward - 1 : Destinations(instr, at + w) # {}}
       IN  \/ mop # InfoOf(instr.op).dst /\ Proceed(instr, 0, "commit")
           \/ mop = InfoOf(instr.op).dst /\ waits = {} /\ Discard /\ UNCHANGED at
           \/ /\ mop = InfoOf(instr.op).dst /\ waits # {}
              /\ \E i \in WithDestination(instr, at + Least(waits)) :
                    Proceed(i, Least(waits), "commit")
    /\ UNCHANGED <<buffer, slot, dep, top, decode_cycle, mul_count, ports_saturated, made, asics>>

RegisterAfter(ready) == [latency |-> ready, group |-> OpGroup(instr.op), par |-> instr.par]

\* The macro-op takes its ports; the last one completes the instruction.
Place(m, start) ==
    LET ready == start + m.latency
        last  == mop + 1 >= Size(instr)
    IN  /\ busy' = busy \union PortsTaken(m, start)
        /\ at' = start
        /\ dep' = ready
        /\ registers' = IF mop = InfoOf(instr.op).result
                        THEN [registers EXCEPT ![instr.dst] = RegisterAfter(ready)]
                        ELSE registers
        /\ slot' = slot + 1
        /\ mop' = mop + 1
        /\ ports_saturated' = (ports_saturated \/ start >= Latency)
        /\ cycle' = top
        /\ prog' = IF last THEN Append(prog, instr) ELSE prog
        /\ mul_count' = IF last /\ IsMultiplication(instr.op) THEN mul_count + 1 ELSE mul_count
        /\ stage' = "slot"

\* The second call of schedule_mop, from the cycle the operands are ready.
Commit ==
    /\ stage = "commit"
    /\ throw_away_count' = 0
    /\ LET m     == MopAt(instr, mop)
           start == ScheduleMop(m, at, at)
       IN  IF start # None THEN Place(m, start)
           ELSE /\ ports_saturated' = TRUE
                /\ stage' = "next"
                /\ UNCHANGED <<slot, mop, cycle, dep, at, mul_count, made>>
    /\ UNCHANGED <<buffer, instr, top, decode_cycle, asics>>

Finish ==
    /\ stage = "fetch"
    /\ ~Generating
    /\ stage' = "measure"
    /\ UNCHANGED <<buffer, slot, instr, mop, clock, made, asics>>

\* Mutant: the chain through the source is not one longer.
AsicAfterSource(i) ==
    LET viaDst == asic[i.dst] + 1
        viaSrc == IF i.src = None \/ i.src = i.dst THEN 0 ELSE asic[i.src]
    IN  IF viaDst >= viaSrc THEN viaDst ELSE viaSrc

AsicAfter(i) ==
    LET viaDst == asic[i.dst] + 1
        viaSrc == IF i.src = None \/ i.src = i.dst THEN 0 ELSE asic[i.src] + 1
    IN  IF viaDst >= viaSrc THEN viaDst ELSE viaSrc

\* One iteration of the loop over the finished program.
MeasureAsic ==
    /\ stage = "measure"
    /\ measured < Len(prog)
    /\ LET i == prog[measured + 1] IN asic' = [asic EXCEPT ![i.dst] = AsicAfter(i)]
    /\ measured' = measured + 1
    /\ UNCHANGED <<stage, buffer, slot, instr, mop, clock, made>>

EndMeasure ==
    /\ stage = "measure"
    /\ measured = Len(prog)
    /\ stage' = "done"
    /\ UNCHANGED <<buffer, slot, instr, mop, clock, made, asics>>

Returned ==
    /\ stage = "done"
    /\ UNCHANGED vars

Next ==
    \/ FetchBuffer \/ EndBuffer \/ LeaveBuffer \/ NextMacroOp
    \/ AcceptDraw \/ RefuseDraw \/ DrawAgain
    \/ Schedule \/ SelectSource \/ SelectDestination \/ Commit
    \/ Finish \/ MeasureAsic \/ EndMeasure \/ Returned

Spec == Init /\ [][Next]_vars

\* generate is one sequential call, and the Blake2 generator does not refuse
\* it for ever an immediate that will do.
FairSpec == Spec /\ WF_vars(Next) /\ SF_vars(AcceptDraw)

-----------------------------------------------------------------------------
(* What is made of the finished program.                                   *)

Indices == 0 .. Len(prog) - 1
At(k)   == prog[k + 1]

\* The first register with the greatest latency.
AddressReg ==
    CHOOSE x \in Reg : \A y \in Reg : asic[y] < asic[x] \/ (asic[y] = asic[x] /\ x <= y)

(* ScExecInstr: opcode numbers, byte offsets and handlers of pairs.        *)
WordSize == 8
PointerSize == 8
Operations == <<"sub", "xor", "add_shifted", "mul", "ror", "add_imm", "xor_imm",
                "mulh", "smulh", "mul_rcp">>

ExecOpcode(op) ==
    CASE op = "ISUB_R" -> 0 [] op = "IXOR_R" -> 1 [] op = "IADD_RS" -> 2 [] op = "IMUL_R" -> 3
      [] op = "IROR_C" -> 4
      [] op \in {"IADD_C7", "IADD_C8", "IADD_C9"} -> 5
      [] op \in {"IXOR_C7", "IXOR_C8", "IXOR_C9"} -> 6
      [] op = "IMULH_R" -> 7 [] op = "ISMULH_R" -> 8 [] op = "IMUL_RCP" -> 9

ExecInstr(i) ==
    [opcode |-> ExecOpcode(i.op), dst_offset |-> i.dst * WordSize,
     src_offset |-> IF i.src < 0 THEN 0 ELSE i.src * WordSize]

\* Mutant: the opcodes of a pair are exchanged.
PairHandlerOffsetSwapped(k) ==
    IF k % 2 = 0 /\ k + 1 \in Indices
    THEN ((ExecOpcode(At(k + 1).op) * 10 + ExecOpcode(At(k).op)) * PointerSize) % 2^16
    ELSE 0

\* chunks_exact_mut(2): the first of each pair knows the handler, a u16.
PairHandlerOffset(k) ==
    IF k % 2 = 0 /\ k + 1 \in Indices
    THEN ((ExecOpcode(At(k).op) * 10 + ExecOpcode(At(k + 1).op)) * PointerSize) % 2^16
    ELSE 0

\* PAIR_HANDLERS, in row-major order.
PairHandlers == [n \in 0 .. 99 |-> <<n \div 10, n % 10>>]

\* What a handler for an opcode does with an instruction: only some read the source.
Effect(opcode, e) ==
    [do |-> Operations[opcode + 1], dst |-> e.dst_offset \div WordSize,
     src |-> IF opcode \in {0, 1, 2, 3, 7, 8} THEN e.src_offset \div WordSize ELSE None]

\* execute_compact_unchecked: whole chunks, then pairs, then a single one.
Chunked == (Len(prog) \div ChunkSize) * ChunkSize
Paired  == Chunked + ((Len(prog) - Chunked) \div 2) * 2
HandlerOf(k) ==
    IF k < Chunked
    THEN LET first == (k \div ChunkSize) * ChunkSize + ((k % ChunkSize) \div 2) * 2
         IN  PairHandlers[PairHandlerOffset(first) \div PointerSize][k - first + 1]
    ELSE IF k < Paired
    THEN LET first == Chunked + ((k - Chunked) \div 2) * 2
         IN  PairHandlers[PairHandlerOffset(first) \div PointerSize][k - first + 1]
    ELSE ExecOpcode(At(k).op)

ExecuteCompact == [k \in Indices |-> Effect(HandlerOf(k), ExecInstr(At(k)))]

\* execute_reference
OperationOf(op) ==
    CASE op = "ISUB_R" -> "sub" [] op = "IXOR_R" -> "xor" [] op = "IADD_RS" -> "add_shifted"
      [] op = "IMUL_R" -> "mul" [] op = "IROR_C" -> "ror"
      [] op \in {"IADD_C7", "IADD_C8", "IADD_C9"} -> "add_imm"
      [] op \in {"IXOR_C7", "IXOR_C8", "IXOR_C9"} -> "xor_imm"
      [] op = "IMULH_R" -> "mulh" [] op = "ISMULH_R" -> "smulh" [] op = "IMUL_RCP" -> "mul_rcp"

ExecuteReference ==
    [k \in Indices |-> [do |-> OperationOf(At(k).op), dst |-> At(k).dst, src |-> At(k).src]]

-----------------------------------------------------------------------------
InstrType ==
    [op : Opcodes \union {"INVALID"}, dst : Reg \union {None}, src : Reg \union {None},
     par : Words \union Reg \union {None, 0}]

TypeOK ==
    /\ stage \in {"fetch", "slot", "draw", "redraw", "schedule", "source", "destination", "commit", "next",
                "measure", "done"}
    /\ slot \in 0 .. Len(buffer.counts)
    /\ instr \in InstrType
    /\ mop \in 0 .. 3
    /\ cycle \in Nat /\ dep \in Nat /\ top \in 0 .. cycle /\ at \in Nat \union {None}
    /\ decode_cycle \in 0 .. Latency
    /\ mul_count \in 0 .. Len(prog)
    /\ throw_away_count \in 0 .. MaxThrowaway
    /\ busy \subseteq (0 .. CycleMapSize - 1) \X {"P0", "P1", "P5"}
    /\ \A x \in Reg : registers[x] \in [latency : Nat, group : Opcodes \union {"INVALID"},
                                        par : Words \union Reg \union {None, 0}]
    /\ Len(prog) <= MaxSize
    /\ measured \in 0 .. Len(prog)
    /\ asic \in [Reg -> 0 .. Len(prog)]

(***************************************************************************)
(* The simulated decoder is never misled: each macro-op meets a slot of    *)
(* its own size.  The rest of a high multiply needs two slots of 3 and the *)
(* product of IMUL_RCP one of 4, at the head of the next buffer, whichever *)
(* rule of fetch_next chose it and whatever was thrown away before.        *)
(***************************************************************************)
SlotSize(op) ==
    CASE op \in {"IADD_C8", "IXOR_C8"} -> {8} [] op \in {"IADD_C9", "IXOR_C9"} -> {9}
      [] OTHER -> {MopAt(Create(op, 0), k).size : k \in 0 .. Size(Create(op, 0)) - 1}

SlotFits ==
    stage = "schedule" =>
        IF Size(instr) = 1 THEN buffer.counts[slot + 1] \in SlotSize(instr.op)
        ELSE buffer.counts[slot + 1] = MopAt(instr, mop).size

(***************************************************************************)
(* The second schedule_mop always finds its ports: operands are waited for *)
(* until the latest latency at most, before the end of the cycle map, and  *)
(* its last cycles are free as long as a new macro-op may come.  So the    *)
(* break that follows it, which would drop an instruction whose operands   *)
(* have been drawn, is never taken.                                        *)
(***************************************************************************)
CommitFindsPorts ==
    stage = "commit" => ScheduleMop(MopAt(instr, mop), at, at) # None

(***************************************************************************)
(* The instructions of a program waste no work: operands are registers,    *)
(* no subtraction or exclusive-or of a register with itself, no IADD_RS to *)
(* the register that would need a displacement, and two instructions in a  *)
(* row on a register are never of one group with one source, which could   *)
(* cancel or merge (high multiplies excepted).                             *)
(***************************************************************************)
NoWastedWork ==
    stage = "done" => \A k \in Indices :
        LET i == At(k)
        IN  /\ i.dst \in Reg
            /\ i.src \in (IF InfoOf(i.op).src = None THEN {None} ELSE Reg)
            /\ i.op \notin HighMultiply => i.src # i.dst
            /\ i.op = "IADD_RS" => i.dst # Displaced
            /\ \A j \in 0 .. k - 1 :
                  /\ At(j).dst = i.dst
                  /\ \A m \in j + 1 .. k - 1 : At(m).dst # i.dst
                  /\ OpGroup(At(j).op) = OpGroup(i.op)
                  /\ i.op \notin HighMultiply
                  => At(j).src # i.src

\* A result is ready after the old value of its register and after its
\* source, even for a high multiply, whose destination was selected up to
\* LOOK_FORWARD_CYCLES - 1 cycles ahead and one macro-op earlier.
ResultsAfterOperands ==
    [][ \A x \in Reg : registers'[x] # registers[x] =>
            /\ registers'[x].latency > registers[x].latency
            /\ instr'.src # None =>
                  registers'[x].latency > registers[instr'.src].latency ]_vars

(***************************************************************************)
(* The register that addresses the cache ends a longest chain of dependent *)
(* instructions, an instruction depending on the last writers of its two   *)
(* registers: asic_latencies, kept per register, measures such chains.     *)
(***************************************************************************)
LastWriter(x, k) ==   \* the last instruction before k that writes x, if any
    {j \in 0 .. k - 1 : At(j).dst = x /\ \A m \in j + 1 .. k - 1 : At(m).dst # x}

AddressOnLongestChain ==
    stage = "done" /\ prog # <<>> =>
        LET needs == [k \in Indices |->
                         LastWriter(At(k).dst, k) \union LastWriter(At(k).src, k)]
            IsChain(S) == \A k \in S : \/ \A j \in S : k <= j
                                       \/ \E j \in S \intersect needs[k] :
                                             \A m \in S : m <= j \/ k <= m
            chains == {S \in SUBSET Indices : IsChain(S)}
        IN  \E last \in LastWriter(AddressReg, Len(prog)) :
            \E T \in chains :
               /\ last \in T /\ \A k \in T : k <= last
               /\ \A S \in chains : Cardinality(S) <= Cardinality(T)

\* The program dispatched in pairs does what its instructions say, each once,
\* in order, with its own registers.
DispatchFaithful == stage = "done" => ExecuteCompact = ExecuteReference

\* generate returns, if the generator's draws are fair: throwing instructions
\* away does not go on for ever, whatever is drawn.
Terminates == <>(stage = "done")

=============================================================================
