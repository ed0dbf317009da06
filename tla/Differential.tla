---------------------------- MODULE Differential ----------------------------
(***************************************************************************)
(* The reference and the optimized interpreter run in lockstep on the same *)
(* programs (differential_audit and run_differential, lib.rs; the compact  *)
(* side is also what run and calculate_hash_impl do).                      *)
(*                                                                         *)
(* The two virtual machines run on one thread and share its floating-point *)
(* control register: a machine runs on the mode the other one left.  Seeds *)
(* are hashes, so any program and any entropy may follow any state.        *)
(***************************************************************************)
EXTENDS CompactIsa, ReferenceIsa

CONSTANTS ProgramCount, ProgramSize, Iterations,
          Feeds                 \* what a hash may be made of, by name

ASSUME DifferentialAssumption ==
    /\ ProgramCount \in Nat \ {0}
    /\ ProgramSize \in Nat \ {0}
    /\ Iterations \in Nat \ {0}
    /\ \A name \in DOMAIN Feeds :
          /\ \A k \in 1 .. ProgramCount * ProgramSize :
                Feeds[name].instrs[k] \subseteq RawInstr      \* the k-th instruction
          /\ Feeds[name].scratchpads                        \* results of init_scratchpad
                \subseteq [0 .. ScratchWords - 1 -> Word]
          /\ Feeds[name].entropies \subseteq Entropy        \* entropy of a program

VARIABLES feed,         \* what this hash is made of
          stage,        \* "start", "decode", "prepare", "execute", "finished", "hashed"
          entropy,      \* of the current program
          programs,     \* programs begun
          iteration,    \* iterations left of the current program
          usage,        \* register_usage, of each decoder
          program,      \* decoded instructions, of each decoder
          vm,           \* the two machines
          addr          \* sp_addr_0 and sp_addr_1, of each machine

vars == <<feed, stage, entropy, programs, iteration, usage, program, vm, addr>>

Side == {"reference", "compact"}
Both(value) == [s \in Side |-> value]

\* A machine after the other one has left its mode in the control register.
OnHost(machine, host) == [machine EXCEPT !.host = host]

-----------------------------------------------------------------------------
NoUsage == [i \in Reg |-> -1]

\* The caller of the hash may be in any rounding mode.
Init ==
    /\ feed \in DOMAIN Feeds
    /\ stage = "start"
    /\ entropy \in Feeds[feed].entropies
    /\ programs = 0
    /\ iteration = 0
    /\ usage = Both(NoUsage)
    /\ program = Both(<<>>)
    /\ \E scratchpad \in Feeds[feed].scratchpads, caller \in 0 .. 3 :
           vm = Both(OnHost(NewVm(scratchpad), caller))
    /\ addr = Both(<<0, 0>>)

\* Mutant: only the field of the Vm is reset.
ResetRoundingModeFieldOnly(machine) == [machine EXCEPT !.mode = 0]

\* reset_rounding_mode
ResetRoundingMode(machine) == SetRoundingMode(machine, 0)

\* init_scratchpad is in Init; reset_rounding_mode of both machines.
Start ==
    /\ stage = "start"
    /\ stage' = "decode"
    /\ programs' = 1
    /\ vm' = [s \in Side |-> ResetRoundingMode(vm[s])]
    /\ UNCHANGED <<feed, entropy, iteration, usage, program, addr>>

\* decode_instruction of both decoders on the next word of the program.
Decode ==
    /\ stage = "decode"
    /\ Len(program.compact) < ProgramSize
    /\ \E raw \in Feeds[feed].instrs[(programs - 1) * ProgramSize + Len(program.compact) + 1] :
         LET index == Len(program.compact)
             r == ReferenceDecode(raw, index, usage.reference)
             c == CompactDecode(raw, index, usage.compact)
         IN  /\ usage' = [reference |-> r.usage, compact |-> c.usage]
             /\ program' = [reference |-> Append(program.reference, r.instr),
                            compact |-> Append(program.compact, c.instr)]
    /\ UNCHANGED <<feed, stage, entropy, programs, iteration, vm, addr>>

\* The init_vm of each, and the first scratchpad addresses.
StartRun ==
    /\ stage = "decode"
    /\ Len(program.compact) = ProgramSize
    /\ stage' = "prepare"
    /\ iteration' = Iterations
    /\ vm' = [reference |-> ReferenceInit(vm.reference, entropy),
              compact |-> CompactInit(vm.compact, entropy)]
    /\ addr' = [s \in Side |-> <<vm'[s].mx % HalfRange, vm'[s].ma % HalfRange>>]
    /\ UNCHANGED <<feed, entropy, programs, usage, program>>

\* prepare_iteration of both.
Prepare ==
    /\ stage = "prepare"
    /\ stage' = "execute"
    /\ addr' = [s \in Side |-> SpAddresses(vm[s], addr[s][1], addr[s][2])]
    /\ vm' = [s \in Side |-> PrepareIteration(vm[s], addr'[s])]
    /\ UNCHANGED <<feed, entropy, programs, iteration, usage, program>>

\* One instruction of the reference, the same of the compact machine, and the
\* increments of both counters.
Execute ==
    /\ stage = "execute"
    /\ vm.reference.pc < ProgramSize
    /\ LET pc == vm.reference.pc
           step(machine) == [machine EXCEPT !.pc = @ + 1]
           r == ReferenceExec(vm.reference, program.reference[pc + 1])
           c == CompactExec(OnHost(vm.compact, r.host), program.compact[pc + 1])
       IN  vm' = [reference |-> OnHost(step(r), c.host), compact |-> step(c)]
    /\ UNCHANGED <<feed, stage, entropy, programs, iteration, usage, program, addr>>

\* finish_iteration of both; the addresses of the next one start from zero.
Finish ==
    /\ stage = "execute"
    /\ vm.reference.pc >= ProgramSize
    /\ iteration' = iteration - 1
    /\ stage' = IF iteration > 1 THEN "prepare" ELSE "finished"
    /\ vm' = [s \in Side |-> FinishIteration(vm[s], addr[s])]
    /\ addr' = Both(<<0, 0>>)
    /\ UNCHANGED <<feed, entropy, programs, usage, program>>

\* The registers are hashed into the seed of the next program.
NextProgram ==
    /\ stage = "finished"
    /\ programs < ProgramCount
    /\ stage' = "decode"
    /\ programs' = programs + 1
    /\ entropy' \in Feeds[feed].entropies
    /\ usage' = Both(NoUsage)
    /\ program' = Both(<<>>)
    /\ UNCHANGED <<feed, iteration, vm, addr>>

\* hash_aes_1rx4: any function of the scratchpad.
FinalHash(scratchpad) == [i \in FloatReg |-> <<scratchpad[2 * i], scratchpad[2 * i + 1]>>]

\* The hash of the reference scratchpad goes to the registers of both machines,
\* which the result is a hash of.
FinishHash ==
    /\ stage = "finished"
    /\ programs = ProgramCount
    /\ stage' = "hashed"
    /\ vm' = [s \in Side |-> [vm[s] EXCEPT !.a = FinalHash(vm.reference.sp)]]
    /\ UNCHANGED <<feed, entropy, programs, iteration, usage, program, addr>>

Returned == stage = "hashed" /\ UNCHANGED vars

Next ==
    \/ Start \/ Decode \/ StartRun \/ Prepare \/ Execute \/ Finish \/ NextProgram
    \/ FinishHash \/ Returned

Spec == Init /\ [][Next]_vars

-----------------------------------------------------------------------------
(* Properties.                                                             *)

\* After every instruction and every iteration the two machines agree on what
\* assert_vm_state compares, and on the scratchpad; the decoders have recorded
\* the same last uses.
Agreement ==
    /\ [vm.reference EXCEPT !.host = 0] = [vm.compact EXCEPT !.host = 0]
    /\ usage.reference = usage.compact

\* While a program runs the control register of the thread holds the mode of
\* both machines, whatever the caller had and whoever ran last: "nearest"
\* operations of the compact machine and all those of the reference one rely
\* on it.
HostModeCurrent ==
    stage # "start" => \A s \in Side : vm[s].host = vm[s].mode

\* What unchecked accesses take for granted.  Before an instruction is executed,
\* the operands of the reference machine are of the kinds its effect does not
\* panic on, the offsets of the compact one satisfy its debug assertions, and the
\* mode that rounding_mode transmutes into an enumeration is below four.
OperandsInRange ==
    stage = "execute" /\ vm.reference.pc < ProgramSize =>
        /\ NeverPanics(program.reference[vm.reference.pc + 1])
        /\ AccessesAsserted(vm.compact, program.compact[vm.compact.pc + 1])
        /\ \A s \in Side : vm[s].mode \in 0 .. 3

\* Scratchpad lines and dataset items an iteration touches are whole and exist:
\* the unchecked scratch(addr + i), and dataset_read, which in light mode would
\* silently derive an item that no dataset has.
LinesInRange ==
    stage = "execute" =>
        /\ \A s \in Side, k \in 1 .. 2 :
               /\ addr[s][k] % MaxReg = 0
               /\ addr[s][k] + MaxReg <= ScratchWords
        /\ \A s \in Side :
               /\ DatasetAddress(vm[s]) % LineSize = 0
               /\ DatasetAddress(vm[s]) \div LineSize < BaseSize \div LineSize + ExtraItems

\* Every access that the two interpreters make without a check is in range.
AccessesSafe == OperandsInRange /\ LinesInRange

\* The multiplier an IMUL_RCP was decoded to is the reciprocal RandomX defines:
\* the largest 2^x / divisor that is a word, although the loop of
\* randomx_reciprocal never forms 2^x.
ReciprocalExact ==
    \A k \in DOMAIN program.reference :
        LET i == program.reference[k]
        IN  i.reciprocal # 0 =>
              /\ i.reciprocal \in WordRange \div 2 .. WordRange - 1
              /\ \E x \in Bits .. Bits + HalfBits : i.reciprocal = Pow2[x] \div (i.imm % HalfRange)
=============================================================================
