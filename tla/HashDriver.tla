----------------------------- MODULE HashDriver -----------------------------
(***************************************************************************)
(* A complete hash on a Vm that may have been used before, on a thread     *)
(* whose floating-point control register belongs to the caller             *)
(* (calculate_hash_impl and run of randomx-sp1/src/lib.rs;                 *)
(* HostRoundingModeGuard, calculate_hash, run and init_vm of               *)
(* randomx-core/src/vm.rs; dataset_read of memory.rs).                     *)
(*                                                                         *)
(* What a field holds is abstracted to what it was computed from: a set of *)
(* sources, each the input of a call, the key of a memory, or the mode of  *)
(* a caller.  A step gives what it writes the sources of all it reads.     *)
(* This is the native build: the RISC-V guest has no control register.     *)
(***************************************************************************)
EXTENDS Integers

CONSTANTS Threads,
          Vms,                  \* Vm values; a call holds one as &mut
          Memories,             \* VmMemory::light of a key, or NoMemory
          NoMemory,             \* VmMemory::no_memory
          HostModes,            \* rounding modes, 0 is Nearest
          ProgramCount,         \* RANDOMX_PROGRAM_COUNT: 8
          Iterations,           \* RANDOMX_PROGRAM_ITERATIONS: 2048
          MaxCalls              \* bound: calls in a behaviour

ASSUME DriverAssumption ==
    /\ ProgramCount \in Nat \ {0} /\ Iterations \in Nat \ {0} /\ MaxCalls \in Nat
    /\ 0 \in HostModes

VARIABLES vm,           \* each Vm
          host,         \* the control register of each thread
          job,          \* the call of each thread
          last,         \* how the last call of each thread ended
          calls         \* calls begun

vars == <<vm, host, job, last, calls>>

\* Sources.
Caller   == <<"caller", 0>>
Input(n) == <<"input", n>>
FromMemory(m) == IF m = NoMemory THEN {} ELSE {<<"memory", m>>}

Registers == {"r", "f", "e", "a"}
\* The fields of a Vm other than its memory and its rounding mode.
Fields == Registers \cup {"scratchpad", "pc", "mem_reg", "config", "dataset_offset"}

Mode(m, sources) == [mode |-> m, from |-> sources]

\* Every field of a new Vm is zero.
new_vm(memory) == [mem |-> memory, at |-> [x \in Fields |-> {}], rounding_mode |-> Mode(0, {})]

Idle == [stage |-> "idle", vm |-> "none", input |-> 0, guard |-> Mode(0, {}), seed |-> {},
         programs |-> 0, iterations |-> 0]
NoEnd == [kind |-> "none", memory |-> "none", input |-> 0, from |-> {}]

Init ==
    /\ \E memory \in [Vms -> Memories] : vm = [v \in Vms |-> new_vm(memory[v])]
    /\ host \in [Threads -> {Mode(m, {Caller}) : m \in HostModes}]
    /\ job = [t \in Threads |-> Idle]
    /\ last = [t \in Threads |-> NoEnd]
    /\ calls = 0

-----------------------------------------------------------------------------
(* The steps of a call of thread t on its Vm.                              *)

Sources(v, fields) == UNION {vm[v].at[x] : x \in fields}

\* The fields of Vm v, some of them given new sources.
Written(v, fields, sources) == [x \in Fields |-> IF x \in fields THEN sources ELSE vm[v].at[x]]

Stage(t, from, to) == job[t].stage = from /\ job' = [job EXCEPT ![t].stage = to]

\* HostRoundingModeGuard::capture, and the length of the scratchpad asserted.
capture(t, v) ==
    /\ job[t].stage = "idle" /\ calls < MaxCalls
    /\ \A u \in Threads : job[u].vm # v
    /\ calls' = calls + 1
    /\ job' = [job EXCEPT ![t] = [Idle EXCEPT !.stage = "captured", !.vm = v,
                                              !.input = calls + 1, !.guard = host[t]]]
    /\ UNCHANGED <<vm, host, last>>

\* init_scratchpad on the hash of the input overwrites the whole scratchpad
\* and returns the seed of the first program.
init_scratchpad(t) ==
    LET v == job[t].vm
    IN  /\ job[t].stage = "captured"
        /\ job' = [job EXCEPT ![t].stage = "filled", ![t].seed = {Input(job[t].input)}]
        /\ vm' = [vm EXCEPT ![v].at = Written(v, {"scratchpad"}, {Input(job[t].input)})]
        /\ UNCHANGED <<host, last, calls>>

\* Mutant: the control register is left as the caller had it.
reset_rounding_mode_field_only(t) ==
    /\ Stage(t, "filled", "seeded")
    /\ vm' = [vm EXCEPT ![job[t].vm].rounding_mode = Mode(0, {})]
    /\ UNCHANGED <<host, last, calls>>

reset_rounding_mode(t) ==
    /\ Stage(t, "filled", "seeded")
    /\ vm' = [vm EXCEPT ![job[t].vm].rounding_mode = Mode(0, {})]
    /\ host' = [host EXCEPT ![t] = Mode(0, {})]
    /\ UNCHANGED <<last, calls>>

\* Mutant: the integer registers keep what the last program left.
init_vm_keeps_r(t) ==
    LET v == job[t].vm
        entropy == Written(v, {"a", "mem_reg", "config", "dataset_offset"}, job[t].seed)
    IN  /\ job[t].stage = "seeded"
        /\ job' = [job EXCEPT ![t].stage = "iterate", ![t].programs = @ + 1, ![t].iterations = 0]
        /\ vm' = [vm EXCEPT ![v].at = entropy]
        /\ UNCHANGED <<host, last, calls>>

\* The program of the seed, and init_vm on its entropy.
init_vm(t) ==
    LET v == job[t].vm
        entropy == Written(v, {"a", "mem_reg", "config", "dataset_offset"}, job[t].seed)
    IN  /\ job[t].stage = "seeded"
        /\ job' = [job EXCEPT ![t].stage = "iterate", ![t].programs = @ + 1, ![t].iterations = 0]
        /\ vm' = [vm EXCEPT ![v].at = [entropy EXCEPT !["r"] = {}]]
        /\ UNCHANGED <<host, last, calls>>

\* prepare_iteration: the addresses come from mem_reg (in the first iteration)
\* and from two registers; r is mixed with the scratchpad, f and e are loaded.
prepare_iteration(t) ==
    LET v == job[t].vm
        loaded == Sources(v, {"r", "scratchpad", "mem_reg", "config"})
    IN  /\ Stage(t, "iterate", "execute")
        /\ vm' = [vm EXCEPT ![v].at = [Written(v, {"r", "f", "e"}, loaded) EXCEPT !["pc"] = {}]]
        /\ UNCHANGED <<host, last, calls>>

\* The instructions: any of them reads registers, the scratchpad, the masks
\* and a rounding mode, and writes r, f, e, the scratchpad and pc; CFROUND
\* writes the mode of the Vm and the control register.
execute(t) ==
    LET v == job[t].vm
        read == Sources(v, Registers \cup {"scratchpad", "config", "pc"})
                  \cup vm[v].rounding_mode.from \cup host[t].from
    IN  /\ Stage(t, "execute", "finish")
        /\ \E m \in HostModes :
             /\ vm' = [vm EXCEPT
                         ![v].at = Written(v, {"r", "f", "e", "scratchpad", "pc"}, read),
                         ![v].rounding_mode = Mode(m, read)]
             /\ host' = [host EXCEPT ![t] = Mode(m, read)]
        /\ UNCHANGED <<last, calls>>

\* finish_iteration: the dataset item of the memory is mixed into r, the
\* registers are stored.  (The compact run keeps mx and ma in locals until it
\* returns; no one else reads them before.)
finish_iteration(t) ==
    LET v == job[t].vm
        mixed == Sources(v, {"r", "f", "e", "scratchpad", "mem_reg", "config", "dataset_offset"})
                   \cup FromMemory(vm[v].mem)
        more == job[t].iterations + 1 < Iterations
    IN  /\ job[t].stage = "finish"
        /\ vm' = [vm EXCEPT ![v].at = Written(v, {"r", "f", "scratchpad", "mem_reg"}, mixed)]
        /\ job' = [job EXCEPT ![t].iterations = @ + 1,
                              ![t].stage = IF more THEN "iterate" ELSE "ran"]
        /\ UNCHANGED <<host, last, calls>>

\* After all programs but the last, the registers are hashed into a seed.
next_seed(t) ==
    /\ job[t].stage = "ran" /\ job[t].programs < ProgramCount
    /\ job' = [job EXCEPT ![t].stage = "seeded", ![t].seed = Sources(job[t].vm, Registers)]
    /\ UNCHANGED <<vm, host, last, calls>>

\* Dropping the guard, on return or while unwinding; the Vm is released.
Drop(t, end) ==
    /\ host' = [host EXCEPT ![t] = job[t].guard]
    /\ job' = [job EXCEPT ![t] = Idle]
    /\ last' = [last EXCEPT ![t] = end]

\* The hash of the scratchpad replaces group A, and the registers are hashed.
finish_hash(t) ==
    LET v == job[t].vm
        at == Written(v, {"a"}, vm[v].at["scratchpad"])
    IN  /\ job[t].stage = "ran" /\ job[t].programs = ProgramCount
        /\ vm' = [vm EXCEPT ![v].at = at]
        /\ Drop(t, [kind |-> "digest", memory |-> vm[v].mem, input |-> job[t].input,
                    from |-> UNION {at[x] : x \in Registers}])
        /\ UNCHANGED calls

\* A panic anywhere in the call unwinds through the guard.
unwind(t) ==
    /\ job[t].stage # "idle"
    /\ Drop(t, [NoEnd EXCEPT !.kind = "panic"])
    /\ UNCHANGED <<vm, calls>>

\* Between its calls a thread's mode may change: the caller sets it, or
\* differential_audit, which has no guard, leaves that of its last program.
set_mode(t) ==
    /\ job[t].stage = "idle"
    /\ \E m \in HostModes : host' = [host EXCEPT ![t] = Mode(m, {Caller})]
    /\ UNCHANGED <<vm, job, last, calls>>

\* What a call does next, apart from panicking.
Proceed(t) ==
    \/ init_scratchpad(t) \/ reset_rounding_mode(t) \/ init_vm(t) \/ prepare_iteration(t)
    \/ execute(t) \/ finish_iteration(t) \/ next_seed(t) \/ finish_hash(t)

Next == \E t \in Threads : Proceed(t) \/ unwind(t) \/ set_mode(t) \/ \E v \in Vms : capture(t, v)

Spec == Init /\ [][Next]_vars

-----------------------------------------------------------------------------

\* What the caller sees: a digest is right when it was computed from the
\* input and the memory and from nothing else.
Outcome(end) ==
    CASE end.kind = "digest" ->
           IF end.from = {Input(end.input)} \cup FromMemory(end.memory)
           THEN [vm |-> end.memory, input |-> end.input]
           ELSE [vm |-> "wrong", input |-> 0]
      [] OTHER -> [vm |-> end.kind, input |-> 0]

Service == INSTANCE HashService WITH
    memory  <- [v \in Vms |-> vm[v].mem],
    current <- [t \in Threads |-> [vm |-> job[t].vm, input |-> job[t].input]],
    outcome <- [t \in Threads |-> Outcome(last[t])],
    mode    <- [t \in Threads |-> IF job[t].stage = "idle" THEN host[t].mode ELSE job[t].guard.mode]

\* A hash on a Vm used before, after a panic or on another thread, returns
\* the digest of its memory and input, and neither a return nor an unwinding
\* panic leaks a rounding mode into the caller (HostRoundingModeGuard).
ImplementsService == Service!Spec

\* While programs run, the control register of the thread is in the mode the
\* Vm records, whatever the other threads do: in mode 0 the interpreter leaves
\* the arithmetic to the host.
HostFollowsVm ==
    \A t \in Threads :
        job[t].stage \notin {"idle", "captured", "filled"} =>
            host[t].mode = vm[job[t].vm].rounding_mode.mode
=============================================================================
