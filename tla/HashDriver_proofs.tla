------------------------- MODULE HashDriver_proofs -------------------------
(***************************************************************************)
(* A hash on a used Vm returns what HashService promises, for any number   *)
(* of threads, Vms, programs and iterations, and however many calls have   *)
(* panicked before.                                                        *)
(***************************************************************************)
EXTENDS HashDriver, TLAPS

Stages == {"idle", "captured", "filled", "seeded", "iterate", "execute", "finish", "ran"}
Running == {"iterate", "execute", "finish", "ran"}

\* Everything a field can have been computed from.
Source == {Caller} \cup {Input(n) : n \in Nat} \cup {<<"memory", m>> : m \in Memories}

ModeType == [mode : HostModes, from : SUBSET Source]
VmType   == [mem : Memories, at : [Fields -> SUBSET Source], rounding_mode : ModeType]
JobType  == [stage : Stages, vm : Vms \cup {"none"}, input : Nat, guard : ModeType,
             seed : SUBSET Source, programs : Nat, iterations : Nat]

\* What a call may draw on: its input and the memory of its Vm.
Given(t)   == {Input(job[t].input)}
Allowed(t) == Given(t) \cup FromMemory(vm[job[t].vm].mem)

\* A field of the Vm of thread t.
Of(t, x) == vm[job[t].vm].at[x]

-----------------------------------------------------------------------------
(* The inductive invariant.                                                *)

TypeOK ==
    /\ vm \in [Vms -> VmType]
    /\ host \in [Threads -> ModeType]
    /\ job \in [Threads -> JobType]
    /\ DOMAIN last = Threads
    /\ calls \in Nat

\* A thread outside a call holds nothing; a Vm serves one call at a time.
Ownership ==
    \A t \in Threads :
        /\ job[t].stage = "idle" => job[t] = Idle
        /\ job[t].stage # "idle" => job[t].vm \in Vms /\ job[t].input \in 1 .. calls
        /\ \A u \in Threads :
              t # u /\ job[t].stage # "idle" /\ job[u].stage # "idle" => job[t].vm # job[u].vm

\* Where each field of a Vm in use comes from, by the stage of the call: what
\* an earlier call left is overwritten before it is read.
Provenance(t) ==
    /\ job[t].stage \in {"filled", "seeded"} =>
          Given(t) \subseteq job[t].seed /\ job[t].seed \subseteq Allowed(t)
    /\ job[t].stage \in {"filled", "seeded"} \cup Running =>
          Given(t) \subseteq Of(t, "scratchpad") /\ Of(t, "scratchpad") \subseteq Allowed(t)
    /\ job[t].stage \in {"seeded"} \cup Running =>
          vm[job[t].vm].rounding_mode.from \subseteq Allowed(t) /\ host[t].from \subseteq Allowed(t)
    /\ job[t].stage \in Running =>
          \A x \in {"r", "a", "mem_reg", "config", "dataset_offset"} : Of(t, x) \subseteq Allowed(t)
    /\ job[t].stage \in {"execute", "finish", "ran"} =>
          \A x \in {"f", "e"} : Of(t, x) \subseteq Allowed(t)
    /\ job[t].stage \in {"execute", "finish"} => Of(t, "pc") \subseteq Allowed(t)
    /\ job[t].stage = "ran" => Allowed(t) \subseteq Of(t, "r")

IInv ==
    /\ TypeOK /\ Ownership /\ HostFollowsVm
    /\ \A t \in Threads : Provenance(t)

-----------------------------------------------------------------------------
(* Lemmas on sources and on records.                                       *)

LEMMA SourcesWithin ==
    ASSUME NEW v, NEW fields, NEW A, \A x \in fields : vm[v].at[x] \subseteq A
    PROVE  Sources(v, fields) \subseteq A
  BY DEF Sources

LEMMA SourcesContain ==
    ASSUME NEW v, NEW fields, NEW x \in fields
    PROVE  vm[v].at[x] \subseteq Sources(v, fields)
  BY DEF Sources

\* A new set of sources in some fields.
LEMMA WrittenFields ==
    ASSUME TypeOK, NEW v \in Vms, NEW fields, NEW sources \in SUBSET Source
    PROVE  /\ Written(v, fields, sources) \in [Fields -> SUBSET Source]
           /\ \A x \in Fields : x \in fields => Written(v, fields, sources)[x] = sources
           /\ \A x \in Fields : x \notin fields => Written(v, fields, sources)[x] = vm[v].at[x]
  <1>1. vm[v].at \in [Fields -> SUBSET Source]
    BY DEF TypeOK, VmType
  <1> QED
    BY <1>1 DEF Written

LEMMA SourcesTyped ==
    ASSUME TypeOK, NEW v \in Vms, NEW fields \in SUBSET Fields
    PROVE  Sources(v, fields) \in SUBSET Source
  <1>1. \A x \in fields : vm[v].at[x] \subseteq Source
    BY DEF TypeOK, VmType
  <1> QED
    BY <1>1, SourcesWithin

\* A Vm with new fields keeps its memory and its mode.
LEMMA NewFields ==
    ASSUME TypeOK, NEW v \in Vms, NEW at \in [Fields -> SUBSET Source],
           vm' = [vm EXCEPT ![v].at = at]
    PROVE  /\ vm' \in [Vms -> VmType]
           /\ vm'[v].at = at /\ vm'[v].mem = vm[v].mem
           /\ vm'[v].rounding_mode = vm[v].rounding_mode
           /\ \A w \in Vms \ {v} : vm'[w] = vm[w]
  BY DEF TypeOK, VmType

LEMMA NewMode ==
    ASSUME TypeOK, NEW v \in Vms, NEW m \in ModeType,
           vm' = [vm EXCEPT ![v].rounding_mode = m]
    PROVE  /\ vm' \in [Vms -> VmType]
           /\ vm'[v].at = vm[v].at /\ vm'[v].mem = vm[v].mem
           /\ vm'[v].rounding_mode = m
           /\ \A w \in Vms \ {v} : vm'[w] = vm[w]
  BY DEF TypeOK, VmType, ModeType

LEMMA NewHost ==
    ASSUME TypeOK, NEW t \in Threads, NEW m \in ModeType, host' = [host EXCEPT ![t] = m]
    PROVE  /\ host' \in [Threads -> ModeType]
           /\ host'[t] = m /\ \A u \in Threads \ {t} : host'[u] = host[u]
  BY DEF TypeOK

LEMMA ModeTyped ==
    ASSUME NEW m \in HostModes, NEW sources \in SUBSET Source
    PROVE  /\ Mode(m, sources) \in ModeType
           /\ Mode(m, sources).mode = m /\ Mode(m, sources).from = sources
  BY DEF Mode, ModeType

\* A call goes on to another stage.
LEMMA NewStage ==
    ASSUME TypeOK, NEW t \in Threads, NEW from, NEW to \in Stages, Stage(t, from, to)
    PROVE  /\ job' \in [Threads -> JobType]
           /\ job[t].stage = from /\ job'[t].stage = to
           /\ job'[t].vm = job[t].vm /\ job'[t].input = job[t].input
           /\ job'[t].guard = job[t].guard
           /\ job'[t].seed = job[t].seed
           /\ \A u \in Threads \ {t} : job'[u] = job[u]
  BY DEF TypeOK, JobType, Stage

\* And with a new seed, with a new program, after an iteration.
LEMMA NewSeed ==
    ASSUME TypeOK, NEW t \in Threads, NEW to \in Stages, NEW seed \in SUBSET Source,
           job' = [job EXCEPT ![t].stage = to, ![t].seed = seed]
    PROVE  /\ job' \in [Threads -> JobType]
           /\ job'[t].stage = to /\ job'[t].seed = seed
           /\ job'[t].vm = job[t].vm /\ job'[t].input = job[t].input
           /\ job'[t].guard = job[t].guard
           /\ \A u \in Threads \ {t} : job'[u] = job[u]
  BY DEF TypeOK, JobType

LEMMA NewProgram ==
    ASSUME TypeOK, NEW t \in Threads, NEW to \in Stages,
           job' = [job EXCEPT ![t].stage = to, ![t].programs = @ + 1, ![t].iterations = 0]
    PROVE  /\ job' \in [Threads -> JobType]
           /\ job'[t].stage = to
           /\ job'[t].vm = job[t].vm /\ job'[t].input = job[t].input
           /\ job'[t].guard = job[t].guard
           /\ \A u \in Threads \ {t} : job'[u] = job[u]
  BY DEF TypeOK, JobType

LEMMA NewIteration ==
    ASSUME TypeOK, NEW t \in Threads, NEW to \in Stages,
           job' = [job EXCEPT ![t].iterations = @ + 1, ![t].stage = to]
    PROVE  /\ job' \in [Threads -> JobType]
           /\ job'[t].stage = to
           /\ job'[t].vm = job[t].vm /\ job'[t].input = job[t].input
           /\ job'[t].guard = job[t].guard
           /\ \A u \in Threads \ {t} : job'[u] = job[u]
  <1> DEFINE n == job[t].iterations + 1
             j == [job[t] EXCEPT !.iterations = n, !.stage = to]
  <1>1. job[t] \in JobType /\ n \in Nat
    BY DEF TypeOK, JobType
  <1>2. job' = [job EXCEPT ![t] = j]
    BY DEF TypeOK
  <1> HIDE DEF n
  <1>3. /\ j \in JobType /\ j.stage = to /\ j.vm = job[t].vm /\ j.input = job[t].input
        /\ j.guard = job[t].guard
    BY <1>1 DEF JobType
  <1> HIDE DEF j
  <1> QED
    BY <1>2, <1>3 DEF TypeOK

-----------------------------------------------------------------------------
(* A step inside a call concerns one thread and its Vm.                    *)

\* HostFollowsVm of one thread.
Follows(t) ==
    job[t].stage \notin {"idle", "captured", "filled"} =>
        host[t].mode = vm[job[t].vm].rounding_mode.mode

\* A step of the call of thread t.
Inside(t) ==
    /\ job[t].stage # "idle" /\ job'[t].stage # "idle"
    /\ job'[t].vm = job[t].vm /\ job'[t].input = job[t].input
    /\ job'[t].guard = job[t].guard
    /\ vm'[job[t].vm].mem = vm[job[t].vm].mem
    /\ \A u \in Threads \ {t} : job'[u] = job[u] /\ host'[u] = host[u]
    /\ \A w \in Vms \ {job[t].vm} : vm'[w] = vm[w]
    /\ UNCHANGED <<last, calls>>

LEMMA FollowsEach == HostFollowsVm <=> \A t \in Threads : Follows(t)
  BY DEF HostFollowsVm, Follows

\* It leaves the other calls and their Vms alone.
LEMMA OtherThread ==
    ASSUME IInv, NEW t \in Threads, NEW u \in Threads, u # t,
           job[t].stage # "idle", job'[u] = job[u], host'[u] = host[u],
           \A w \in Vms \ {job[t].vm} : vm'[w] = vm[w]
    PROVE  Provenance(u)' /\ Follows(u)'
  <1>1. CASE job[u].stage = "idle"
    BY <1>1 DEF Provenance, Follows, Running
  <1>2. CASE job[u].stage # "idle"
    <2>1. vm'[job[u].vm] = vm[job[u].vm]
      BY <1>2 DEF IInv, Ownership
    <2>2. Given(u)' = Given(u) /\ Allowed(u)' = Allowed(u)
      BY <2>1 DEF Given, Allowed, FromMemory
    <2>3. \A x : Of(u, x)' = Of(u, x)
      BY <2>1 DEF Of
    <2>4. Provenance(u) /\ Follows(u)
      BY FollowsEach DEF IInv
    <2>5. Follows(u)'
      BY <2>1, <2>4 DEF Follows
    <2>6. Provenance(u)'
      BY <2>1, <2>2, <2>3, <2>4 DEF Provenance
    <2> QED
      BY <2>5, <2>6
  <1> QED
    BY <1>1, <1>2

LEMMA InsideOwnership ==
    ASSUME IInv, NEW t \in Threads, Inside(t)
    PROVE  Ownership'
  <1>1. \A u \in Threads :
           /\ job'[u].vm = job[u].vm /\ job'[u].input = job[u].input
           /\ job'[u].stage = "idle" <=> job[u].stage = "idle"
           /\ job[u].stage = "idle" => job'[u] = job[u]
    BY DEF Inside
  <1> QED
    BY <1>1 DEF IInv, Ownership, Inside

LEMMA InsideAllowed ==
    ASSUME NEW t \in Threads, Inside(t)
    PROVE  Given(t)' = Given(t) /\ Allowed(t)' = Allowed(t)
  BY DEF Inside, Given, Allowed, FromMemory

\* What is left to show of such a step.
LEMMA InsideIInv ==
    ASSUME IInv, NEW t \in Threads, Inside(t), TypeOK', Provenance(t)', Follows(t)'
    PROVE  IInv'
  <1>1. \A u \in Threads : Provenance(u)' /\ Follows(u)'
    BY OtherThread DEF Inside
  <1>2. Ownership'
    BY InsideOwnership
  <1>3. HostFollowsVm'
    BY <1>1 DEF HostFollowsVm, Follows
  <1> QED
    BY <1>1, <1>2, <1>3 DEF IInv

\* The Vm of a call in progress.
LEMMA Holds ==
    ASSUME IInv, NEW t \in Threads, job[t].stage # "idle"
    PROVE  /\ job[t].vm \in Vms /\ vm[job[t].vm] \in VmType
           /\ job[t].input \in Nat /\ Given(t) \in SUBSET Source
           /\ Allowed(t) \in SUBSET Source
  <1>1. job[t].vm \in Vms /\ vm[job[t].vm] \in VmType /\ job[t] \in JobType
    BY DEF IInv, TypeOK, Ownership
  <1>2. job[t].input \in Nat /\ vm[job[t].vm].mem \in Memories
    BY <1>1 DEF JobType, VmType
  <1>3. Given(t) \in SUBSET Source
    BY <1>2 DEF Given, Source
  <1>4. FromMemory(vm[job[t].vm].mem) \in SUBSET Source
    BY <1>2 DEF FromMemory, Source
  <1> QED
    BY <1>1, <1>2, <1>3, <1>4 DEF Allowed

-----------------------------------------------------------------------------
(* The steps of a call preserve the invariant.                             *)

\* The hash of the input alone fills the scratchpad and gives the first seed.
LEMMA InitScratchpadIInv ==
    ASSUME IInv, NEW t \in Threads, init_scratchpad(t)
    PROVE  IInv' /\ Inside(t)
  <1> DEFINE v == job[t].vm
             at == Written(v, {"scratchpad"}, Given(t))
  <1>1. job[t].stage = "captured" /\ UNCHANGED <<host, last, calls>>
    BY DEF init_scratchpad
  <1>2. v \in Vms /\ Given(t) \in SUBSET Source
    BY <1>1, Holds
  <1>3. /\ at \in [Fields -> SUBSET Source] /\ at["scratchpad"] = Given(t)
    BY <1>2, WrittenFields DEF IInv, Fields, Registers
  <1>4. vm' = [vm EXCEPT ![v].at = at]
    BY DEF init_scratchpad, Given
  <1>5. /\ vm' \in [Vms -> VmType] /\ vm'[v].at = at /\ vm'[v].mem = vm[v].mem
        /\ \A w \in Vms \ {v} : vm'[w] = vm[w]
    BY <1>2, <1>3, <1>4, NewFields DEF IInv
  <1>6. /\ job' \in [Threads -> JobType]
        /\ job'[t].stage = "filled" /\ job'[t].seed = Given(t)
        /\ job'[t].vm = v /\ job'[t].input = job[t].input
        /\ job'[t].guard = job[t].guard
        /\ \A u \in Threads \ {t} : job'[u] = job[u]
    BY <1>2, NewSeed DEF init_scratchpad, IInv, Stages, Given
  <1>7. Inside(t)
    BY <1>1, <1>5, <1>6 DEF Inside
  <1>8. TypeOK'
    BY <1>1, <1>5, <1>6 DEF IInv, TypeOK
  <1>9. Provenance(t)'
    <2>1. Of(t, "scratchpad")' = Given(t)'
      BY <1>3, <1>5, <1>6, <1>7, InsideAllowed DEF Of
    <2>2. job'[t].seed = Given(t)'
      BY <1>6, <1>7, InsideAllowed
    <2>3. Given(t)' \subseteq Allowed(t)'
      BY DEF Allowed
    <2> QED
      BY <1>6, <2>1, <2>2, <2>3 DEF Provenance, Running
  <1>10. Follows(t)'
    BY <1>6 DEF Follows
  <1> QED
    BY <1>7, <1>8, <1>9, <1>10, InsideIInv

\* The mode of the Vm and that of the thread become Nearest together.
LEMMA ResetRoundingModeIInv ==
    ASSUME IInv, NEW t \in Threads, reset_rounding_mode(t)
    PROVE  IInv' /\ Inside(t)
  <1> DEFINE v == job[t].vm
  <1>1. Stage(t, "filled", "seeded") /\ UNCHANGED <<last, calls>>
    BY DEF reset_rounding_mode
  <1>2. /\ job' \in [Threads -> JobType]
        /\ job[t].stage = "filled" /\ job'[t].stage = "seeded" /\ job'[t].seed = job[t].seed
        /\ job'[t].vm = v /\ job'[t].input = job[t].input
        /\ job'[t].guard = job[t].guard
        /\ \A u \in Threads \ {t} : job'[u] = job[u]
    BY <1>1, NewStage DEF IInv, Stages
  <1>3. v \in Vms
    BY <1>2, Holds
  <1>4. Mode(0, {}) \in ModeType /\ Mode(0, {}).mode = 0 /\ Mode(0, {}).from = {}
    BY ModeTyped, DriverAssumption
  <1>5. /\ vm' \in [Vms -> VmType] /\ vm'[v].at = vm[v].at /\ vm'[v].mem = vm[v].mem
        /\ vm'[v].rounding_mode = Mode(0, {})
        /\ \A w \in Vms \ {v} : vm'[w] = vm[w]
    BY <1>3, <1>4, NewMode DEF IInv, reset_rounding_mode
  <1>6. /\ host' \in [Threads -> ModeType] /\ host'[t] = Mode(0, {})
        /\ \A u \in Threads \ {t} : host'[u] = host[u]
    BY <1>4, NewHost DEF IInv, reset_rounding_mode
  <1>7. Inside(t)
    BY <1>1, <1>2, <1>5, <1>6 DEF Inside
  <1>8. TypeOK'
    BY <1>1, <1>2, <1>5, <1>6 DEF IInv, TypeOK
  <1>9. Provenance(t)'
    <2>1. Provenance(t) /\ Given(t)' = Given(t) /\ Allowed(t)' = Allowed(t)
      BY <1>7, InsideAllowed DEF IInv
    <2>2. Of(t, "scratchpad")' = Of(t, "scratchpad")
      BY <1>2, <1>5 DEF Of
    <2>3. vm'[job'[t].vm].rounding_mode.from = {} /\ host'[t].from = {}
      BY <1>2, <1>4, <1>5, <1>6
    <2> QED
      BY <1>2, <2>1, <2>2, <2>3 DEF Provenance, Running
  <1>10. Follows(t)'
    BY <1>2, <1>5, <1>6 DEF Follows
  <1> QED
    BY <1>7, <1>8, <1>9, <1>10, InsideIInv

\* A program starts from its seed: of the fields it will read, only the
\* scratchpad and the mode are older.
LEMMA InitVmIInv ==
    ASSUME IInv, NEW t \in Threads, init_vm(t)
    PROVE  IInv' /\ Inside(t)
  <1> DEFINE v == job[t].vm
             entropy == Written(v, {"a", "mem_reg", "config", "dataset_offset"}, job[t].seed)
             at == [entropy EXCEPT !["r"] = {}]
  <1>1. job[t].stage = "seeded" /\ UNCHANGED <<host, last, calls>> /\ vm' = [vm EXCEPT ![v].at = at]
    BY DEF init_vm
  <1>2. v \in Vms /\ job[t].seed \in SUBSET Source
    BY <1>1, Holds DEF IInv, TypeOK, JobType
  <1>3. /\ entropy \in [Fields -> SUBSET Source]
        /\ \A x \in {"a", "mem_reg", "config", "dataset_offset"} : entropy[x] = job[t].seed
        /\ entropy["scratchpad"] = vm[v].at["scratchpad"]
    BY <1>2, WrittenFields DEF IInv, Fields, Registers
  <1>4. /\ at \in [Fields -> SUBSET Source] /\ at["r"] = {}
        /\ \A x \in {"a", "mem_reg", "config", "dataset_offset"} : at[x] = job[t].seed
        /\ at["scratchpad"] = vm[v].at["scratchpad"]
    <2> HIDE DEF entropy
    <2> QED
      BY <1>3 DEF Fields, Registers
  <1> HIDE DEF at
  <1>5. /\ vm' \in [Vms -> VmType] /\ vm'[v].at = at /\ vm'[v].mem = vm[v].mem
        /\ vm'[v].rounding_mode = vm[v].rounding_mode
        /\ \A w \in Vms \ {v} : vm'[w] = vm[w]
    BY <1>1, <1>2, <1>4, NewFields DEF IInv
  <1>6. /\ job' \in [Threads -> JobType]
        /\ job'[t].stage = "iterate" /\ job'[t].vm = v /\ job'[t].input = job[t].input
        /\ job'[t].guard = job[t].guard
        /\ \A u \in Threads \ {t} : job'[u] = job[u]
    BY NewProgram DEF init_vm, IInv, Stages
  <1>7. Inside(t)
    BY <1>1, <1>5, <1>6 DEF Inside
  <1>8. TypeOK'
    BY <1>1, <1>5, <1>6 DEF IInv, TypeOK
  <1>9. Provenance(t)'
    <2>1. Provenance(t) /\ Given(t)' = Given(t) /\ Allowed(t)' = Allowed(t)
      BY <1>7, InsideAllowed DEF IInv
    <2>2. \A x : Of(t, x)' = at[x]
      BY <1>5, <1>6 DEF Of
    <2>3. vm'[job'[t].vm].rounding_mode = vm[v].rounding_mode /\ host'[t] = host[t]
      BY <1>1, <1>5, <1>6
    <2> QED
      BY <1>1, <1>4, <1>6, <2>1, <2>2, <2>3 DEF Provenance, Running, Of
  <1>10. Follows(t)'
    BY <1>1, <1>5, <1>6, FollowsEach DEF Follows, IInv
  <1> QED
    BY <1>7, <1>8, <1>9, <1>10, InsideIInv

\* The registers of an iteration are loaded before anything reads them.
LEMMA PrepareIterationIInv ==
    ASSUME IInv, NEW t \in Threads, prepare_iteration(t)
    PROVE  IInv' /\ Inside(t)
  <1> DEFINE v == job[t].vm
             loaded == Sources(v, {"r", "scratchpad", "mem_reg", "config"})
             written == Written(v, {"r", "f", "e"}, loaded)
             at == [written EXCEPT !["pc"] = {}]
  <1>1. Stage(t, "iterate", "execute") /\ UNCHANGED <<host, last, calls>> /\ vm' = [vm EXCEPT ![v].at = at]
    BY DEF prepare_iteration
  <1>2. /\ job' \in [Threads -> JobType]
        /\ job[t].stage = "iterate" /\ job'[t].stage = "execute"
        /\ job'[t].vm = v /\ job'[t].input = job[t].input
        /\ job'[t].guard = job[t].guard
        /\ \A u \in Threads \ {t} : job'[u] = job[u]
    BY <1>1, NewStage DEF IInv, Stages
  <1>3. v \in Vms /\ Provenance(t)
    BY <1>2, Holds DEF IInv
  <1>4. loaded \in SUBSET Source /\ loaded \subseteq Allowed(t)
    <2>1. \A x \in {"r", "scratchpad", "mem_reg", "config"} : vm[v].at[x] \subseteq Allowed(t)
      BY <1>2, <1>3 DEF Provenance, Running, Of
    <2> QED
      BY <1>3, <2>1, SourcesTyped, SourcesWithin DEF IInv, Fields, Registers
  <1> HIDE DEF loaded
  <1>5. /\ written \in [Fields -> SUBSET Source]
        /\ \A x \in {"r", "f", "e"} : written[x] = loaded
        /\ \A x \in {"a", "mem_reg", "config", "dataset_offset", "scratchpad"} : written[x] = vm[v].at[x]
    BY <1>3, <1>4, WrittenFields DEF IInv, Fields, Registers
  <1> HIDE DEF written
  <1>6. /\ at \in [Fields -> SUBSET Source] /\ at["pc"] = {}
        /\ \A x \in {"r", "f", "e"} : at[x] = loaded
        /\ \A x \in {"a", "mem_reg", "config", "dataset_offset", "scratchpad"} : at[x] = vm[v].at[x]
    BY <1>5 DEF Fields, Registers
  <1>7. /\ vm' \in [Vms -> VmType] /\ vm'[v].at = at /\ vm'[v].mem = vm[v].mem
        /\ vm'[v].rounding_mode = vm[v].rounding_mode
        /\ \A w \in Vms \ {v} : vm'[w] = vm[w]
    BY <1>1, <1>3, <1>6, NewFields DEF IInv
  <1> HIDE DEF at
  <1>8. Inside(t)
    BY <1>1, <1>2, <1>7 DEF Inside
  <1>9. TypeOK'
    BY <1>1, <1>2, <1>7 DEF IInv, TypeOK
  <1>10. Provenance(t)'
    <2>1. Given(t)' = Given(t) /\ Allowed(t)' = Allowed(t)
      BY <1>8, InsideAllowed
    <2>2. \A x : Of(t, x)' = at[x]
      BY <1>2, <1>7 DEF Of
    <2>3. vm'[job'[t].vm].rounding_mode = vm[v].rounding_mode /\ host'[t] = host[t]
      BY <1>1, <1>2, <1>7
    <2>4. /\ Given(t) \subseteq vm[v].at["scratchpad"] /\ vm[v].at["scratchpad"] \subseteq Allowed(t)
          /\ vm[v].rounding_mode.from \subseteq Allowed(t) /\ host[t].from \subseteq Allowed(t)
          /\ \A x \in {"a", "mem_reg", "config", "dataset_offset"} : vm[v].at[x] \subseteq Allowed(t)
      BY <1>2, <1>3 DEF Provenance, Running, Of
    <2>5. /\ Given(t)' \subseteq Of(t, "scratchpad")' /\ Of(t, "scratchpad")' \subseteq Allowed(t)'
          /\ \A x \in {"r", "f", "e", "pc", "a", "mem_reg", "config", "dataset_offset"} :
                Of(t, x)' \subseteq Allowed(t)'
      BY <1>4, <1>6, <2>1, <2>2, <2>4
    <2>6. /\ vm'[job'[t].vm].rounding_mode.from \subseteq Allowed(t)'
          /\ host'[t].from \subseteq Allowed(t)'
      BY <2>1, <2>3, <2>4
    <2> QED
      BY <1>2, <2>5, <2>6 DEF Provenance, Running
  <1>11. Follows(t)'
    BY <1>1, <1>2, <1>7, FollowsEach DEF Follows, IInv
  <1> QED
    BY <1>8, <1>9, <1>10, <1>11, InsideIInv

\* Whatever the instructions read belongs to the call.
LEMMA ExecuteIInv ==
    ASSUME IInv, NEW t \in Threads, execute(t)
    PROVE  IInv' /\ Inside(t)
  <1> DEFINE v == job[t].vm
             fields == Registers \cup {"scratchpad", "config", "pc"}
             read == Sources(v, fields) \cup vm[v].rounding_mode.from \cup host[t].from
             at == Written(v, {"r", "f", "e", "scratchpad", "pc"}, read)
  <1>1. Stage(t, "execute", "finish") /\ UNCHANGED <<last, calls>>
    BY DEF execute
  <1>2. /\ job' \in [Threads -> JobType]
        /\ job[t].stage = "execute" /\ job'[t].stage = "finish"
        /\ job'[t].vm = v /\ job'[t].input = job[t].input
        /\ job'[t].guard = job[t].guard
        /\ \A u \in Threads \ {t} : job'[u] = job[u]
    BY <1>1, NewStage DEF IInv, Stages
  <1>3. v \in Vms /\ Provenance(t) /\ TypeOK
    BY <1>2, Holds DEF IInv
  <1>4. /\ \A x \in fields \cup {"mem_reg", "dataset_offset"} : vm[v].at[x] \subseteq Allowed(t)
        /\ Given(t) \subseteq vm[v].at["scratchpad"]
        /\ vm[v].rounding_mode.from \subseteq Allowed(t) /\ host[t].from \subseteq Allowed(t)
    BY <1>2, <1>3 DEF Provenance, Running, Of, Registers
  <1>5. read \in SUBSET Source /\ read \subseteq Allowed(t) /\ Given(t) \subseteq read
    <2>1. Sources(v, fields) \subseteq Allowed(t)
      BY <1>4, SourcesWithin
    <2>2. Given(t) \subseteq Sources(v, fields)
      BY <1>4, SourcesContain
    <2>3. Allowed(t) \in SUBSET Source
      BY <1>2, Holds
    <2> QED
      BY <1>4, <2>1, <2>2, <2>3
  <1>6. PICK m \in HostModes :
           /\ vm' = [vm EXCEPT ![v].at = at, ![v].rounding_mode = Mode(m, read)]
           /\ host' = [host EXCEPT ![t] = Mode(m, read)]
    BY DEF execute
  <1> HIDE DEF read
  <1>7. /\ at \in [Fields -> SUBSET Source]
        /\ \A x \in {"r", "f", "e", "scratchpad", "pc"} : at[x] = read
        /\ \A x \in {"a", "mem_reg", "config", "dataset_offset"} : at[x] = vm[v].at[x]
    BY <1>3, <1>5, WrittenFields DEF Fields, Registers
  <1>8. Mode(m, read) \in ModeType /\ Mode(m, read).mode = m /\ Mode(m, read).from = read
    BY <1>5, ModeTyped
  <1> HIDE DEF v, at
  <1>9. /\ vm' \in [Vms -> VmType] /\ vm'[v].at = at /\ vm'[v].mem = vm[v].mem
        /\ vm'[v].rounding_mode = Mode(m, read)
        /\ \A w \in Vms \ {v} : vm'[w] = vm[w]
    <2> DEFINE md == Mode(m, read)
    <2>1. vm' = [vm EXCEPT ![v].at = at, ![v].rounding_mode = md]
      BY <1>6
    <2>2. md \in ModeType
      BY <1>8
    <2>3. v \in Vms /\ TypeOK /\ at \in [Fields -> SUBSET Source]
      BY <1>3, <1>7
    <2> HIDE DEF md
    <2>4. /\ vm' \in [Vms -> VmType] /\ vm'[v].at = at /\ vm'[v].mem = vm[v].mem
          /\ vm'[v].rounding_mode = md
          /\ \A w \in Vms \ {v} : vm'[w] = vm[w]
      BY <2>1, <2>2, <2>3 DEF TypeOK, VmType, ModeType
    <2> QED
      BY <2>4 DEF md
  <1> USE DEF v
  <1>10. /\ host' \in [Threads -> ModeType] /\ host'[t] = Mode(m, read)
         /\ \A u \in Threads \ {t} : host'[u] = host[u]
    BY <1>3, <1>6, <1>8, NewHost
  <1>11. Inside(t)
    BY <1>1, <1>2, <1>9, <1>10 DEF Inside
  <1>12. TypeOK'
    BY <1>1, <1>2, <1>3, <1>9, <1>10 DEF TypeOK
  <1>13. Provenance(t)'
    <2>1. Given(t)' = Given(t) /\ Allowed(t)' = Allowed(t)
      BY <1>11, InsideAllowed
    <2>2. \A x : Of(t, x)' = at[x]
      BY <1>2, <1>9 DEF Of
    <2>3. vm'[job'[t].vm].rounding_mode.from = read /\ host'[t].from = read
      BY <1>2, <1>8, <1>9, <1>10
    <2>4. /\ Given(t)' \subseteq Of(t, "scratchpad")' /\ Of(t, "scratchpad")' \subseteq Allowed(t)'
          /\ \A x \in {"r", "f", "e", "pc", "a", "mem_reg", "config", "dataset_offset"} :
                Of(t, x)' \subseteq Allowed(t)'
      BY <1>4, <1>5, <1>7, <2>1, <2>2 DEF Registers
    <2> QED
      BY <1>2, <1>5, <2>1, <2>3, <2>4 DEF Provenance, Running
  <1>14. Follows(t)'
    BY <1>2, <1>8, <1>9, <1>10 DEF Follows
  <1> QED
    BY <1>11, <1>12, <1>13, <1>14, InsideIInv

\* The dataset brings in the memory; after the last iteration r has all of it.
LEMMA FinishIterationIInv ==
    ASSUME IInv, NEW t \in Threads, finish_iteration(t)
    PROVE  IInv' /\ Inside(t)
  <1> DEFINE v == job[t].vm
             fields == {"r", "f", "e", "scratchpad", "mem_reg", "config", "dataset_offset"}
             mixed == Sources(v, fields) \cup FromMemory(vm[v].mem)
             at == Written(v, {"r", "f", "scratchpad", "mem_reg"}, mixed)
  <1>1. job[t].stage = "finish" /\ UNCHANGED <<host, last, calls>> /\ vm' = [vm EXCEPT ![v].at = at]
    BY DEF finish_iteration
  <1>2. PICK to \in {"iterate", "ran"} :
           job' = [job EXCEPT ![t].iterations = @ + 1, ![t].stage = to]
    BY DEF finish_iteration
  <1>3. /\ job' \in [Threads -> JobType]
        /\ job'[t].stage = to /\ job'[t].vm = v /\ job'[t].input = job[t].input
        /\ job'[t].guard = job[t].guard
        /\ \A u \in Threads \ {t} : job'[u] = job[u]
    BY <1>2, NewIteration DEF IInv, Stages
  <1>4. v \in Vms /\ Provenance(t) /\ TypeOK
    BY <1>1, Holds DEF IInv
  <1>5. /\ \A x \in fields \cup {"a"} : vm[v].at[x] \subseteq Allowed(t)
        /\ Given(t) \subseteq vm[v].at["scratchpad"]
        /\ vm[v].rounding_mode.from \subseteq Allowed(t) /\ host[t].from \subseteq Allowed(t)
    BY <1>1, <1>4 DEF Provenance, Running, Of
  <1>6. mixed = Allowed(t) /\ mixed \in SUBSET Source
    <2>1. Sources(v, fields) \subseteq Allowed(t)
      BY <1>5, SourcesWithin
    <2>2. Given(t) \subseteq Sources(v, fields)
      BY <1>5, SourcesContain
    <2>3. Allowed(t) \in SUBSET Source
      BY <1>1, Holds
    <2> QED
      BY <2>1, <2>2, <2>3 DEF Allowed
  <1> HIDE DEF mixed
  <1>7. /\ at \in [Fields -> SUBSET Source]
        /\ \A x \in {"r", "f", "scratchpad", "mem_reg"} : at[x] = mixed
        /\ \A x \in {"e", "a", "config", "dataset_offset"} : at[x] = vm[v].at[x]
    BY <1>4, <1>6, WrittenFields DEF Fields, Registers
  <1> HIDE DEF at
  <1>8. /\ vm' \in [Vms -> VmType] /\ vm'[v].at = at /\ vm'[v].mem = vm[v].mem
        /\ vm'[v].rounding_mode = vm[v].rounding_mode
        /\ \A w \in Vms \ {v} : vm'[w] = vm[w]
    BY <1>1, <1>4, <1>7, NewFields
  <1>9. Inside(t)
    BY <1>1, <1>3, <1>8 DEF Inside
  <1>10. TypeOK'
    BY <1>1, <1>3, <1>4, <1>8 DEF TypeOK
  <1>11. Provenance(t)'
    <2>1. Given(t)' = Given(t) /\ Allowed(t)' = Allowed(t)
      BY <1>9, InsideAllowed
    <2>2. \A x : Of(t, x)' = at[x]
      BY <1>3, <1>8 DEF Of
    <2>3. vm'[job'[t].vm].rounding_mode = vm[v].rounding_mode /\ host'[t] = host[t]
      BY <1>1, <1>3, <1>8
    <2>4. Given(t) \subseteq Allowed(t)
      BY DEF Allowed
    <2>5. /\ Given(t)' \subseteq Of(t, "scratchpad")' /\ Of(t, "scratchpad")' \subseteq Allowed(t)'
          /\ Allowed(t)' \subseteq Of(t, "r")'
          /\ \A x \in {"r", "f", "e", "a", "mem_reg", "config", "dataset_offset"} :
                Of(t, x)' \subseteq Allowed(t)'
      BY <1>5, <1>6, <1>7, <2>1, <2>2, <2>4
    <2>6. /\ vm'[job'[t].vm].rounding_mode.from \subseteq Allowed(t)'
          /\ host'[t].from \subseteq Allowed(t)'
      BY <1>5, <2>1, <2>3
    <2> QED
      BY <1>3, <2>5, <2>6 DEF Provenance, Running
  <1>12. Follows(t)'
    BY <1>1, <1>3, <1>8, FollowsEach DEF Follows, IInv
  <1> QED
    BY <1>9, <1>10, <1>11, <1>12, InsideIInv

\* Between programs the registers become the seed.
LEMMA NextSeedIInv ==
    ASSUME IInv, NEW t \in Threads, next_seed(t)
    PROVE  IInv' /\ Inside(t)
  <1> DEFINE v == job[t].vm
             seed == Sources(v, Registers)
  <1>1. job[t].stage = "ran" /\ UNCHANGED <<vm, host, last, calls>>
    BY DEF next_seed
  <1>2. v \in Vms /\ Provenance(t) /\ TypeOK
    BY <1>1, Holds DEF IInv
  <1>3. seed \in SUBSET Source
    BY <1>2, SourcesTyped DEF Fields
  <1>4. Given(t) \subseteq seed /\ seed \subseteq Allowed(t)
    <2>1. \A x \in Registers : vm[v].at[x] \subseteq Allowed(t)
      BY <1>1, <1>2 DEF Provenance, Running, Of, Registers
    <2>2. Given(t) \subseteq vm[v].at["r"]
      BY <1>1, <1>2 DEF Provenance, Of, Allowed
    <2>3. vm[v].at["r"] \subseteq seed
      BY SourcesContain DEF Registers
    <2> QED
      BY <2>1, <2>2, <2>3, SourcesWithin
  <1>5. job' = [job EXCEPT ![t].stage = "seeded", ![t].seed = seed]
    BY DEF next_seed
  <1> HIDE DEF seed
  <1>6. /\ job' \in [Threads -> JobType]
        /\ job'[t].stage = "seeded" /\ job'[t].seed = seed
        /\ job'[t].vm = v /\ job'[t].input = job[t].input
        /\ job'[t].guard = job[t].guard
        /\ \A u \in Threads \ {t} : job'[u] = job[u]
    BY <1>2, <1>3, <1>5, NewSeed DEF Stages
  <1>7. Inside(t)
    BY <1>1, <1>6 DEF Inside
  <1>8. TypeOK'
    BY <1>1, <1>2, <1>6 DEF TypeOK
  <1>9. Provenance(t)'
    <2>1. Given(t)' = Given(t) /\ Allowed(t)' = Allowed(t)
      BY <1>7, InsideAllowed
    <2>2. /\ Given(t) \subseteq vm[v].at["scratchpad"] /\ vm[v].at["scratchpad"] \subseteq Allowed(t)
          /\ vm[v].rounding_mode.from \subseteq Allowed(t) /\ host[t].from \subseteq Allowed(t)
      BY <1>1, <1>2 DEF Provenance, Running, Of
    <2>3. /\ Of(t, "scratchpad")' = vm[v].at["scratchpad"] /\ host'[t] = host[t]
          /\ vm'[job'[t].vm].rounding_mode = vm[v].rounding_mode
      BY <1>1, <1>6 DEF Of
    <2> QED
      BY <1>4, <1>6, <2>1, <2>2, <2>3 DEF Provenance, Running
  <1>10. Follows(t)'
    BY <1>1, <1>6, FollowsEach DEF Follows, IInv
  <1> QED
    BY <1>7, <1>8, <1>9, <1>10, InsideIInv

-----------------------------------------------------------------------------
(* The steps that begin and end a call.                                    *)

LEMMA IdleTyped == Idle \in JobType /\ Idle.stage = "idle"
  BY ModeTyped, DriverAssumption DEF Idle, JobType, Stages

\* The Vm of a new call is held by no other.
LEMMA CaptureIInv ==
    ASSUME IInv, NEW t \in Threads, NEW v \in Vms, capture(t, v)
    PROVE  /\ IInv'
           /\ job[t].stage = "idle" /\ job'[t].stage = "captured"
           /\ job'[t].vm = v /\ job'[t].input = calls + 1 /\ job'[t].guard = host[t]
           /\ \A u \in Threads \ {t} : job'[u] = job[u]
  <1> DEFINE j == [Idle EXCEPT !.stage = "captured", !.vm = v, !.input = calls + 1,
                               !.guard = host[t]]
  <1>1. /\ job[t].stage = "idle" /\ UNCHANGED <<vm, host, last>> /\ calls' = calls + 1
        /\ \A u \in Threads : job[u].vm # v
        /\ TypeOK /\ calls \in Nat
    BY DEF capture, IInv, TypeOK
  <1>2. job' = [job EXCEPT ![t] = j]
    BY DEF capture
  <1>3. /\ j \in JobType /\ j.stage = "captured" /\ j.vm = v /\ j.input = calls + 1
        /\ j.guard = host[t]
    <2>1. host[t] \in ModeType /\ calls + 1 \in Nat
      BY <1>1 DEF TypeOK
    <2> QED
      BY <2>1, IdleTyped DEF JobType, Stages
  <1> HIDE DEF j
  <1>4. /\ job' \in [Threads -> JobType] /\ job'[t] = j
        /\ \A u \in Threads \ {t} : job'[u] = job[u]
    BY <1>1, <1>2, <1>3 DEF TypeOK
  <1>5. TypeOK'
    BY <1>1, <1>4 DEF TypeOK
  <1>6. Ownership'
    <2> SUFFICES ASSUME NEW u \in Threads
                 PROVE  /\ job'[u].stage = "idle" => job'[u] = Idle
                        /\ job'[u].stage # "idle" =>
                              job'[u].vm \in Vms /\ job'[u].input \in 1 .. calls'
                        /\ \A w \in Threads :
                              u # w /\ job'[u].stage # "idle" /\ job'[w].stage # "idle" =>
                                  job'[u].vm # job'[w].vm
      BY DEF Ownership
    <2>1. 1 .. calls \subseteq 1 .. calls' /\ calls + 1 \in 1 .. calls'
      BY <1>1
    <2>2. job'[u].stage = "idle" => job'[u] = Idle
      BY <1>3, <1>4 DEF IInv, Ownership
    <2>3. job'[u].stage # "idle" => job'[u].vm \in Vms /\ job'[u].input \in 1 .. calls'
      BY <1>3, <1>4, <2>1 DEF IInv, Ownership
    <2>4. ASSUME NEW w \in Threads, u # w, job'[u].stage # "idle", job'[w].stage # "idle"
          PROVE  job'[u].vm # job'[w].vm
      BY <1>1, <1>3, <1>4, <2>4 DEF IInv, Ownership
    <2> QED
      BY <2>2, <2>3, <2>4
  <1>7. ASSUME NEW u \in Threads
        PROVE  Provenance(u)' /\ Follows(u)'
    <2>1. CASE u = t
      BY <1>3, <1>4, <2>1 DEF Provenance, Follows, Running
    <2>2. CASE u # t
      <3>1. job'[u] = job[u]
        BY <1>4, <2>2
      <3>2. Given(u)' = Given(u) /\ Allowed(u)' = Allowed(u) /\ \A x : Of(u, x)' = Of(u, x)
        BY <1>1, <3>1 DEF Given, Allowed, Of
      <3>3. Provenance(u) /\ Follows(u)
        BY FollowsEach DEF IInv
      <3> QED
        BY <1>1, <3>1, <3>2, <3>3 DEF Provenance, Follows
    <2> QED
      BY <2>1, <2>2
  <1> QED
    BY <1>1, <1>3, <1>4, <1>5, <1>6, <1>7 DEF IInv, HostFollowsVm, Follows

\* The end of a call leaves its thread idle and the other calls alone.
LEMMA DropIInv ==
    ASSUME IInv, NEW t \in Threads, NEW end, job[t].stage # "idle", Drop(t, end),
           vm' \in [Vms -> VmType], \A w \in Vms \ {job[t].vm} : vm'[w] = vm[w],
           UNCHANGED calls
    PROVE  IInv'
  <1>1. TypeOK /\ job[t] \in JobType
    BY DEF IInv, TypeOK
  <1>2. job[t].guard \in ModeType
    BY <1>1 DEF JobType
  <1>3. /\ host' \in [Threads -> ModeType] /\ \A u \in Threads \ {t} : host'[u] = host[u]
    BY <1>1, <1>2, NewHost DEF Drop
  <1>4. Idle \in JobType /\ Idle.stage = "idle"
    BY IdleTyped
  <1>5. /\ job' \in [Threads -> JobType] /\ job'[t] = Idle
        /\ \A u \in Threads \ {t} : job'[u] = job[u]
    BY <1>1, <1>4 DEF Drop, TypeOK
  <1>6. TypeOK'
    BY <1>1, <1>3, <1>5 DEF TypeOK, Drop
  <1>7. Ownership'
    <2>1. \A u \in Threads : job'[u] = Idle \/ job'[u] = job[u]
      BY <1>5
    <2> QED
      BY <1>4, <2>1 DEF IInv, Ownership
  <1>8. ASSUME NEW u \in Threads
        PROVE  Provenance(u)' /\ Follows(u)'
    <2>1. CASE u = t
      BY <1>4, <1>5, <2>1 DEF Provenance, Follows, Running
    <2>2. CASE u # t
      BY <1>3, <1>5, <2>2, OtherThread
    <2> QED
      BY <2>1, <2>2
  <1> QED
    BY <1>6, <1>7, <1>8 DEF IInv, HostFollowsVm, Follows

\* The fields of the Vm that finish_hash leaves, and what the digest is of.
LEMMA FinishHashDigest ==
    ASSUME IInv, NEW t \in Threads, finish_hash(t)
    PROVE  /\ job[t].stage = "ran"
           /\ vm' \in [Vms -> VmType] /\ \A w \in Vms \ {job[t].vm} : vm'[w] = vm[w]
           /\ vm'[job[t].vm].mem = vm[job[t].vm].mem
           /\ Drop(t, [kind |-> "digest", memory |-> vm[job[t].vm].mem, input |-> job[t].input,
                       from |-> Allowed(t)])
  <1> DEFINE v == job[t].vm
             at == Written(v, {"a"}, vm[v].at["scratchpad"])
  <1>1. /\ job[t].stage = "ran" /\ vm' = [vm EXCEPT ![v].at = at]
        /\ Drop(t, [kind |-> "digest", memory |-> vm[v].mem, input |-> job[t].input,
                    from |-> UNION {at[x] : x \in Registers}])
    BY DEF finish_hash
  <1>2. v \in Vms /\ Provenance(t) /\ TypeOK
    BY <1>1, Holds DEF IInv
  <1>3. vm[v].at["scratchpad"] \in SUBSET Source
    BY <1>2 DEF TypeOK, VmType, Fields
  <1>4. /\ at \in [Fields -> SUBSET Source] /\ at["a"] = vm[v].at["scratchpad"]
        /\ \A x \in {"r", "f", "e"} : at[x] = vm[v].at[x]
    BY <1>2, <1>3, WrittenFields DEF Fields, Registers
  <1> HIDE DEF at
  <1>5. UNION {at[x] : x \in Registers} = Allowed(t)
    <2>1. \A x \in Registers : at[x] \subseteq Allowed(t)
      BY <1>1, <1>2, <1>4 DEF Provenance, Running, Of, Registers
    <2>2. Allowed(t) \subseteq at["r"]
      BY <1>1, <1>2, <1>4 DEF Provenance, Of
    <2>3. "r" \in Registers
      BY DEF Registers
    <2> QED
      BY <2>1, <2>2, <2>3
  <1>6. /\ vm' \in [Vms -> VmType] /\ vm'[v].mem = vm[v].mem
        /\ \A w \in Vms \ {v} : vm'[w] = vm[w]
    BY <1>1, <1>2, <1>4, NewFields
  <1> QED
    BY <1>1, <1>5, <1>6

LEMMA FinishHashIInv ==
    ASSUME IInv, NEW t \in Threads, finish_hash(t)
    PROVE  IInv'
  <1>1. UNCHANGED calls
    BY DEF finish_hash
  <1> QED
    BY <1>1, FinishHashDigest, DropIInv

LEMMA UnwindIInv ==
    ASSUME IInv, NEW t \in Threads, unwind(t)
    PROVE  IInv'
  <1>1. vm' \in [Vms -> VmType] /\ \A w \in Vms \ {job[t].vm} : vm'[w] = vm[w]
    BY DEF unwind, IInv, TypeOK
  <1> QED
    BY <1>1, DropIInv DEF unwind

\* Only a thread outside a call sets its mode.
LEMMA SetModeIInv ==
    ASSUME IInv, NEW t \in Threads, set_mode(t)
    PROVE  IInv'
  <1>1. PICK m \in HostModes : host' = [host EXCEPT ![t] = Mode(m, {Caller})]
    BY DEF set_mode
  <1>2. job[t].stage = "idle" /\ UNCHANGED <<vm, job, last, calls>> /\ TypeOK
    BY DEF set_mode, IInv
  <1>3. Mode(m, {Caller}) \in ModeType
    BY ModeTyped DEF Source
  <1>4. host' \in [Threads -> ModeType] /\ \A u \in Threads \ {t} : host'[u] = host[u]
    BY <1>1, <1>2, <1>3, NewHost
  <1>5. TypeOK'
    BY <1>2, <1>4 DEF TypeOK
  <1>6. Ownership'
    BY <1>2 DEF IInv, Ownership
  <1>7. ASSUME NEW u \in Threads
        PROVE  Provenance(u)' /\ Follows(u)'
    <2>1. CASE u = t
      BY <1>2, <2>1 DEF Provenance, Follows, Running
    <2>2. CASE u # t
      <3>1. host'[u] = host[u] /\ Provenance(u) /\ Follows(u)
        BY <1>4, <2>2, FollowsEach DEF IInv
      <3> QED
        BY <1>2, <3>1 DEF Provenance, Follows, Given, Allowed, Of
    <2> QED
      BY <2>1, <2>2
  <1> QED
    BY <1>5, <1>6, <1>7 DEF IInv, HostFollowsVm, Follows

-----------------------------------------------------------------------------
(* The theorems.                                                           *)

LEMMA InitIInv == Init => IInv
  <1> SUFFICES ASSUME Init PROVE IInv
    OBVIOUS
  <1>1. Mode(0, {}) \in ModeType /\ \A m \in HostModes : Mode(m, {Caller}) \in ModeType
    BY ModeTyped, DriverAssumption DEF Source
  <1>2. vm \in [Vms -> VmType]
    <2>1. PICK memory \in [Vms -> Memories] : vm = [v \in Vms |-> new_vm(memory[v])]
      BY DEF Init
    <2>2. \A v \in Vms : new_vm(memory[v]) \in VmType
      BY <1>1 DEF new_vm, VmType
    <2> QED
      BY <2>1, <2>2
  <1>3. host \in [Threads -> ModeType]
    <2>1. {Mode(m, {Caller}) : m \in HostModes} \subseteq ModeType
      BY <1>1
    <2> QED
      BY <2>1 DEF Init
  <1>4. Idle \in JobType /\ Idle.stage = "idle"
    BY IdleTyped
  <1>5. \A t \in Threads : job[t] = Idle
    BY DEF Init
  <1>6. TypeOK
    BY <1>2, <1>3, <1>4 DEF Init, TypeOK
  <1>7. Ownership /\ HostFollowsVm /\ \A t \in Threads : Provenance(t)
    BY <1>4, <1>5 DEF Ownership, HostFollowsVm, Provenance, Running
  <1> QED
    BY <1>6, <1>7 DEF IInv

LEMMA NextIInv ==
    ASSUME IInv, [Next]_vars
    PROVE  IInv'
  <1>1. CASE UNCHANGED vars
    BY <1>1 DEF vars, IInv, TypeOK, Ownership, HostFollowsVm, Provenance, Given, Allowed, Of
  <1>2. CASE Next
    <2>1. PICK t \in Threads : Proceed(t) \/ unwind(t) \/ set_mode(t) \/ \E v \in Vms : capture(t, v)
      BY <1>2 DEF Next
    <2>2. CASE Proceed(t)
      BY <2>2, InitScratchpadIInv, ResetRoundingModeIInv, InitVmIInv, PrepareIterationIInv,
         ExecuteIInv, FinishIterationIInv, NextSeedIInv, FinishHashIInv DEF Proceed
    <2> QED
      BY <2>1, <2>2, UnwindIInv, SetModeIInv, CaptureIInv
  <1> QED
    BY <1>1, <1>2

THEOREM SpecIInv == Spec => []IInv
  <1>1. Init => IInv
    BY InitIInv
  <1>2. IInv /\ [Next]_vars => IInv'
    BY NextIInv
  <1> QED
    BY <1>1, <1>2, PTL DEF Spec

\* While programs run, the control register of a thread is in the mode its Vm
\* records (reset_rounding_mode and CFROUND set both), however many threads
\* hash and whatever calls panicked before.
THEOREM HostAlwaysFollowsVm == Spec => []HostFollowsVm
  <1>1. IInv => HostFollowsVm
    BY DEF IInv
  <1> QED
    BY <1>1, SpecIInv, PTL

-----------------------------------------------------------------------------
(* The driver implements the service, step by step.                        *)

\* The state of the service that a state of the driver stands for.
MemoryOf  == [v \in Vms |-> vm[v].mem]
CurrentOf == [t \in Threads |-> [vm |-> job[t].vm, input |-> job[t].input]]
OutcomeOf == [t \in Threads |-> Outcome(last[t])]
ModeOf    == [t \in Threads |-> IF job[t].stage = "idle" THEN host[t].mode ELSE job[t].guard.mode]

\* No call, as the service sees it, exactly outside a call.
LEMMA CurrentMapped ==
    ASSUME IInv, NEW t \in Threads
    PROVE  /\ job[t].stage = "idle" => CurrentOf[t] = Service!NoCall
           /\ job[t].stage # "idle" => CurrentOf[t] # Service!NoCall
  <1>1. CASE job[t].stage = "idle"
    <2>1. job[t] = Idle
      BY <1>1 DEF IInv, Ownership
    <2>2. job[t].vm = "none" /\ job[t].input = 0
      BY <2>1 DEF Idle
    <2> QED
      BY <1>1, <2>2 DEF CurrentOf, Service!NoCall
  <1>2. CASE job[t].stage # "idle"
    <2>1. job[t].input \in 1 .. calls /\ calls \in Nat
      BY <1>2 DEF IInv, Ownership, TypeOK
    <2>2. CurrentOf[t].input # 0 /\ Service!NoCall.input = 0
      BY <2>1 DEF CurrentOf, Service!NoCall
    <2> QED
      BY <1>2, <2>2
  <1> QED
    BY <1>1, <1>2

\* A step inside a call is invisible to the caller.
LEMMA InsideStutters ==
    ASSUME IInv, NEW t \in Threads, Inside(t)
    PROVE  UNCHANGED Service!vars
  <1>1. MemoryOf' = MemoryOf
    BY DEF MemoryOf, Inside
  <1>2. CurrentOf' = CurrentOf
    BY DEF CurrentOf, Inside
  <1>3. OutcomeOf' = OutcomeOf
    BY DEF OutcomeOf, Inside
  <1>4. ModeOf' = ModeOf
    <2>1. \A u \in Threads :
             (IF job[u].stage = "idle" THEN host[u].mode ELSE job[u].guard.mode)'
               = IF job[u].stage = "idle" THEN host[u].mode ELSE job[u].guard.mode
      BY DEF Inside
    <2> QED
      BY <2>1 DEF ModeOf
  <1>5. calls' = calls
    BY DEF Inside
  <1> QED
    BY <1>1, <1>2, <1>3, <1>4, <1>5 DEF Service!vars, MemoryOf, CurrentOf, OutcomeOf, ModeOf

LEMMA CaptureIsCall ==
    ASSUME IInv, NEW t \in Threads, NEW v \in Vms, capture(t, v)
    PROVE  Service!Call(t, v)
  <1>1. /\ job[t].stage = "idle" /\ job'[t].stage = "captured"
        /\ job'[t].vm = v /\ job'[t].input = calls + 1 /\ job'[t].guard = host[t]
        /\ \A u \in Threads \ {t} : job'[u] = job[u]
    BY CaptureIInv
  <1>2. /\ calls < MaxCalls /\ calls' = calls + 1 /\ UNCHANGED <<vm, host, last>>
        /\ \A u \in Threads : job[u].vm # v
    BY DEF capture
  <1>3. CurrentOf[t] = Service!NoCall
    BY <1>1, CurrentMapped
  <1>4. \A u \in Threads : CurrentOf[u].vm # v
    BY <1>2 DEF CurrentOf
  <1>5. CurrentOf' = [CurrentOf EXCEPT ![t] = [vm |-> v, input |-> calls + 1]]
    BY <1>1 DEF CurrentOf
  <1>6. MemoryOf' = MemoryOf /\ OutcomeOf' = OutcomeOf
    BY <1>2 DEF MemoryOf, OutcomeOf
  <1>7. ModeOf' = ModeOf
    <2>1. \A u \in Threads :
             (IF job[u].stage = "idle" THEN host[u].mode ELSE job[u].guard.mode)'
               = IF job[u].stage = "idle" THEN host[u].mode ELSE job[u].guard.mode
      BY <1>1, <1>2
    <2> QED
      BY <2>1 DEF ModeOf
  <1> QED
    BY <1>2, <1>3, <1>4, <1>5, <1>6, <1>7
    DEF Service!Call, MemoryOf, CurrentOf, OutcomeOf, ModeOf

\* The end of a call, as the service sees it.
LEMMA DropMapped ==
    ASSUME IInv, NEW t \in Threads, NEW end, job[t].stage # "idle", Drop(t, end)
    PROVE  /\ OutcomeOf' = [OutcomeOf EXCEPT ![t] = Outcome(end)]
           /\ CurrentOf' = [CurrentOf EXCEPT ![t] = Service!NoCall]
           /\ ModeOf' = ModeOf
  <1>1. /\ host'[t] = job[t].guard /\ job'[t] = Idle
        /\ \A u \in Threads \ {t} : host'[u] = host[u] /\ job'[u] = job[u]
    BY DEF Drop, IInv, TypeOK
  <1>2. Idle.stage = "idle" /\ Idle.vm = "none" /\ Idle.input = 0
    BY DEF Idle
  <1>3. OutcomeOf' = [OutcomeOf EXCEPT ![t] = Outcome(end)]
    <2>1. last' = [last EXCEPT ![t] = end] /\ DOMAIN last = Threads
      BY DEF Drop, IInv, TypeOK
    <2>2. last'[t] = end /\ \A u \in Threads \ {t} : last'[u] = last[u]
      BY <2>1
    <2>3. Outcome(last[t])' = Outcome(end)
      BY <2>2 DEF Outcome
    <2>4. \A u \in Threads \ {t} : Outcome(last[u])' = Outcome(last[u])
      BY <2>2 DEF Outcome
    <2> QED
      BY <2>3, <2>4 DEF OutcomeOf
  <1>4. CurrentOf' = [CurrentOf EXCEPT ![t] = Service!NoCall]
    BY <1>1, <1>2 DEF CurrentOf, Service!NoCall
  <1>5. ModeOf' = ModeOf
    <2>1. \A u \in Threads :
             (IF job[u].stage = "idle" THEN host[u].mode ELSE job[u].guard.mode)'
               = IF job[u].stage = "idle" THEN host[u].mode ELSE job[u].guard.mode
      BY <1>1, <1>2
    <2> QED
      BY <2>1 DEF ModeOf
  <1> QED
    BY <1>3, <1>4, <1>5

\* The digest is of the memory and the input of the call, of both entirely.
LEMMA FinishHashReturns ==
    ASSUME IInv, NEW t \in Threads, finish_hash(t)
    PROVE  Service!Return(t)
  <1> DEFINE v == job[t].vm
             end == [kind |-> "digest", memory |-> vm[v].mem, input |-> job[t].input,
                     from |-> Allowed(t)]
  <1>1. /\ job[t].stage = "ran" /\ vm'[v].mem = vm[v].mem
        /\ \A w \in Vms \ {v} : vm'[w] = vm[w]
        /\ Drop(t, end)
    BY FinishHashDigest
  <1>2. v \in Vms /\ CurrentOf[t] # Service!NoCall
    BY <1>1, Holds, CurrentMapped
  <1>3. end.kind = "digest" /\ end.memory = vm[v].mem /\ end.input = job[t].input /\ end.from = Allowed(t)
    OBVIOUS
  <1> HIDE DEF end
  <1>4. Outcome(end) = [vm |-> vm[v].mem, input |-> job[t].input]
    BY <1>3 DEF Outcome, Allowed, Given
  <1>5. /\ OutcomeOf' = [OutcomeOf EXCEPT ![t] = Outcome(end)]
        /\ CurrentOf' = [CurrentOf EXCEPT ![t] = Service!NoCall]
        /\ ModeOf' = ModeOf
    BY <1>1, DropMapped
  <1>6. MemoryOf' = MemoryOf
    BY <1>1 DEF MemoryOf
  <1>7. MemoryOf[CurrentOf[t].vm] = vm[v].mem /\ CurrentOf[t].input = job[t].input
    BY <1>2 DEF MemoryOf, CurrentOf
  <1>8. OutcomeOf' = [OutcomeOf EXCEPT ![t] = [vm |-> MemoryOf[CurrentOf[t].vm], input |-> CurrentOf[t].input]]
    BY <1>4, <1>5, <1>7
  <1>9. calls' = calls
    BY DEF finish_hash
  <1> QED
    BY <1>2, <1>5, <1>6, <1>8, <1>9
    DEF Service!Return, Service!Digest, MemoryOf, CurrentOf, OutcomeOf, ModeOf

LEMMA UnwindUnwinds ==
    ASSUME IInv, NEW t \in Threads, unwind(t)
    PROVE  Service!Unwind(t)
  <1> DEFINE end == [NoEnd EXCEPT !.kind = "panic"]
  <1>1. job[t].stage # "idle" /\ Drop(t, end) /\ UNCHANGED <<vm, calls>>
    BY DEF unwind
  <1>2. end.kind = "panic"
    BY DEF NoEnd
  <1> HIDE DEF end
  <1>3. Outcome(end) = Service!Panic
    BY <1>2 DEF Outcome, Service!Panic
  <1>4. CurrentOf[t] # Service!NoCall
    BY <1>1, CurrentMapped
  <1>5. /\ OutcomeOf' = [OutcomeOf EXCEPT ![t] = Service!Panic]
        /\ CurrentOf' = [CurrentOf EXCEPT ![t] = Service!NoCall]
        /\ ModeOf' = ModeOf
    BY <1>1, <1>3, DropMapped
  <1>6. MemoryOf' = MemoryOf
    BY <1>1 DEF MemoryOf
  <1> QED
    BY <1>1, <1>4, <1>5, <1>6 DEF Service!Unwind, MemoryOf, CurrentOf, OutcomeOf, ModeOf

LEMMA SetModeSetsMode ==
    ASSUME IInv, NEW t \in Threads, set_mode(t)
    PROVE  Service!SetMode(t)
  <1>1. job[t].stage = "idle" /\ UNCHANGED <<vm, job, last, calls>>
    BY DEF set_mode
  <1>2. PICK m \in HostModes : host' = [host EXCEPT ![t] = Mode(m, {Caller})]
    BY DEF set_mode
  <1>3. host'[t].mode = m /\ \A u \in Threads \ {t} : host'[u] = host[u]
    BY <1>2 DEF IInv, TypeOK, Mode
  <1>4. ModeOf' = [ModeOf EXCEPT ![t] = m]
    BY <1>1, <1>3 DEF ModeOf
  <1>5. CurrentOf[t] = Service!NoCall
    BY <1>1, CurrentMapped
  <1>6. MemoryOf' = MemoryOf /\ CurrentOf' = CurrentOf /\ OutcomeOf' = OutcomeOf
    BY <1>1 DEF MemoryOf, CurrentOf, OutcomeOf
  <1> QED
    BY <1>1, <1>4, <1>5, <1>6 DEF Service!SetMode, MemoryOf, CurrentOf, OutcomeOf, ModeOf

LEMMA InitMapped == Init => Service!Init
  <1> SUFFICES ASSUME Init PROVE Service!Init
    OBVIOUS
  <1>1. MemoryOf \in [Vms -> Memories]
    <2>1. PICK memory \in [Vms -> Memories] : vm = [v \in Vms |-> new_vm(memory[v])]
      BY DEF Init
    <2>2. \A v \in Vms : vm[v].mem = memory[v]
      BY <2>1 DEF new_vm
    <2> QED
      BY <2>2 DEF MemoryOf
  <1>2. CurrentOf = [t \in Threads |-> Service!NoCall]
    <2>1. Idle.vm = "none" /\ Idle.input = 0
      BY DEF Idle
    <2> QED
      BY <2>1 DEF Init, CurrentOf, Service!NoCall
  <1>3. OutcomeOf = [t \in Threads |-> Service!NoCall]
    <2>1. Outcome(NoEnd) = Service!NoCall
      BY DEF Outcome, NoEnd, Service!NoCall
    <2> QED
      BY <2>1 DEF Init, OutcomeOf
  <1>4. ModeOf \in [Threads -> HostModes]
    <2>1. \A t \in Threads : job[t].stage = "idle"
      BY DEF Init, Idle
    <2>2. \A t \in Threads : host[t].mode \in HostModes
      BY InitIInv DEF IInv, TypeOK, ModeType
    <2> QED
      BY <2>1, <2>2 DEF ModeOf
  <1>5. calls = 0
    BY DEF Init
  <1> QED
    BY <1>1, <1>2, <1>3, <1>4, <1>5 DEF Service!Init, MemoryOf, CurrentOf, OutcomeOf, ModeOf

LEMMA NextMapped ==
    ASSUME IInv, [Next]_vars
    PROVE  [Service!Next]_(Service!vars)
  <1>1. CASE UNCHANGED vars
    <2>1. MemoryOf' = MemoryOf /\ CurrentOf' = CurrentOf /\ OutcomeOf' = OutcomeOf /\ ModeOf' = ModeOf
      BY <1>1 DEF vars, MemoryOf, CurrentOf, OutcomeOf, ModeOf
    <2> QED
      BY <1>1, <2>1 DEF vars, Service!vars, MemoryOf, CurrentOf, OutcomeOf, ModeOf
  <1>2. CASE Next
    <2>1. PICK t \in Threads : Proceed(t) \/ unwind(t) \/ set_mode(t) \/ \E v \in Vms : capture(t, v)
      BY <1>2 DEF Next
    <2>2. CASE Proceed(t)
      <3>1. Inside(t) \/ finish_hash(t)
        BY <2>2, InitScratchpadIInv, ResetRoundingModeIInv, InitVmIInv, PrepareIterationIInv,
           ExecuteIInv, FinishIterationIInv, NextSeedIInv DEF Proceed
      <3>2. UNCHANGED Service!vars \/ Service!Return(t)
        BY <3>1, InsideStutters, FinishHashReturns
      <3> QED
        BY <3>2 DEF Service!Next
    <2>3. CASE unwind(t)
      BY <2>3, UnwindUnwinds DEF Service!Next
    <2>4. CASE set_mode(t)
      BY <2>4, SetModeSetsMode DEF Service!Next
    <2>5. CASE \E v \in Vms : capture(t, v)
      BY <2>5, CaptureIsCall DEF Service!Next
    <2> QED
      BY <2>1, <2>2, <2>3, <2>4, <2>5
  <1> QED
    BY <1>1, <1>2

\* Every behaviour of the driver is one of the service: a digest depends on the
\* memory and the input alone, whatever ran on the Vm before (init_scratchpad,
\* init_vm and prepare_iteration overwrite all that is read), and no call
\* changes the mode its thread sees (HostRoundingModeGuard).
THEOREM DriverImplementsService == Spec => ImplementsService
  <1>1. Init => Service!Init
    BY InitMapped
  <1>2. IInv /\ [Next]_vars => [Service!Next]_(Service!vars)
    BY NextMapped
  <1> QED
    BY <1>1, <1>2, SpecIInv, PTL DEF Spec, ImplementsService, Service!Spec
=============================================================================
