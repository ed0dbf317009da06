# A TLA+ model of randomx-sp1

randomx-sp1 computes and proves RandomX hashes inside the SP1 virtual machine.
This directory holds TLA+ models of its parts, TLC configurations that check
them on small instances, and TLAPS proofs for every value of their constants.
Paths below are relative to the repository; `PROJECT.json` gives the source
lines of every definition.

## 1. The system

| Part | Code | State | Operations |
| --- | --- | --- | --- |
| Cache fill | `argon2/src/core.rs` | 262,144 blocks, pass, slice, offsets | seed blocks, fill a segment, `assume_init` |
| Superscalar programs | `randomx-core/src/superscalar.rs` | decoder buffer, port map, register latencies, program | `ScProgram::generate`, `execute` |
| Seed memory, dataset | `randomx-core/src/memory.rs` | cache and eight programs | `init_dataset_item`, `dataset_read` |
| Reference interpreter | `randomx-core/src/program.rs`, `vm.rs` | registers, scratchpad, `ma`/`mx`, rounding mode, host control register | `Program::from_bytes`, `init_vm`, `run`, `exec_*` |
| Hash driver | `randomx-sp1/src/lib.rs`, `randomx-core/src/vm.rs` | the VM between calls, the caller's control register | `calculate_hash`, guard captured and restored |
| Compact interpreter | `randomx-sp1/src/lib.rs` | the same VM, `CompactProgram` | `from_bytes`, `run`, `exec_*`, `run_differential` |
| Software floating point | `softfp/src/lib.rs` | none | `add`, `sub`, `mul`, `div`, `sqrt` in four modes |
| Guest | `program/src/main.rs` | none | read key and blob, hash, commit |
| Gas executor | `executor/src/main.rs` | two channels, a mutex, worker threads | execute chunks, estimate, join, collect |
| Proof requester | `network-prover/src/main.rs` | key, ID and proof files; the account | `prove`, `resume`, `account`, `evm-verify` |
| Audit crate | `audit/src` | fixtures, the block recorded for the requester | build and validate fixtures, record a block, differential audit |

A hash fills the cache from the key, generates eight superscalar programs, and
then runs eight programs of 256 instructions for 2,048 iterations each on one
VM; each iteration reads the dataset, which in light mode is computed from the
cache by the superscalar programs. The compact interpreter replaces the
reference one in the guest and must be indistinguishable from it; the audit
runs both in lockstep on one thread. The executor runs the guest and hands
traces to gas workers; the requester submits the guest to the proving network.

What is hard in this code:

* **Unchecked accesses justified by an invariant.** Fetch, registers, scratchpad,
  pair handlers and cache blocks are accessed without bounds checks in release
  builds. The justification is always a fact about earlier steps (what the decoder
  stored, which blocks a pass has written).
* **Termination without a counter.** `run` loops until the program counter
  leaves the program; `generate` retries with new random draws.
* **Two implementations of one thing.** The decoders resolve special cases at
  different times; the seed height is computed twice.
* **Shared hidden state.** The rounding mode is both a VM field and a register
  of the host thread; a VM is used again after a hash, or after a panic.
* **Arithmetic by special case.** Directed rounding comes from the nearest result
  and the sign of the error, a reciprocal from shifts and subtractions, a
  difficulty test from carries.
* **Data from outside.** Records of blocks come from an RPC endpoint; only block
  IDs and links bind what it served.
* **Concurrency and failure.** The gas pool has threads, a mutex around a
  blocking receive, bounded trace buffers and workers that may panic. The
  requester may be killed between paying and persisting, its writes are not
  atomic, and nothing excludes a second process.

`PROJECT.json` lists each such hazard at its line, with the properties that
would catch it going wrong.

## 2. Modules

| Module | Models | Uses |
| --- | --- | --- |
| `ArgonFill` | `initialize_randomx` | instantiates `ArgonLane` |
| `ArgonLane` | abstract specification: the lane of Argon2d | |
| `VmControl` | decoding and control flow of a compact program | |
| `VmState` | words, VM state, head and tail of an iteration | |
| `CompactIsa` | `init_vm`, decoder and instructions of the compact interpreter | `VmState` |
| `ReferenceIsa` | `init_vm`, decoder and instructions of the reference interpreter | `VmState` |
| `Differential` | both interpreters in lockstep on one thread | `CompactIsa`, `ReferenceIsa` |
| `SoftFp` | the operations of randomx_softfp, and IEEE rounding by order | |
| `FloatGroups` | the values the floating-point registers reach | `SoftFp` |
| `HashDriver` | a hash on a used VM, threads, guard, panics | instantiates `HashService` |
| `HashService` | abstract specification: what a caller of `calculate_hash` may rely on | |
| `Superscalar` | `ScProgram::generate` and paired dispatch | |
| `GasPool` | main thread and workers of the gas executor | |
| `ProverClient` | `prove` and `resume`, files, network, crashes | |
| `SeedHeight` | the two seed-height functions along a chain | |
| `BlockRecord` | from a served record to fixtures and to the requester's input | `SeedHeight` |

`MC<module>.tla` and its `.cfg` files instantiate a module for TLC;
`<module>_proofs.tla` holds its theorems (those about `SeedHeight` are in
`BlockRecord_proofs`). Operators introduced by a comment that
starts with "Mutant:" are faulty variants of the definition that follows them. No
specification uses them; they document which mistake each property rules out.

### Correspondence with the code

**ArgonFill.** A block holds the number of the write that produced it, or
`Uninit`. `SeedBlock` is the loop that writes blocks 0 and 1; `BeginSegment`,
`FillBlock` and `EndSegment` are the segment function with its const generics
(pass 0 does not read the block it overwrites) and the slices of a pass;
`AssumeInit` separates the first pass from the others. The word that selects
the reference block is an output of Blake2b and is any number below
`RandRange`; the reference rule (area, relative position, start, wrap-around)
is exact. `ArgonLane` says only what Argon2d promises: blocks are written in
order, each from its predecessor, some block of the allowed window and, from the
second pass on, its old content.

**VmControl.** An instruction is reduced to what decoding and branching can tell
apart: the registers it modifies, and for `CBRANCH` register, condition shift
and immediate. `Decode` performs one turn of `from_bytes` and updates
`register_usage` as `decode_instruction` does, the two exceptional cases
(reciprocal of zero or a power of two, swap of a register with itself)
included. `Fetch` with `ExecPlain`, `ExecSwap` or `ExecBranch` is one turn of
`run`'s inner loop. Arithmetic results are any of `Values`; the increment, the
condition test and the wrap-around of `exec_cbranch` are exact, with 2^shift
written as a unit. `visits` is a history variable.

**VmState, CompactIsa, ReferenceIsa, Differential.** Words have `2 * HalfBits`
bits; masks, rotations, sign extensions, high products and reciprocals are
computed on them. The bit operators are defined in `VmState`, bit by bit, on the
two's complement. `VmAssumption` and `DifferentialAssumption` say what the code's
constants and inputs satisfy: sizes are whole words and lines, a byte offset of
a register is never `NO_REG`, and feeds are made of instructions and words. What the two programs have
written out twice is translated twice: the decoders, the effects, `init_vm` with
`small_positive_float_bit` and `float_mask`, the mask of group E (`ReferenceMask` where
FDIV_M uses the reference's own), the test for a power of two. The compact decoder
works with byte offsets, precomputed masks and `NO_REG`, the reference one with `Store`
operands, modes, l-cache forms and reciprocals at decode time (the default
feature `precompute-reciprocal`). `NeverPanics` lists the operand kinds and modes the
reference's effects insist on; `set_rounding_mode` also asserts a mode below four, which
both CFROUNDs make sure of. `PrepareIteration` and `FinishIteration` are one definition
each because the audit calls one copy, its own `prepare_iteration` and
`finish_iteration`, for both machines; the loops of `Vm::run` and of the compact `run`
spell the same steps out again, and are compared neither by the audit nor here. A floating-point result is a fixed function
of operands and rounding mode that tells modes and operands apart: the host
unit is external, and the compact side's software operations take the mode
from the VM where the host takes it from the control register. That the operations of
`randomx_softfp` equal the host's (`SoftFloat`) is the question of `SoftFp` and `FloatGroups`.
`Differential` has an action for each stage of `differential_audit`: `Start`
(rounding mode reset on whatever the caller had), `Decode`, `StartRun`,
`Prepare`, `Execute` (one instruction on both, with one shared control
register), `Finish`, `NextProgram`, `FinishHash` (the hash of the reference scratchpad
goes to the registers of both). The action `Returned` lets a finished audit stutter.
`Feeds` names the families of programs, scratchpads and entropies that a
behaviour may draw from. `randomx_reciprocal` is its loop, shift by shift.

**SoftFp, FloatGroups.** A value is its bit pattern in a format with `FracBits`
and `ExpBits`; the wide integers have `WideBits` and the alignment limit of 75
is `Cutoff`. `add_inner`, `mul_inner`, `div_inner` and `sqrt_inner` follow the
source: nearest result, overflow, relation of the exact result to it, step to a
neighbour. The nearest result is a compiler builtin in the source and is IEEE
rounding here. `Reference` defines rounding from the order of the representable
values alone, without the source's case distinctions.
`FloatGroups` follows one value in a register: it is loaded (group F from an
integer, group E with the exponent and mantissa mask of its lane), and then any
instruction that may meet its group applies, with any source of group A or of
the scratchpad, in the current mode. Instructions work lane by lane except
`exec_fswap`, which moves the value to the other lane; the two lanes of group E have
masks of their own, so from then on the value is divided by operands under a
mask it was not loaded with. `e_mask` has the mask of the value's lane first.

**HashDriver, HashService.** A field of the VM is abstracted to what it was
computed from: inputs of calls, memories, callers' modes. A step gives what
it writes the sources of everything it reads, so a digest whose sources are
not exactly its input and its memory has seen something stale. `capture`,
`init_scratchpad`, `reset_rounding_mode`, `init_vm`, `prepare_iteration`,
`execute`, `finish_iteration`, `next_seed` and `finish_hash` are the stages of
`calculate_hash_impl` and `run`; `unwind` is a panic at any of them, dropping the
guard as Rust does and leaving the VM as it is. `execute` stands for a whole
program pass and reads the VM's mode and the control register. `HashService` has
calls, digests, panics and the caller's own mode. The guest has no control
register; the model is of the native build.

**Superscalar.** One action per stage of the two loops of `generate`:
`FetchBuffer`, `NextMacroOp`, `AcceptDraw`, `RefuseDraw` and `DrawAgain` (the two loops
in which `ScInstr::create` draws a rotation and a divisor until they will do),
`Schedule`, `SelectSource`, `SelectDestination`
(both with the look-ahead and the throw-away rule), `Commit`, `EndBuffer`,
`Finish`, then `MeasureAsic` and `EndMeasure` for the latencies that choose the address
register. Every draw of the Blake2 generator is an `\E`. The micro-operation
tables, decoder buffers and port rules are those of the code.
`ExecuteCompact` and `ExecuteReference` give, as sequences of operations with
registers, what paired dispatch and one-by-one execution do with a finished
program.

**GasPool.** `traces` and `reports` are the channels, `lock` the mutex around
the receiver. A worker locks, receives while it holds the lock, estimates,
sends its report and drops the trace, or panics in between. Main executes a
chunk when a trace slot is free, sends it if it is in the range, drops the
sender, joins the workers in order and collects. The runner with its trace
slots is external and modelled from how `main.rs` uses it.

**ProverClient.** An action is what happens between two points where the
process may stop or another may run. `fs::write` is two actions, create and
fill. `Stop` is a crash or a failing await at any point; `lost` records
requests whose ID did not reach the file. `Settle` is the network deciding a
request, `Spend` another use of the account.

**SeedHeight.** Both functions, with a chain that grows by one block per step.

**BlockRecord.** A hash is the term of what was hashed, tagged so that bytes and
hashes never look alike; `tree_hash` with its in-place levels, the varints, the
hashing blob, the block ID and the carry chain of `meets_difficulty` (`carries`) are
exact.
`Served` is what an endpoint may serve for a height: any records of the right types
(`IsRecord`); the run serves the block of the chain and variants of it in which one
or two fields are altered, under the block's ID or their own, each with a difficulty
that its hash may miss. The four programs have checks of their own, and so has the model:
`builder_accepts`, `validator_accepts`, `recorder_accepts` and
`requester_accepts`, the last with the requester's own copies of
`append_varint` and `meets_difficulty`. `build_fixture`
is one turn of `network_fixture_builder`, `validate_recent_mainnet_blocks`
validates the fixtures later, `monero_block_input` records one block and
`validate_input` is the requester's view of it. A failed assertion ends the tool.
The proof-of-work hash is one function of the blob, for the official library, the
reference and the compact machine alike, and does not depend on the seed hash, which no check
computes from a block; that the two machines agree in result and final state is the subject of
`Differential`. The network name and
the time-out that the requester compares with constants of the embedded block
are left out.

## 3. Runs

| Run | Distinct states | Result |
| --- | --- | --- |
| `argon_fill` | 639 | operands safe, `assume_init` sound, lane contents, refinement of `ArgonLane`, termination |
| `vm_control` | 184,583 | branch targets canonical, fetch in bounds, at most three visits, body keeps the register, termination |
| `differential` | 86,692 | agreement of the machines, host mode current, accesses safe, reciprocals exact |
| `float_groups` | 27,276 | groups in the domain of softfp, its assertions, exact rounding in every mode |
| `hash_driver` | 104,032 | host follows the VM, refinement of `HashService` |
| `superscalar` | 30,925 | slots fit, second scheduling succeeds, no wasted work, address register, paired dispatch, results after operands, termination |
| `gas_pool` | 217,062 | total complete, no report missing, main returns |
| `gas_pool_stopped` | | violated: see finding 1 |
| `prover_client` | 11,654 | waiting persisted, paid accounted, saved proof verified, nothing submitted over existing files, resume completes |
| `prover_client_two` | | violated: see finding 2 |
| `block_record` | 8,456 | the tip binds the records, what one program records the next accepts, tree canonical, difficulty exact, seed heights agree off the boundary |
| `seed_height_recorded` | | violated: see finding 3 |

### Bounds

* `argon_fill`: segments of 4 blocks, so that the first segment has blocks
  after the two seed blocks and every slice has a first, inner and last block;
  `RandRange` 16, at least the reference area, reaches every relative position
  the quadratic rule can give; three passes as in the code.
* `vm_control`: three instructions and two registers allow a branch after a
  branch, a branch after a write to its register, and a body. Words of five
  bits with a two-bit condition field; the immediates include one whose
  increments carry from below the unit into the field, which is what makes a branch be taken
  twice; both units are used. The proofs remove these bounds.
* `differential`: words of 16 bits with scratchpad levels of 32, 64 and 128
  bytes, so that the three masks differ; dataset of 128 bytes and two extra
  items, so that the offset matters. A word of 16 bits has a sign, the eleven bits of exponent
  that the code's constants ask for, and four of mantissa. The feed `every` takes the first and
  the last byte of each opcode's range with special register pairs: equal,
  the displaced register 5, a field above 7; three fixed instructions follow the
  one under test, and two iterations let it meet its own result. `mixed` draws all
  four instructions of two programs from eight that act on each other.
  `reciprocals` has every immediate of IMUL_RCP.
* `float_groups`: 2 fraction and 5 exponent bits, so that all operands can be
  enumerated, every pair of lane masks among them, with `WideBits` and `Cutoff` as tight as the source's are for its
  format (`FormatAssumption`). Four-bit integers and five operations reach
  cancellation, operands beyond the cutoff, overflow of group E to infinity, and
  infinity itself as an operand. Group F has exponents far from overflow, as in the
  source.
* `hash_driver`: two threads, two VMs, a memory and the memoryless mode, two
  modes and two calls: a VM used twice, on one thread or on two, after a return
  or after a panic, beside another call. Two programs of one iteration reach the
  first, a later and the last program.
* `block_record`: eight blocks with one to eight transactions (all shapes of the
  tree up to three levels), two epochs of four, fixtures of three blocks,
  varints of one to three bytes, hashes of three limbs. The largest
  difficulty is met by some blobs and missed by others; one blob length is accepted.
  Per height the endpoint serves up to 68 records: each varint changed or two of
  them exchanged, another nonce, height or predecessor, four other lists of
  transactions (reversed, shortened, lengthened, or the tree's own lowest level), alone and with
  another varint.
* `superscalar`: `Latency` 7, `MaxSize` 9, three registers, one throw-away
  allowed, chunks of four. `Words` {0, 14} selects the first and the last of
  three candidates, and 0 is refused as a divisor; `Bytes` has all values the low two bits
  distinguish, and 0 is refused as a rotation. In this
  instance all fourteen opcodes get into a program; instructions are thrown away and given up; the size limit
  is reached; look-ahead waits for a high multiply; a macro-op is committed in
  the last cycle of the port map, and the first scheduling fails. `decode_cycle`
  does not reach `Latency`, because the ports saturate first.
* `gas_pool`: two workers with the four slots the code gives two workers, and
  five chunks, one more than the slots. Ranges begin at the first or second
  chunk and end inside or beyond the guest. `gas_pool_stopped` has one worker
  and one slot, the calibrated mode.
* `prover_client`: three requests the account can pay for and four faults, so
  that a resumed process can be stopped again and a request can be lost and
  repeated. `prover_client_two` needs no fault.
* `seed_height_recorded`: the real constants.

### Fairness and stopping

Sequential code (`ArgonFill`, `VmControl`, `Superscalar`) has weak fairness of
its next step: a call keeps running. `Superscalar` also has strong fairness of
`AcceptDraw`: `ScInstr::create` draws an immediate again while the rotation is 0 or the
divisor 0 or a power of two, without a bound, so that generation ends only if
the Blake2 generator does not return such values for ever. One draw in 64, and
33 in 2^32, are refused. No other draw is assumed fair: `Terminates` holds for every
sequence of bytes and words in which every redraw loop ends. `GasPool` has weak fairness of main and of
each worker, which the operating system's scheduler gives; nothing forces a
worker to win the mutex. `HashDriver` states no fairness: that the loop over the
instructions ends is a property of `VmControl`. `ProverClient` has weak fairness
of a running process and strong fairness of `Resume`: the documentation tells the operator to run
`resume` after an interruption, and the property is about an operator who keeps
doing so. Faults are finite in number, network decisions are not forced.

Deadlock is checked except in two modules (`BlockRecord` and `HashDriver` always
have a next step). In `GasPool` the system may really
stop: main can wait for ever on a trace slot when every worker has panicked,
and a finished process does nothing. In `SeedHeight` the chain ends at
`MaxHeight`.

Type invariants of the modules with proofs are proved, not run again.

## 4. Findings

1. **The "all workers stopped" error cannot happen** (`executor/src/main.rs:199`).
   Main keeps an `Arc` of the receiver, so `send` never fails; after the last
   worker has panicked main goes on, and may wait for ever on a trace slot.
2. **The check against a duplicate request is not atomic**
   (`network-prover/src/main.rs:176`). The files are looked for well before the
   request is submitted; two processes can both pay, and the second overwrites
   the first's ID.
3. **Two seed heights** (`network-prover/src/main.rs:524`). The requester
   switches to a new key one block before the audit crate (and Monero), at the
   heights 64 blocks into an epoch, and rejects a correct block there. The
   block selected at this commit is not at such a height.

`CommitFindsPorts` also shows that the break after the second `schedule_mop`
(`superscalar.rs:884`) is never taken; `Superscalar_proofs` proves it for every
latency target.

## 5. Proofs

All theorems are for the specification without fairness.

**ArgonFill_proofs**, from `ConstantsAssumption` (at least two blocks a segment,
a positive range of the selecting word and at least one pass). `LaneContents`
alone is not inductive: the fill's position has to be tied to pass, slice and
previous offset. `IInv == TypeOK /\ Control /\ LaneContents` does so. One lemma
per action shows that it is preserved. `OperandsSafe` follows from it by a
lemma on the reference rule: the relative position lies in
`0 .. area - 1` for every selecting word, and a window of that size ending
before the previous block contains only written blocks, modulo the lane.
`FillImplementsLane` maps `SeedBlock` and `FillBlock` to steps of `ArgonLane` and
every other action to a stutter.

**VmControl_proofs**, from `VmAssumption` (units are even because a condition
shift is at least eight, and the condition field fits in the word). The
invariant says that recorded last uses and targets are canonical; that a branch
increment has the unit's bit set and the bit below clear (`Increments`); that a
branch visited and not yet left has its condition field zero, and after two
visits a small remainder (`Retrying`); and that an instruction between two branches is
fetched at most once more than the next branch (`Blocks`, `LastBlock`). The
arithmetic lemma behind `Retrying` is that adding such an increment twice to a
value whose field is zero makes the field nonzero unless a carry came from
below, and that this carry happens at most once. Hence three visits at most.
`BodyKeepsRegister` follows from canonical targets.

**Differential_proofs**, from `VmAssumption` and `DifferentialAssumption`.
`Agreement` is not inductive: equal machines step to equal machines only if the
instructions decoded for them are two forms of one instruction, offsets are in
range and the control register holds their mode. `LockstepInv` has a part for
each: `FrameInv` (stage, entropy and number of the program), `ProgramInv` (the programs have the same length
and at each place the two decodings of the same raw instruction with the same last
uses, which lie before it), `MachineInv` (equal machines, well typed, the host in
their mode once started) and `AddressInv` (equal scratchpad lines, whole while
a program executes). The argument, from below:

* what the bit operations compute is proved from their recursive definition
  (`Upward`, as in BlockRecord_proofs): a masked word is at most its mask
  (`AndBelow`), a mask of aligned bits leaves a multiple (`AndMultiple`), so that clearing
  the low bits of an address leaves a whole line (`WholeLine`). `MulH` by halves is the
  high word of the product (`MulHExact`), and the reciprocal loop has the value
  RandomX defines (`ReciprocalIs`);
* for each opcode, whatever its operands, the two decoders give forms with the
  same last uses and the same effect on every machine whose host is in its mode,
  the accesses are in range, and the result is such a machine again (`AllVerified`,
  `UsesAgree`). The special cases (same register, no source register, zero or power
  of two, store conditions, swap with itself) are cases of these lemmas;
* the two copies of `init_vm` start a machine alike (`SameInit`); they, the head and tail
  of an iteration and the final hash keep a machine well typed, and its lines and
  dataset item in range.

The host's floating-point unit is the function of operands and mode that
the model gives it; the proof uses its type and that both sides apply the same
one.

**ProverClient_proofs** assumes `SingleProcess`, at most one process, in each
theorem; `prover_client_two` shows that without it uniqueness fails.
The invariant adds that a submitting process has found no files since it
started (`Unsubmitted`), that the ID file is what the process's position says
(`Persisting`), and that what is about to be saved was verified (`Saving`).

`SubmitsOnlyWithoutFiles` is an action property: a step that submits starts from
a process whose file checks, some steps back, are still true, by `Unsubmitted`.

**HashDriver_proofs**, for any threads, VMs, memories, programs and iterations.
`HostFollowsVm` alone is not inductive; the refinement needs more still. The
invariant adds that a thread outside a call holds nothing and a VM serves one
call (`Ownership`), and, stage by stage, from what each field in use was computed
(`Provenance`): a field may hold what an earlier call or a panic left until the
stage that writes it, and no stage reads it before. `DriverImplementsService`
maps `capture` to a call, `finish_hash` to a return and `unwind` to a panic of
`HashService`, and every stage between them to a stutter.

**GasPool_proofs**, for any number of workers, slots and chunks. The invariant is
an account (`Account`): the chunks sent are the disjoint union of the trace
channel, the traces workers hold, the report channel and the total, and none of
these holds a chunk twice. `Stopping` says that a worker stops only after the
sender is dropped and the channel is empty, so that after the joins the account
leaves only reports and total, and `recv`, which waits while a worker lives, cannot fail. Hence `NoReportMissing` and `TotalComplete`.

**Superscalar_proofs**, for every latency target, size, number of registers and
stream of draws. The invariant has a part for each argument: `Fit` (a multi-macro-op
instruction begins in the last slot of its buffer, and the next buffer takes the
rest of it), `Free` and `Times` (until the ports are saturated the
last cycles of the map are free, and a wait for operands ends at a register's
latency, less than the size of the map, so the second scheduling succeeds), `Operands`,
`Current`, `History` and `Clean` (a register's record is the group and parameter
of the last instruction on it, which is what makes the comparison in
`select_destination` enough for `NoWastedWork`). `ResultsAfterOperands` is an
action property from `Operands`. `DispatchFaithful` needs no invariant but the
type of the program: chunk, pair and remainder offsets partition its indices.
`AddressOnLongestChain` rests on an invariant of its own, `Longest`: a register's asic
latency is the length of a chain of dependent instructions that ends at its
last writer, and no chain that ends there is longer.

**BlockRecord_proofs**, for every chain, endpoint, seed height, epoch, limb base
and number of limbs. First, from `Lag < Epoch`: the two functions of `SeedHeight` differ
exactly at `Lag` blocks into an epoch from the first epoch on, and the chain
properties follow.

`Served` is any function to records (`ServedAssumption`): nothing is assumed of what
the endpoint alters. `Kept` says that every record kept passed the builder's checks and is linked
to the one before, `InputKept` the same of the recorded block and the recorder's checks. For
`RecordedValidates` the validator's checks are derived from the builder's, through the fields
that a fixture keeps, and the requester's from the recorder's (`CopiesAgree`). The other three theorems need
facts about recursive definitions. The library's induction theorems cannot be
used, but least elements of a set of numbers can: `LeastNat` gives induction with
the property as a set (`Upward`, `Strong`), and from it that the recursive
functions of the model exist and satisfy their equations (`Recursion`,
`HalvesExist`, `ChainIds`).

* `DifficultyExact`: after i limbs the carry is the number of whole `Place[i]` in
  the product of the limbs so far and the difficulty (`CarryExact`), and stays
  below the limb base (`ProductFits`), so no product leaves its `u128`.
* `TipBindsRecords`: no varint is the beginning of another (`VarintPrefix`), so
  a hashing blob is read back in one way (`BlobBinds`); each in-place level holds the
  pairs of the level below (`HalvedPairs`), the lengths of the levels double up
  to the lowest one (`LevelDoubles`), and the lowest one has every transaction in
  a place of its own (`FirstLevelBinds`), so equal tree hashes of equally many
  transactions have equal transactions (`TreeBinds`). Equal IDs thus mean equal
  records, and the links carry this from the last record down to the first,
  which is never below the first block because no ID of a record is the one
  before the chain (`IdNotGenesis`).
* `TreeCanonical`: walking down from the root by the digits of a place reaches, in
  the array of each length, the entry that the place divided by the room below
  it names (`DescentReaches`, by doubling from the array of length two to
  the lowest one); the lowest array holds the first transactions themselves and
  pairs of the others, and twice its length is a power of two (`LevelPower`) with
  room for all of them and less than twice their number (`LevelDoubles`).

Only model-checked:

* liveness (termination, `ResumeCompletes`, main returns), since
  fairness is out of the prover's reach;
* `FloatGroups`. Its reference rounds by comparing integers that TLC can hold, so it
  is a reference only for narrow formats (`CompareScaled`); that the values stay in
  the domain depends on how the exponent ranges of the groups, the number of
  operations and the format fit together, which the model fixes by its
  configuration and not by an assumption; and a proof would need the theory of
  rounding with symbolic powers of two;
* that the two processes of `prover_client_two` and the worker of
  `gas_pool_stopped` misbehave, which are counterexamples.

## 6. Not modelled

* AES, Blake2b, the Argon2 compression function and the host intrinsics of
  `m128.rs`: pure data transformations without control. `Differential` uses an
  uninterpreted floating-point function; `FloatGroups` shows separately that
  softfp rounds as IEEE 754, and hence the host, does.
* The mixing of cache blocks by address register in `init_dataset_item`; an
  item is a function of its number.
* Argument and environment parsing, printing, `account`, `evm-verify`.
* Text formats, hex and the bindings to the official library in the audit crate.
* The guests: `program` reads two inputs, hashes and commits; `softfp/src/guest.rs`
  and the probes measure cycles and compare fixed vectors.

## 7. Plan

Done, in this order: cache fill; control flow; the two instruction sets and
their lockstep; prover client; gas pool; seed height; superscalar generator;
their proofs; floating point on a small format; the hash driver and the service
it implements; block records; the reciprocal loop.

The proofs of `ArgonFill`, `VmControl`, `SeedHeight`, `ProverClient`, `HashDriver`
(with its refinement), `GasPool`, `Superscalar`, `BlockRecord` (with the shape of the
tree) and `Differential` are done.

Left:

1. A reference for `SoftFp` on unbounded integers, and from it what `apply_mode` needs:
   the nearest result is a neighbour of the exact one, and a directed mode moves
   it by at most one place and to the right side.
2. The ranges of the two register groups as assumptions on the constants, so that
   `GroupsInDomain` can be stated for the real format.
