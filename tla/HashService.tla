---------------------------- MODULE HashService ----------------------------
(***************************************************************************)
(* What a caller of calculate_hash may rely on.  A digest is a function of *)
(* the memory of the Vm and of the input alone, whoever used the Vm or the *)
(* thread before, and the floating-point mode of a thread changes only     *)
(* between its calls.  A call may also end in a panic that the caller      *)
(* catches; the Vm may be used again.                                      *)
(***************************************************************************)
EXTENDS Integers

CONSTANTS Threads, Vms, Memories, HostModes, MaxCalls

VARIABLES memory,       \* memory[v]: what the Vm was created with
          current,      \* current[t]: the call of a thread, or NoCall
          outcome,      \* outcome[t]: of its last call
          mode,         \* mode[t]: the mode the thread computes in, as it sees it
          calls         \* calls begun; each has an input of its own

vars == <<memory, current, outcome, mode, calls>>

NoCall  == [vm |-> "none", input |-> 0]
Panic   == [vm |-> "panic", input |-> 0]
Digest(v, input) == [vm |-> memory[v], input |-> input]

Init ==
    /\ memory \in [Vms -> Memories]
    /\ current = [t \in Threads |-> NoCall]
    /\ outcome = [t \in Threads |-> NoCall]
    /\ mode \in [Threads -> HostModes]
    /\ calls = 0

\* &mut Vm: a Vm serves one call at a time.
Call(t, v) ==
    /\ calls < MaxCalls
    /\ current[t] = NoCall
    /\ \A u \in Threads : current[u].vm # v
    /\ calls' = calls + 1
    /\ current' = [current EXCEPT ![t] = [vm |-> v, input |-> calls + 1]]
    /\ UNCHANGED <<memory, outcome, mode>>

Return(t) ==
    /\ current[t] # NoCall
    /\ outcome' = [outcome EXCEPT ![t] = Digest(current[t].vm, current[t].input)]
    /\ current' = [current EXCEPT ![t] = NoCall]
    /\ UNCHANGED <<memory, mode, calls>>

Unwind(t) ==
    /\ current[t] # NoCall
    /\ outcome' = [outcome EXCEPT ![t] = Panic]
    /\ current' = [current EXCEPT ![t] = NoCall]
    /\ UNCHANGED <<memory, mode, calls>>

\* The caller changes its own mode between calls.
SetMode(t) ==
    /\ current[t] = NoCall
    /\ \E m \in HostModes : mode' = [mode EXCEPT ![t] = m]
    /\ UNCHANGED <<memory, current, outcome, calls>>

Next == \E t \in Threads :
            Return(t) \/ Unwind(t) \/ SetMode(t) \/ \E v \in Vms : Call(t, v)

Spec == Init /\ [][Next]_vars
=============================================================================
