------------------------------ MODULE GasPool ------------------------------
(***************************************************************************)
(* The gas estimator of the executor (executor/src/main.rs): the main      *)
(* thread executes the guest chunk by chunk and sends the traces of the    *)
(* selected chunks to a pool of workers over a channel whose receiving end *)
(* is behind a mutex; each worker sends back a report.  The main thread    *)
(* then joins the workers and adds up as many reports as it sent traces.   *)
(*                                                                         *)
(* The runner that produces the traces is external.  It owns Slots trace   *)
(* buffers, and a trace occupies one until it is dropped.                  *)
(***************************************************************************)
EXTENDS Integers, Sequences, FiniteSets

CONSTANTS WorkerCount,  \* gas_workers: 1 (calibrated) to 3 (fast)
          Slots,        \* gas_trace_slots: 1, or two more than the workers
          MaxChunks,    \* bound: chunks of a guest execution
          FirstChunks,  \* possible first chunks of SP1_GAS_CHUNK_RANGE
          LastChunks    \* possible last chunks

ASSUME GasPoolAssumption ==
    /\ WorkerCount \in Nat \ {0}
    /\ Slots \in Nat \ {0}
    /\ MaxChunks \in Nat
    /\ FirstChunks \subseteq Nat \ {0}
    /\ LastChunks \subseteq Nat

VARIABLES guest,        \* the chunks the guest runs for
          range,        \* gas_chunk_range
          main,         \* what the main thread does next
          failure,      \* the error main returns
          gas_chunks, estimated_gas_chunks,
          traces,       \* the channel of traces
          open,         \* trace_sender has not been dropped
          lock,         \* holder of the mutex
          worker,       \* what each worker does next
          task,         \* the chunk a worker works on
          reports,      \* the channel of reports
          joined,       \* workers that have been joined: the first ones
          total         \* the chunks in gas_report, in the order they were added

vars == <<guest, range, main, failure, gas_chunks, estimated_gas_chunks, traces, open, lock,
          worker, task, reports, joined, total>>

Workers == 1 .. WorkerCount
Nobody == 0
Ended == {"stopped", "panicked"}

\* Main has returned: the process has exited, and its threads with it.
Returned == main \in {"succeeded", "failed"}

Init ==
    /\ guest \in 0 .. MaxChunks
    /\ range \in {r \in FirstChunks \X LastChunks : r[1] <= r[2]}
    /\ main = "execute"
    /\ failure = "none"
    /\ gas_chunks = 0
    /\ estimated_gas_chunks = 0
    /\ traces = <<>>
    /\ open = TRUE
    /\ lock = Nobody
    /\ worker = [w \in Workers |-> "lock"]
    /\ task = [w \in Workers |-> 0]
    /\ reports = <<>>
    /\ joined = 0
    /\ total = <<>>

Fail(reason) == main' = "failed" /\ failure' = reason

-----------------------------------------------------------------------------
(* The main thread.                                                        *)

\* Traces that have not been dropped occupy a slot each.
Busy == {w \in Workers : worker[w] \in {"estimate", "drop"}}
SlotsInUse == Len(traces) + Cardinality(Busy)

\* Mutant: the range excludes its last chunk.
InRangeExclusive(chunk) == range[1] <= chunk /\ chunk < range[2]

\* gas_chunk_range is one-based and inclusive.
InRange(chunk) == range[1] <= chunk /\ chunk <= range[2]

\* try_execute_chunk, which waits for a slot.  The chunk is dropped at once
\* when it is not in the range.
ExecuteChunk ==
    /\ main = "execute"
    /\ gas_chunks < guest
    /\ SlotsInUse < Slots
    /\ gas_chunks' = gas_chunks + 1
    /\ main' = IF InRange(gas_chunks') THEN "send" ELSE "execute"
    /\ UNCHANGED <<guest, range, failure, estimated_gas_chunks, traces, open, lock, worker, task,
                   reports, joined, total>>

\* The guest fails, and main returns without joining.
ExecutionFails ==
    /\ main = "execute"
    /\ gas_chunks < guest
    /\ SlotsInUse < Slots
    /\ Fail("guest")
    /\ UNCHANGED <<guest, range, gas_chunks, estimated_gas_chunks, traces, open, lock, worker, task,
                   reports, joined, total>>

\* The guest has halted; trace_sender is dropped.
ExecutionEnds ==
    /\ main = "execute"
    /\ gas_chunks = guest
    /\ main' = "join"
    /\ open' = FALSE
    /\ UNCHANGED <<guest, range, failure, gas_chunks, estimated_gas_chunks, traces, lock, worker,
                   task, reports, joined, total>>

ChunkIndex == gas_chunks

\* send: main still holds an Arc of trace_receiver, so the channel is connected
\* even when no worker is left.
SendTrace ==
    /\ main = "send"
    /\ estimated_gas_chunks' = estimated_gas_chunks + 1
    /\ traces' = Append(traces, ChunkIndex)
    /\ main' = "execute"
    /\ UNCHANGED <<guest, range, failure, gas_chunks, open, lock, worker, task, reports, joined, total>>

\* Mutant: main does not wait for the workers.
JoinedRunning(w) == TRUE

\* join returns.
Joins(w) == worker[w] \in Ended

JoinWorker ==
    /\ main = "join"
    /\ Joins(joined + 1)
    /\ joined' = joined + 1
    /\ IF worker[joined + 1] = "panicked"
       THEN Fail("worker panicked")
       ELSE /\ main' = IF joined' = WorkerCount THEN "collect" ELSE "join"
            /\ UNCHANGED failure
    /\ UNCHANGED <<guest, range, gas_chunks, estimated_gas_chunks, traces, open, lock, worker, task,
                   reports, total>>

\* Each worker owns a report sender until it ends; main has dropped its own.
SendersGone == \A w \in Workers : worker[w] \in Ended

\* recv waits while a sender lives, and fails when the channel is empty and all
\* senders are gone.
CollectReport ==
    /\ main = "collect"
    /\ Len(total) < estimated_gas_chunks
    /\ reports # <<>> \/ SendersGone
    /\ IF reports = <<>>
       THEN /\ Fail("no report")
            /\ UNCHANGED <<reports, total>>
       ELSE /\ reports' = Tail(reports)
            /\ IF Head(reports).ok
               THEN /\ total' = Append(total, Head(reports).chunk)
                    /\ UNCHANGED <<main, failure>>
               ELSE Fail("gas") /\ UNCHANGED total
    /\ UNCHANGED <<guest, range, gas_chunks, estimated_gas_chunks, traces, open, lock, worker, task,
                   joined>>

\* is_done, exit_code and public values, which are the guest's.
Conclude ==
    /\ main = "collect"
    /\ Len(total) = estimated_gas_chunks
    /\ \/ main' = "succeeded" /\ UNCHANGED failure
       \/ Fail("guest")
    /\ UNCHANGED <<guest, range, gas_chunks, estimated_gas_chunks, traces, open, lock, worker, task,
                   reports, joined, total>>

-----------------------------------------------------------------------------
(* The workers.                                                            *)

Lock(w) ==
    /\ ~Returned
    /\ worker[w] = "lock"
    /\ lock = Nobody
    /\ lock' = w
    /\ worker' = [worker EXCEPT ![w] = "recv"]
    /\ UNCHANGED <<guest, range, main, failure, gas_chunks, estimated_gas_chunks, traces, open, task,
                   reports, joined, total>>

\* Mutant: a sender is left that keeps the channel open.
ClosedNever == FALSE

\* The channel is empty and its sender is gone.
Closed == traces = <<>> /\ ~open

\* recv, with the guard of the mutex alive until it returns.
Receive(w) ==
    /\ ~Returned
    /\ worker[w] = "recv"
    /\ \/ /\ Closed
          /\ worker' = [worker EXCEPT ![w] = "stopped"]
          /\ UNCHANGED <<traces, task>>
       \/ /\ traces # <<>>
          /\ worker' = [worker EXCEPT ![w] = "estimate"]
          /\ task' = [task EXCEPT ![w] = Head(traces)]
          /\ traces' = Tail(traces)
    /\ lock' = Nobody
    /\ UNCHANGED <<guest, range, main, failure, gas_chunks, estimated_gas_chunks, open, reports,
                   joined, total>>

\* The gas VM runs, and its result is sent; report_receiver outlives the
\* workers unless the process exits.
Estimate(w) ==
    /\ ~Returned
    /\ worker[w] = "estimate"
    /\ \E ok \in BOOLEAN : reports' = Append(reports, [chunk |-> task[w], ok |-> ok])
    /\ worker' = [worker EXCEPT ![w] = "drop"]
    /\ UNCHANGED <<guest, range, main, failure, gas_chunks, estimated_gas_chunks, traces, open, lock,
                   task, joined, total>>

\* The trace is dropped at the end of the loop's body.
DropTrace(w) ==
    /\ ~Returned
    /\ worker[w] = "drop"
    /\ worker' = [worker EXCEPT ![w] = "lock"]
    /\ UNCHANGED <<guest, range, main, failure, gas_chunks, estimated_gas_chunks, traces, open, lock,
                   task, reports, joined, total>>

\* The gas VM panics; unwinding drops the trace.
Panic(w) ==
    /\ ~Returned
    /\ worker[w] = "estimate"
    /\ worker' = [worker EXCEPT ![w] = "panicked"]
    /\ UNCHANGED <<guest, range, main, failure, gas_chunks, estimated_gas_chunks, traces, open, lock,
                   task, reports, joined, total>>

Returning == Returned /\ UNCHANGED vars

Main == ExecuteChunk \/ ExecutionEnds \/ SendTrace \/ JoinWorker \/ CollectReport \/ Conclude

Work(w) == Lock(w) \/ Receive(w) \/ Estimate(w) \/ DropTrace(w)

Next ==
    \/ Main \/ ExecutionFails \/ Returning
    \/ \E w \in Workers : Work(w) \/ Panic(w)

Spec == Init /\ [][Next]_vars

\* The operating system runs every thread that can run.  The mutex is not fair:
\* a worker may wait for it while the others are served.
FairSpec == Spec /\ WF_vars(Main) /\ \A w \in Workers : WF_vars(Work(w))

-----------------------------------------------------------------------------
(* Properties.                                                             *)

Selected == {c \in 1 .. gas_chunks : range[1] <= c /\ c <= range[2]}

\* The channels carry chunks the guest has run, and the counters stay within
\* the traces produced.
TypeOK ==
    /\ gas_chunks \in 0 .. guest
    /\ estimated_gas_chunks \in 0 .. gas_chunks
    /\ main \in {"execute", "send", "join", "collect", "succeeded", "failed"}
    /\ lock \in {Nobody} \cup Workers
    /\ worker \in [Workers -> {"lock", "recv", "estimate", "drop"} \cup Ended]
    /\ task \in [Workers -> 0 .. gas_chunks]
    /\ traces \in Seq(1 .. gas_chunks)
    /\ reports \in Seq([chunk : 1 .. gas_chunks, ok : BOOLEAN])
    /\ total \in Seq(1 .. gas_chunks)
    /\ joined \in 0 .. WorkerCount

\* Once every worker has been joined without a panic there is a report for each
\* trace sent: recv never returns the error "an SP1 gas worker returned no
\* report".
NoReportMissing == failure # "no report"

\* A gas total that is printed has each selected chunk in it exactly once,
\* whichever workers took them and in whichever order the reports came back.
TotalComplete ==
    main = "succeeded" =>
        /\ {total[n] : n \in DOMAIN total} = Selected
        /\ Len(total) = Cardinality(Selected)

\* As long as one worker has not panicked main returns: the workers drain the
\* channel, see it closed and end, although they wait for traces while they
\* hold the mutex.
Terminates == <>(Returned \/ \A w \in Workers : worker[w] = "panicked")

\* main.rs says that sending a trace after the last worker has ended is an
\* error, "all SP1 gas workers stopped early".
StoppedWorkersReported ==
    [][main = "send" /\ (\A w \in Workers : worker[w] \in Ended)
         => failure' = "stopped early"]_vars
=============================================================================
