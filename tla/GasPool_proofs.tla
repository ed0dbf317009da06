--------------------------- MODULE GasPool_proofs ---------------------------
(***************************************************************************)
(* No report is missing and no chunk is counted twice, for any number of   *)
(* workers, slots and chunks and any range of chunks.                      *)
(*                                                                         *)
(* The argument is an account of the traces sent.  Each is in one place    *)
(* only: in the channel of traces, with a worker, in the channel of        *)
(* reports, or in the total.                                               *)
(***************************************************************************)
EXTENDS GasPool, FiniteSetTheorems, SequenceTheorems, TLAPS

\* What a sequence holds, and that it holds nothing twice.
Elements(seq) == {seq[n] : n \in 1 .. Len(seq)}
Distinct(seq) == \A m, n \in 1 .. Len(seq) : m # n => seq[m] # seq[n]

\* The same of the chunks of a sequence of reports.
ChunksOf(seq) == {seq[n].chunk : n \in 1 .. Len(seq)}
DistinctChunks(seq) == \A m, n \in 1 .. Len(seq) : m # n => seq[m].chunk # seq[n].chunk

\* The chunks whose traces have been sent.
Sent == {c \in 1 .. gas_chunks : InRange(c) /\ (main = "send" => c # gas_chunks)}

\* The workers that have a trace without a report.
Holding == {w \in Workers : worker[w] \in {"estimate", "panicked"}}
Held    == {task[w] : w \in Holding}

-----------------------------------------------------------------------------
(* The inductive invariant.                                                *)

Typed ==
    /\ TypeOK
    /\ guest \in Nat
    /\ range[1] \in Nat /\ range[2] \in Nat
    /\ open \in BOOLEAN
    /\ main = "send" => gas_chunks > estimated_gas_chunks /\ InRange(gas_chunks)

\* Every trace sent is in one place, once.
Account ==
    /\ Elements(traces) \cup Held \cup ChunksOf(reports) \cup Elements(total) = Sent
    /\ Elements(traces) \cap Held = {} /\ Elements(traces) \cap ChunksOf(reports) = {}
    /\ Elements(traces) \cap Elements(total) = {} /\ Held \cap ChunksOf(reports) = {}
    /\ Held \cap Elements(total) = {} /\ ChunksOf(reports) \cap Elements(total) = {}
    /\ Distinct(traces) /\ DistinctChunks(reports) /\ Distinct(total)
    /\ \A v, w \in Holding : v # w => task[v] # task[w]
    /\ estimated_gas_chunks = Cardinality(Sent)

\* A worker stops only when there is nothing left to receive, and main goes on
\* to collect only when all of them have.
Stopping ==
    /\ main \in {"execute", "send"} => open /\ joined = 0
    /\ \A w \in Workers : worker[w] = "stopped" => ~open /\ traces = <<>>
    /\ main \in {"join", "collect", "succeeded"} => \A w \in 1 .. joined : worker[w] = "stopped"
    /\ main = "join" => joined < WorkerCount
    /\ main \in {"collect", "succeeded"} => joined = WorkerCount

IInv ==
    /\ Typed /\ Stopping /\ NoReportMissing
    /\ main # "failed" => Account
    /\ main = "succeeded" => Len(total) = estimated_gas_chunks

-----------------------------------------------------------------------------
(* Lemmas on sequences.                                                    *)

LEMMA EmptyElements ==
    /\ Elements(<<>>) = {} /\ Distinct(<<>>)
    /\ ChunksOf(<<>>) = {} /\ DistinctChunks(<<>>)
  BY DEF Elements, Distinct, ChunksOf, DistinctChunks

LEMMA AppendElements ==
    ASSUME NEW S, NEW seq \in Seq(S), NEW e \in S
    PROVE  /\ Append(seq, e) \in Seq(S) /\ Len(Append(seq, e)) = Len(seq) + 1
           /\ Elements(Append(seq, e)) = Elements(seq) \cup {e}
           /\ Distinct(seq) /\ e \notin Elements(seq) => Distinct(Append(seq, e))
  <1> DEFINE s == Append(seq, e)
  <1>1. /\ Len(seq) \in Nat /\ s \in Seq(S) /\ Len(s) = Len(seq) + 1
        /\ \A i \in 1 .. Len(seq) : s[i] = seq[i]
        /\ s[Len(seq) + 1] = e
    BY AppendProperties, LenProperties
  <1> HIDE DEF s
  <1>2. Elements(s) = Elements(seq) \cup {e}
    <2>1. 1 .. Len(s) = (1 .. Len(seq)) \cup {Len(seq) + 1}
      BY <1>1
    <2> QED
      BY <1>1, <2>1 DEF Elements
  <1>3. ASSUME Distinct(seq), e \notin Elements(seq)
        PROVE  Distinct(s)
    <2> SUFFICES ASSUME NEW m \in 1 .. Len(s), NEW n \in 1 .. Len(s), m < n
                 PROVE  s[m] # s[n]
      BY <1>1 DEF Distinct
    <2>1. m \in 1 .. Len(seq) /\ s[m] = seq[m] /\ s[m] \in Elements(seq)
      BY <1>1 DEF Elements
    <2>2. CASE n = Len(seq) + 1
      BY <1>1, <1>3, <2>1, <2>2
    <2>3. CASE n \in 1 .. Len(seq)
      BY <1>1, <1>3, <2>1, <2>3 DEF Distinct
    <2> QED
      BY <1>1, <2>2, <2>3
  <1> QED
    BY <1>1, <1>2, <1>3 DEF s

LEMMA TailElements ==
    ASSUME NEW S, NEW seq \in Seq(S), seq # <<>>
    PROVE  /\ Head(seq) \in S /\ Tail(seq) \in Seq(S)
           /\ Elements(seq) = Elements(Tail(seq)) \cup {Head(seq)}
           /\ Distinct(seq) => Distinct(Tail(seq)) /\ Head(seq) \notin Elements(Tail(seq))
  <1> DEFINE s == Tail(seq)
             h == Head(seq)
  <1>1. /\ Len(seq) \in Nat \ {0} /\ h \in S /\ s \in Seq(S)
        /\ Len(s) = Len(seq) - 1
        /\ \A i \in 1 .. Len(s) : s[i] = seq[i + 1]
    BY HeadTailProperties, EmptySeq
  <1>2. h = seq[1]
    OBVIOUS
  <1> HIDE DEF s, h
  <1>3. Elements(seq) = Elements(s) \cup {h}
    <2>1. \A i \in 1 .. Len(seq) : i = 1 \/ (i - 1 \in 1 .. Len(s) /\ s[i - 1] = seq[i])
      BY <1>1
    <2>2. \A i \in 1 .. Len(s) : i + 1 \in 1 .. Len(seq)
      BY <1>1
    <2>3. Elements(seq) \subseteq Elements(s) \cup {h}
      BY <1>2, <2>1 DEF Elements
    <2>4. Elements(s) \cup {h} \subseteq Elements(seq)
      BY <1>1, <1>2, <2>2 DEF Elements
    <2> QED
      BY <2>3, <2>4
  <1>4. ASSUME Distinct(seq)
        PROVE  Distinct(s) /\ h \notin Elements(s)
    <2>1. \A i \in 1 .. Len(s) : i + 1 \in 1 .. Len(seq) /\ i + 1 # 1
      BY <1>1
    <2>2. 1 \in 1 .. Len(seq)
      BY <1>1
    <2>3. h \notin Elements(s)
      BY <1>1, <1>2, <1>4, <2>1, <2>2 DEF Elements, Distinct
    <2>4. Distinct(s)
      BY <1>1, <1>4, <2>1 DEF Distinct
    <2> QED
      BY <2>3, <2>4
  <1> QED
    BY <1>1, <1>3, <1>4 DEF s, h

LEMMA AppendReport ==
    ASSUME NEW S, NEW seq \in Seq([chunk : S, ok : BOOLEAN]), NEW e \in [chunk : S, ok : BOOLEAN]
    PROVE  /\ Append(seq, e) \in Seq([chunk : S, ok : BOOLEAN])
           /\ ChunksOf(Append(seq, e)) = ChunksOf(seq) \cup {e.chunk}
           /\ DistinctChunks(seq) /\ e.chunk \notin ChunksOf(seq) => DistinctChunks(Append(seq, e))
  <1> DEFINE c == e.chunk
             s == Append(seq, e)
  <1>1. e.chunk = c
    OBVIOUS
  <1> HIDE DEF c
  <1>2. /\ Len(seq) \in Nat /\ s \in Seq([chunk : S, ok : BOOLEAN]) /\ Len(s) = Len(seq) + 1
        /\ \A i \in 1 .. Len(seq) : s[i] = seq[i]
        /\ s[Len(seq) + 1] = e
    BY <1>1, AppendProperties, LenProperties
  <1> HIDE DEF s
  <1>3. ChunksOf(s) = ChunksOf(seq) \cup {c}
    <2>1. 1 .. Len(s) = (1 .. Len(seq)) \cup {Len(seq) + 1}
      BY <1>2
    <2> QED
      BY <1>1, <1>2, <2>1 DEF ChunksOf
  <1>4. ASSUME DistinctChunks(seq), c \notin ChunksOf(seq)
        PROVE  DistinctChunks(s)
    <2> SUFFICES ASSUME NEW m \in 1 .. Len(s), NEW n \in 1 .. Len(s), m < n
                 PROVE  s[m].chunk # s[n].chunk
      BY <1>2 DEF DistinctChunks
    <2>1. m \in 1 .. Len(seq) /\ s[m] = seq[m] /\ s[m].chunk \in ChunksOf(seq)
      BY <1>2 DEF ChunksOf
    <2>2. CASE n = Len(seq) + 1
      BY <1>1, <1>2, <1>4, <2>1, <2>2
    <2>3. CASE n \in 1 .. Len(seq)
      BY <1>2, <1>4, <2>1, <2>3 DEF DistinctChunks
    <2> QED
      BY <1>2, <2>2, <2>3
  <1> QED
    BY <1>2, <1>3, <1>4 DEF s, c

LEMMA TailReport ==
    ASSUME NEW S, NEW seq \in Seq([chunk : S, ok : BOOLEAN]), seq # <<>>
    PROVE  /\ Head(seq).chunk \in S /\ Tail(seq) \in Seq([chunk : S, ok : BOOLEAN])
           /\ ChunksOf(seq) = ChunksOf(Tail(seq)) \cup {Head(seq).chunk}
           /\ DistinctChunks(seq) =>
                 DistinctChunks(Tail(seq)) /\ Head(seq).chunk \notin ChunksOf(Tail(seq))
  <1> DEFINE s == Tail(seq)
             h == Head(seq).chunk
  <1>1. /\ Len(seq) \in Nat \ {0} /\ h \in S /\ s \in Seq([chunk : S, ok : BOOLEAN])
        /\ Len(s) = Len(seq) - 1
        /\ \A i \in 1 .. Len(s) : s[i] = seq[i + 1]
    <2> DEFINE R == [chunk : S, ok : BOOLEAN]
    <2>1. /\ Head(seq) \in R /\ Tail(seq) \in Seq(R) /\ Len(Tail(seq)) = Len(seq) - 1
          /\ \A i \in 1 .. Len(Tail(seq)) : Tail(seq)[i] = seq[i + 1]
      BY HeadTailProperties
    <2>2. Len(seq) \in Nat \ {0}
      BY EmptySeq
    <2> QED
      BY <2>1, <2>2
  <1>2. h = seq[1].chunk
    OBVIOUS
  <1> HIDE DEF s, h
  <1>3. ChunksOf(seq) = ChunksOf(s) \cup {h}
    <2>1. \A i \in 1 .. Len(seq) : i = 1 \/ (i - 1 \in 1 .. Len(s) /\ s[i - 1] = seq[i])
      BY <1>1
    <2>2. \A i \in 1 .. Len(s) : i + 1 \in 1 .. Len(seq)
      BY <1>1
    <2>3. ChunksOf(seq) \subseteq ChunksOf(s) \cup {h}
      BY <1>2, <2>1 DEF ChunksOf
    <2>4. ChunksOf(s) \cup {h} \subseteq ChunksOf(seq)
      BY <1>1, <1>2, <2>2 DEF ChunksOf
    <2> QED
      BY <2>3, <2>4
  <1>4. ASSUME DistinctChunks(seq)
        PROVE  DistinctChunks(s) /\ h \notin ChunksOf(s)
    <2>1. \A i \in 1 .. Len(s) : i + 1 \in 1 .. Len(seq) /\ i + 1 # 1
      BY <1>1
    <2>2. 1 \in 1 .. Len(seq)
      BY <1>1
    <2>3. h \notin ChunksOf(s)
      BY <1>1, <1>2, <1>4, <2>1, <2>2 DEF ChunksOf, DistinctChunks
    <2>4. DistinctChunks(s)
      BY <1>1, <1>4, <2>1 DEF DistinctChunks
    <2> QED
      BY <2>3, <2>4
  <1> QED
    BY <1>1, <1>3, <1>4 DEF s, h

\* A sequence without repetition has as many elements as entries.
LEMMA DistinctCardinality ==
    ASSUME NEW S, NEW seq \in Seq(S), Distinct(seq)
    PROVE  IsFiniteSet(Elements(seq)) /\ Cardinality(Elements(seq)) = Len(seq)
  <1>1. Len(seq) \in Nat /\ seq \in [1 .. Len(seq) -> S] /\ DOMAIN seq = 1 .. Len(seq)
    BY LenProperties
  <1>2. seq \in [1 .. Len(seq) -> Elements(seq)]
    BY <1>1 DEF Elements
  <1>3. seq \in Injection(1 .. Len(seq), Elements(seq))
    BY <1>1, <1>2 DEF Injection, IsInjective, Distinct
  <1>4. seq \in Surjection(1 .. Len(seq), Elements(seq))
    BY <1>2 DEF Surjection, Elements
  <1>5. ExistsBijection(1 .. Len(seq), Elements(seq))
    BY <1>3, <1>4 DEF ExistsBijection, Bijection
  <1>6. IsFiniteSet(1 .. Len(seq)) /\ Cardinality(1 .. Len(seq)) = Len(seq)
    BY <1>1, FS_Interval
  <1> QED
    BY <1>5, <1>6, FS_Bijection

-----------------------------------------------------------------------------
(* Lemmas on the account.                                                  *)

LEMMA SentFinite ==
    ASSUME Typed
    PROVE  IsFiniteSet(Sent) /\ Cardinality(Sent) \in Nat
  <1>1. gas_chunks \in Nat
    BY DEF Typed, TypeOK
  <1>2. IsFiniteSet(1 .. gas_chunks)
    BY <1>1, FS_Interval
  <1>3. Sent \in SUBSET (1 .. gas_chunks)
    BY DEF Sent
  <1> QED
    BY <1>2, <1>3, FS_Subset, FS_CardinalityType

\* A step that moves no trace.
LEMMA AccountSame ==
    ASSUME Account, UNCHANGED <<estimated_gas_chunks, traces, task, reports, total>>,
           Holding' = Holding, Sent' = Sent
    PROVE  Account'
  <1>1. Held' = Held
    BY DEF Held
  <1>2. /\ Elements(traces)' = Elements(traces) /\ Distinct(traces)' = Distinct(traces)
        /\ Elements(total)' = Elements(total) /\ Distinct(total)' = Distinct(total)
        /\ ChunksOf(reports)' = ChunksOf(reports) /\ DistinctChunks(reports)' = DistinctChunks(reports)
    BY DEF Elements, Distinct, ChunksOf, DistinctChunks
  <1> QED
    BY <1>1, <1>2 DEF Account

\* A step of a worker sends nothing.
LEMMA SentSame ==
    ASSUME UNCHANGED <<range, main, gas_chunks>>
    PROVE  Sent' = Sent
  BY DEF Sent, InRange

-----------------------------------------------------------------------------
(* The steps of the main thread preserve the invariant.                    *)

LEMMA ExecuteChunkIInv ==
    ASSUME IInv, ExecuteChunk
    PROVE  IInv'
  <1>1. /\ main = "execute" /\ gas_chunks < guest /\ gas_chunks' = gas_chunks + 1
        /\ main' = IF InRange(gas_chunks + 1) THEN "send" ELSE "execute"
        /\ UNCHANGED <<guest, range, failure, estimated_gas_chunks, traces, open, lock, worker, task,
                       reports, joined, total>>
    BY DEF ExecuteChunk, InRange
  <1>2. /\ Typed /\ gas_chunks \in Nat /\ guest \in Nat /\ estimated_gas_chunks \in 0 .. gas_chunks
        /\ range[1] \in Nat /\ range[2] \in Nat
    BY DEF IInv, Typed, TypeOK
  <1>3. TypeOK'
    <2> DEFINE C == 1 .. gas_chunks
               D == 1 .. gas_chunks'
    <2>1. C \subseteq D /\ 0 .. gas_chunks \subseteq 0 .. gas_chunks'
      BY <1>1, <1>2
    <2>2. [chunk : C, ok : BOOLEAN] \subseteq [chunk : D, ok : BOOLEAN]
      BY <2>1
    <2>3. traces \in Seq(C) /\ total \in Seq(C) /\ reports \in Seq([chunk : C, ok : BOOLEAN])
      BY <1>2 DEF Typed, TypeOK
    <2> HIDE DEF C, D
    <2>4. traces \in Seq(D) /\ total \in Seq(D)
      BY <2>1, <2>3, SeqMonotonic
    <2>5. reports \in Seq([chunk : D, ok : BOOLEAN])
      BY <2>2, <2>3, SeqMonotonic
    <2>6. task \in [Workers -> 0 .. gas_chunks']
      BY <1>2, <2>1 DEF Typed, TypeOK
    <2>7. gas_chunks' \in 0 .. guest /\ estimated_gas_chunks \in 0 .. gas_chunks'
      BY <1>1, <1>2
    <2>8. main' \in {"execute", "send"}
      BY <1>1
    <2> QED
      BY <1>1, <1>2, <2>4, <2>5, <2>6, <2>7, <2>8 DEF Typed, TypeOK, D
  <1>4. Typed'
    <2>1. InRange(gas_chunks)' <=> InRange(gas_chunks + 1)
      BY <1>1 DEF InRange
    <2> QED
      BY <1>1, <1>2, <1>3, <2>1 DEF Typed
  <1>5. Stopping'
    BY <1>1 DEF IInv, Stopping
  <1>6. Account'
    <2>1. Sent' = Sent
      <3>1. 1 .. gas_chunks' = (1 .. gas_chunks) \cup {gas_chunks + 1} /\ gas_chunks + 1 \notin 1 .. gas_chunks
        BY <1>1, <1>2
      <3>2. \A c : InRange(c)' <=> InRange(c)
        BY <1>1 DEF InRange
      <3> QED
        BY <1>1, <3>1, <3>2 DEF Sent
    <2>2. Holding' = Holding
      BY <1>1 DEF Holding
    <2> QED
      BY <1>1, <2>1, <2>2, AccountSame DEF IInv
  <1> QED
    BY <1>1, <1>4, <1>5, <1>6 DEF IInv, NoReportMissing

LEMMA ExecutionFailsIInv ==
    ASSUME IInv, ExecutionFails
    PROVE  IInv'
  <1>1. /\ main' = "failed" /\ failure' = "guest"
        /\ UNCHANGED <<guest, range, gas_chunks, estimated_gas_chunks, traces, open, lock, worker, task,
                       reports, joined, total>>
    BY DEF ExecutionFails, Fail
  <1>2. Typed'
    BY <1>1 DEF IInv, Typed, TypeOK
  <1>3. Stopping'
    BY <1>1 DEF IInv, Stopping
  <1> QED
    BY <1>1, <1>2, <1>3 DEF IInv, NoReportMissing

LEMMA ExecutionEndsIInv ==
    ASSUME IInv, ExecutionEnds
    PROVE  IInv'
  <1>1. /\ main = "execute" /\ main' = "join" /\ open' = FALSE
        /\ UNCHANGED <<guest, range, failure, gas_chunks, estimated_gas_chunks, traces, lock, worker,
                       task, reports, joined, total>>
    BY DEF ExecutionEnds
  <1>2. Typed'
    BY <1>1 DEF IInv, Typed, TypeOK
  <1>3. Stopping'
    <2>1. joined = 0
      BY <1>1 DEF IInv, Stopping
    <2> QED
      BY <1>1, <2>1, GasPoolAssumption DEF IInv, Stopping
  <1>4. Account'
    <2>1. Sent' = Sent /\ Holding' = Holding
      BY <1>1 DEF Sent, InRange, Holding
    <2> QED
      BY <1>1, <2>1, AccountSame DEF IInv
  <1> QED
    BY <1>1, <1>2, <1>3, <1>4 DEF IInv, NoReportMissing

LEMMA SendTraceIInv ==
    ASSUME IInv, SendTrace
    PROVE  IInv'
  <1> DEFINE C == 1 .. gas_chunks
  <1>1. /\ main = "send" /\ main' = "execute"
        /\ estimated_gas_chunks' = estimated_gas_chunks + 1
        /\ traces' = Append(traces, gas_chunks)
        /\ UNCHANGED <<guest, range, failure, gas_chunks, open, lock, worker, task, reports, joined, total>>
    BY DEF SendTrace, ChunkIndex
  <1>2. /\ Typed /\ Account /\ open
        /\ gas_chunks \in Nat /\ estimated_gas_chunks \in Nat /\ gas_chunks > estimated_gas_chunks
        /\ InRange(gas_chunks) /\ traces \in Seq(C)
    BY <1>1 DEF IInv, Typed, TypeOK, Stopping
  <1>3. gas_chunks \in C
    BY <1>2
  <1>4. /\ traces' \in Seq(C) /\ Elements(traces') = Elements(traces) \cup {gas_chunks}
        /\ Distinct(traces) /\ gas_chunks \notin Elements(traces) => Distinct(traces')
    BY <1>1, <1>2, <1>3, AppendElements
  <1>5. Typed'
    <2>1. TypeOK'
      BY <1>1, <1>2, <1>4 DEF Typed, TypeOK
    <2> QED
      BY <1>1, <1>2, <2>1 DEF Typed
  <1>6. Stopping'
    BY <1>1, <1>2 DEF IInv, Stopping
  <1>7. Sent' = Sent \cup {gas_chunks} /\ gas_chunks \notin Sent
    BY <1>1, <1>2, <1>3 DEF Sent, InRange
  <1>8. Cardinality(Sent') = Cardinality(Sent) + 1
    BY <1>2, <1>7, SentFinite, FS_AddElement
  <1>9. Held' = Held /\ Holding' = Holding
    BY <1>1 DEF Held, Holding
  <1>10. Account'
    <2>1. /\ ChunksOf(reports)' = ChunksOf(reports) /\ DistinctChunks(reports)' = DistinctChunks(reports)
          /\ Elements(total)' = Elements(total) /\ Distinct(total)' = Distinct(total)
          /\ Elements(traces)' = Elements(traces') /\ Distinct(traces)' = Distinct(traces')
      BY <1>1 DEF ChunksOf, DistinctChunks, Elements, Distinct
    <2> DEFINE T == Elements(traces)
               H == Held
               R == ChunksOf(reports)
               F == Elements(total)
    <2>2. /\ T \cup H \cup R \cup F = Sent
          /\ T \cap H = {} /\ T \cap R = {} /\ T \cap F = {} /\ H \cap R = {} /\ H \cap F = {} /\ R \cap F = {}
          /\ gas_chunks \notin T \cup H \cup R \cup F
      BY <1>2, <1>7 DEF Account
    <2>3. T' = T \cup {gas_chunks} /\ H' = H /\ R' = R /\ F' = F
      BY <1>4, <1>9, <2>1
    <2> HIDE DEF T, H, R, F
    <2>4. /\ T' \cup H' \cup R' \cup F' = Sent'
          /\ T' \cap H' = {} /\ T' \cap R' = {} /\ T' \cap F' = {}
          /\ H' \cap R' = {} /\ H' \cap F' = {} /\ R' \cap F' = {}
      BY <1>7, <2>2, <2>3
    <2>5. gas_chunks \notin Elements(traces)
      BY <2>2 DEF T
    <2> QED
      BY <1>1, <1>2, <1>4, <1>8, <1>9, <2>1, <2>4, <2>5 DEF Account, T, H, R, F
  <1> QED
    BY <1>1, <1>5, <1>6, <1>10 DEF IInv, NoReportMissing

LEMMA JoinWorkerIInv ==
    ASSUME IInv, JoinWorker
    PROVE  IInv'
  <1>1. /\ main = "join" /\ worker[joined + 1] \in Ended /\ joined' = joined + 1
        /\ UNCHANGED <<guest, range, gas_chunks, estimated_gas_chunks, traces, open, lock, worker, task,
                       reports, total>>
    BY DEF JoinWorker, Joins
  <1>2. Typed /\ Stopping /\ Account /\ joined \in Nat /\ joined < WorkerCount /\ WorkerCount \in Nat
    BY <1>1, GasPoolAssumption DEF IInv, Typed, TypeOK, Stopping
  <1>3. Holding' = Holding /\ joined' \in 0 .. WorkerCount
    BY <1>1, <1>2 DEF Holding
  <1>4. CASE worker[joined + 1] = "panicked"
    <2>1. main' = "failed" /\ failure' = "worker panicked"
      BY <1>4 DEF JoinWorker, Fail
    <2>2. Typed'
      BY <1>1, <1>2, <1>3, <2>1 DEF Typed, TypeOK
    <2>3. Stopping'
      BY <1>1, <1>2, <2>1 DEF Stopping
    <2> QED
      BY <2>1, <2>2, <2>3 DEF IInv, NoReportMissing
  <1>5. CASE worker[joined + 1] = "stopped"
    <2>1. /\ main' = IF joined' = WorkerCount THEN "collect" ELSE "join"
          /\ UNCHANGED failure
      BY <1>5 DEF JoinWorker
    <2>2. Typed'
      BY <1>1, <1>2, <1>3, <2>1 DEF Typed, TypeOK
    <2>3. Stopping'
      <3>1. 1 .. joined' = (1 .. joined) \cup {joined + 1}
        BY <1>1, <1>2
      <3>2. \A w \in 1 .. joined' : worker'[w] = "stopped"
        BY <1>1, <1>2, <1>5, <3>1 DEF Stopping
      <3>3. main' = "join" => joined' < WorkerCount
        BY <1>1, <1>2, <2>1
      <3>4. main' = "collect" => joined' = WorkerCount
        BY <2>1
      <3>5. main' \in {"join", "collect"}
        BY <2>1
      <3> QED
        BY <1>1, <1>2, <3>2, <3>3, <3>4, <3>5 DEF Stopping
    <2>4. Sent' = Sent
      BY <1>1, <2>1 DEF Sent, InRange
    <2>5. Account'
      BY <1>1, <1>2, <1>3, <2>4, AccountSame
    <2> QED
      BY <2>1, <2>2, <2>3, <2>5 DEF IInv, NoReportMissing
  <1> QED
    BY <1>1, <1>4, <1>5 DEF Ended

\* Once all workers have been joined every trace has its report.
LEMMA AllReported ==
    ASSUME IInv, main \in {"collect", "succeeded"}
    PROVE  ChunksOf(reports) \cup Elements(total) = Sent
  <1>1. Stopping /\ Account /\ joined = WorkerCount
    BY DEF IInv, Stopping
  <1>2. \A w \in Workers : worker[w] = "stopped"
    BY <1>1 DEF Stopping, Workers
  <1>3. Held = {}
    BY <1>2 DEF Held, Holding
  <1>4. 1 \in Workers
    BY GasPoolAssumption DEF Workers
  <1>5. Elements(traces) = {}
    BY <1>1, <1>2, <1>4, EmptyElements DEF Stopping
  <1> QED
    BY <1>1, <1>3, <1>5 DEF Account

\* The total has as many entries as it has chunks.
LEMMA TotalCount ==
    ASSUME IInv, main # "failed"
    PROVE  Cardinality(Elements(total)) = Len(total) /\ Elements(total) \in SUBSET Sent
  <1>1. total \in Seq(1 .. gas_chunks) /\ Distinct(total) /\ Elements(total) \in SUBSET Sent
    BY DEF IInv, Typed, TypeOK, Account
  <1> QED
    BY <1>1, DistinctCardinality

LEMMA CollectReportIInv ==
    ASSUME IInv, CollectReport
    PROVE  IInv'
  <1> DEFINE C == 1 .. gas_chunks
  <1>1. /\ main = "collect" /\ Len(total) < estimated_gas_chunks
        /\ UNCHANGED <<guest, range, gas_chunks, estimated_gas_chunks, traces, open, lock, worker, task,
                       joined>>
    BY DEF CollectReport
  <1>2. /\ Typed /\ Stopping /\ Account
        /\ reports \in Seq([chunk : C, ok : BOOLEAN]) /\ total \in Seq(C)
    BY <1>1 DEF IInv, Typed, TypeOK
  <1>3. reports # <<>>
    <2> SUFFICES ASSUME reports = <<>> PROVE FALSE
      OBVIOUS
    <2>1. Elements(total) = Sent
      BY <1>1, AllReported, EmptyElements
    <2>2. Len(total) = estimated_gas_chunks
      BY <1>1, <1>2, <2>1, TotalCount DEF Account
    <2> QED
      BY <1>1, <1>2, <2>2 DEF Typed, TypeOK
  <1> DEFINE h == Head(reports).chunk
             s == Tail(reports)
  <1>4. /\ h \in C /\ s \in Seq([chunk : C, ok : BOOLEAN])
        /\ ChunksOf(reports) = ChunksOf(s) \cup {h}
        /\ DistinctChunks(s) /\ h \notin ChunksOf(s)
    BY <1>2, <1>3, TailReport DEF Account
  <1>5. reports' = s
    BY <1>3 DEF CollectReport
  <1>6. CASE ~ Head(reports).ok
    <2>1. main' = "failed" /\ failure' = "gas" /\ total' = total
      BY <1>3, <1>6 DEF CollectReport, Fail
    <2>2. Typed'
      BY <1>1, <1>2, <1>4, <1>5, <2>1 DEF Typed, TypeOK
    <2>3. Stopping'
      BY <1>1, <1>2, <2>1 DEF Stopping
    <2> QED
      BY <2>1, <2>2, <2>3 DEF IInv, NoReportMissing
  <1>7. CASE Head(reports).ok
    <2>1. main' = main /\ failure' = failure /\ total' = Append(total, h)
      BY <1>3, <1>7 DEF CollectReport
    <2> HIDE DEF h, s
    <2>2. /\ total' \in Seq(C) /\ Elements(total') = Elements(total) \cup {h}
          /\ Distinct(total) /\ h \notin Elements(total) => Distinct(total')
      <3>1. total \in Seq(C) /\ h \in C
        BY <1>2, <1>4
      <3> HIDE DEF C
      <3> QED
        BY <2>1, <3>1, AppendElements
    <2>3. Typed'
      BY <1>1, <1>2, <1>4, <1>5, <2>1, <2>2 DEF Typed, TypeOK
    <2>4. Stopping'
      BY <1>1, <1>2, <2>1 DEF Stopping
    <2>5. Account'
      <3>1. /\ ChunksOf(reports)' = ChunksOf(s) /\ DistinctChunks(reports)' = DistinctChunks(s)
            /\ Elements(total)' = Elements(total') /\ Distinct(total)' = Distinct(total')
            /\ Elements(traces)' = Elements(traces) /\ Distinct(traces)' = Distinct(traces)
        BY <1>1, <1>5 DEF ChunksOf, DistinctChunks, Elements, Distinct
      <3>2. Sent' = Sent /\ Held' = Held /\ Holding' = Holding
        BY <1>1, <2>1 DEF Sent, InRange, Held, Holding
      <3> DEFINE T == Elements(traces)
                 H == Held
                 R == ChunksOf(reports)
                 F == Elements(total)
      <3>3. /\ T \cup H \cup R \cup F = Sent
            /\ T \cap H = {} /\ T \cap R = {} /\ T \cap F = {} /\ H \cap R = {} /\ H \cap F = {} /\ R \cap F = {}
        BY <1>2 DEF Account
      <3>4. R = R' \cup {h} /\ h \notin R' /\ F' = F \cup {h} /\ T' = T /\ H' = H
        BY <1>4, <2>2, <3>1, <3>2
      <3> HIDE DEF T, H, R, F
      <3>5. /\ T' \cup H' \cup R' \cup F' = Sent'
            /\ T' \cap H' = {} /\ T' \cap R' = {} /\ T' \cap F' = {}
            /\ H' \cap R' = {} /\ H' \cap F' = {} /\ R' \cap F' = {}
        BY <3>2, <3>3, <3>4
      <3>6. h \notin Elements(total)
        BY <3>3, <3>4 DEF F
      <3> QED
        BY <1>1, <1>2, <1>4, <2>2, <3>1, <3>2, <3>5, <3>6 DEF Account, T, H, R, F
    <2> QED
      BY <1>1, <2>1, <2>3, <2>4, <2>5 DEF IInv, NoReportMissing
  <1> QED
    BY <1>6, <1>7

LEMMA ConcludeIInv ==
    ASSUME IInv, Conclude
    PROVE  IInv'
  <1>1. /\ main = "collect" /\ Len(total) = estimated_gas_chunks
        /\ UNCHANGED <<guest, range, gas_chunks, estimated_gas_chunks, traces, open, lock, worker, task,
                       reports, joined, total>>
        /\ \/ main' = "succeeded" /\ UNCHANGED failure
           \/ main' = "failed" /\ failure' = "guest"
    BY DEF Conclude, Fail
  <1>2. Typed /\ Stopping /\ Account
    BY <1>1 DEF IInv
  <1>3. Typed'
    BY <1>1, <1>2 DEF Typed, TypeOK
  <1>4. Stopping'
    BY <1>1, <1>2 DEF Stopping
  <1>5. Account'
    <2>1. Sent' = Sent /\ Holding' = Holding
      BY <1>1 DEF Sent, InRange, Holding
    <2> QED
      BY <1>1, <1>2, <2>1, AccountSame
  <1> QED
    BY <1>1, <1>3, <1>4, <1>5 DEF IInv, NoReportMissing

-----------------------------------------------------------------------------
(* The steps of a worker preserve the invariant.                           *)

\* What a worker leaves alone.
LEMMA WorkerFrame ==
    ASSUME IInv, ~Returned, UNCHANGED <<guest, range, main, failure, gas_chunks, estimated_gas_chunks,
                                        open, joined, total>>,
           TypeOK', Account',
           \A w \in Workers : worker[w] = "stopped" => worker'[w] = "stopped",
           \A w \in Workers : worker'[w] = "stopped" => ~open /\ traces' = <<>>
    PROVE  IInv'
  <1>1. Typed'
    BY DEF IInv, Typed, InRange
  <1>2. joined \in 0 .. WorkerCount /\ \A w \in 1 .. joined : w \in Workers
    BY GasPoolAssumption DEF IInv, Typed, TypeOK, Workers
  <1>3. Stopping'
    BY <1>2 DEF IInv, Stopping
  <1> QED
    BY <1>1, <1>3 DEF IInv, NoReportMissing

LEMMA LockIInv ==
    ASSUME IInv, NEW w \in Workers, Lock(w)
    PROVE  IInv'
  <1>1. /\ ~Returned /\ worker[w] = "lock" /\ lock' = w /\ worker' = [worker EXCEPT ![w] = "recv"]
        /\ UNCHANGED <<guest, range, main, failure, gas_chunks, estimated_gas_chunks, traces, open, task,
                       reports, joined, total>>
    BY DEF Lock
  <1>2. TypeOK /\ Stopping /\ Account
    BY <1>1 DEF IInv, Typed, Returned
  <1>3. TypeOK'
    BY <1>1, <1>2 DEF TypeOK
  <1>4. Holding' = Holding
    BY <1>1, <1>2 DEF Holding, TypeOK
  <1>5. Account'
    BY <1>1, <1>2, <1>4, SentSame, AccountSame
  <1>6. \A v \in Workers : worker'[v] = "stopped" <=> worker[v] = "stopped"
    BY <1>1, <1>2 DEF TypeOK
  <1> QED
    BY <1>1, <1>2, <1>3, <1>5, <1>6, WorkerFrame DEF Stopping

LEMMA DropTraceIInv ==
    ASSUME IInv, NEW w \in Workers, DropTrace(w)
    PROVE  IInv'
  <1>1. /\ ~Returned /\ worker[w] = "drop" /\ worker' = [worker EXCEPT ![w] = "lock"]
        /\ UNCHANGED <<guest, range, main, failure, gas_chunks, estimated_gas_chunks, traces, open, lock,
                       task, reports, joined, total>>
    BY DEF DropTrace
  <1>2. TypeOK /\ Stopping /\ Account
    BY <1>1 DEF IInv, Typed, Returned
  <1>3. TypeOK'
    BY <1>1, <1>2 DEF TypeOK
  <1>4. Holding' = Holding
    BY <1>1, <1>2 DEF Holding, TypeOK
  <1>5. Account'
    BY <1>1, <1>2, <1>4, SentSame, AccountSame
  <1>6. \A v \in Workers : worker'[v] = "stopped" <=> worker[v] = "stopped"
    BY <1>1, <1>2 DEF TypeOK
  <1> QED
    BY <1>1, <1>2, <1>3, <1>5, <1>6, WorkerFrame DEF Stopping

\* A worker that panics keeps its trace from ever being reported.
LEMMA PanicIInv ==
    ASSUME IInv, NEW w \in Workers, Panic(w)
    PROVE  IInv'
  <1>1. /\ ~Returned /\ worker[w] = "estimate" /\ worker' = [worker EXCEPT ![w] = "panicked"]
        /\ UNCHANGED <<guest, range, main, failure, gas_chunks, estimated_gas_chunks, traces, open, lock,
                       task, reports, joined, total>>
    BY DEF Panic
  <1>2. TypeOK /\ Stopping /\ Account
    BY <1>1 DEF IInv, Typed, Returned
  <1>3. TypeOK'
    BY <1>1, <1>2 DEF TypeOK, Ended
  <1>4. Holding' = Holding
    BY <1>1, <1>2 DEF Holding, TypeOK
  <1>5. Account'
    BY <1>1, <1>2, <1>4, SentSame, AccountSame
  <1>6. \A v \in Workers : worker'[v] = "stopped" <=> worker[v] = "stopped"
    BY <1>1, <1>2 DEF TypeOK
  <1> QED
    BY <1>1, <1>2, <1>3, <1>5, <1>6, WorkerFrame DEF Stopping

LEMMA ReceiveIInv ==
    ASSUME IInv, NEW w \in Workers, Receive(w)
    PROVE  IInv'
  <1> DEFINE C == 1 .. gas_chunks
  <1>1. /\ ~Returned /\ worker[w] = "recv" /\ lock' = Nobody
        /\ UNCHANGED <<guest, range, main, failure, gas_chunks, estimated_gas_chunks, open, reports,
                       joined, total>>
    BY DEF Receive
  <1>2. TypeOK /\ Stopping /\ Account /\ gas_chunks \in Nat
    BY <1>1 DEF IInv, Typed, Returned, TypeOK
  <1>3. CASE Closed /\ worker' = [worker EXCEPT ![w] = "stopped"] /\ UNCHANGED <<traces, task>>
    <2>1. TypeOK'
      BY <1>1, <1>2, <1>3 DEF TypeOK, Ended
    <2>2. Holding' = Holding
      BY <1>1, <1>2, <1>3 DEF Holding, TypeOK
    <2>3. Account'
      BY <1>1, <1>2, <1>3, <2>2, SentSame, AccountSame
    <2>4. \A v \in Workers : worker[v] = "stopped" => worker'[v] = "stopped"
      BY <1>2, <1>3 DEF TypeOK
    <2>5. ~open /\ traces' = <<>>
      BY <1>3 DEF Closed
    <2> QED
      BY <1>1, <2>1, <2>3, <2>4, <2>5, WorkerFrame
  <1>4. CASE /\ traces # <<>> /\ worker' = [worker EXCEPT ![w] = "estimate"]
             /\ task' = [task EXCEPT ![w] = Head(traces)] /\ traces' = Tail(traces)
    <2> DEFINE h == Head(traces)
    <2>1. /\ h \in C /\ traces' \in Seq(C)
          /\ Elements(traces) = Elements(traces') \cup {h}
          /\ Distinct(traces') /\ h \notin Elements(traces')
      BY <1>2, <1>4, TailElements DEF TypeOK, Account
    <2> HIDE DEF h
    <2>2. h \in 0 .. gas_chunks
      BY <1>2, <2>1
    <2>3. TypeOK'
      BY <1>1, <1>2, <1>4, <2>1, <2>2 DEF TypeOK, h
    <2>4. Holding' = Holding \cup {w} /\ w \notin Holding
      BY <1>1, <1>2, <1>4 DEF Holding, TypeOK
    <2>5. task'[w] = h /\ \A v \in Holding : task'[v] = task[v]
      BY <1>2, <1>4, <2>4 DEF TypeOK, Holding, h
    <2>6. Held' = Held \cup {h}
      BY <2>4, <2>5 DEF Held
    <2>7. Account'
      <3>1. /\ ChunksOf(reports)' = ChunksOf(reports) /\ DistinctChunks(reports)' = DistinctChunks(reports)
            /\ Elements(total)' = Elements(total) /\ Distinct(total)' = Distinct(total)
            /\ Elements(traces)' = Elements(traces') /\ Distinct(traces)' = Distinct(traces')
        BY <1>1 DEF ChunksOf, DistinctChunks, Elements, Distinct
      <3>2. Sent' = Sent
        BY <1>1, SentSame
      <3> DEFINE T == Elements(traces)
                 H == Held
                 R == ChunksOf(reports)
                 F == Elements(total)
      <3>3. /\ T \cup H \cup R \cup F = Sent
            /\ T \cap H = {} /\ T \cap R = {} /\ T \cap F = {} /\ H \cap R = {} /\ H \cap F = {} /\ R \cap F = {}
        BY <1>2 DEF Account
      <3>4. T = T' \cup {h} /\ h \notin T' /\ H' = H \cup {h} /\ R' = R /\ F' = F
        BY <2>1, <2>6, <3>1
      <3> HIDE DEF T, H, R, F
      <3>5. /\ T' \cup H' \cup R' \cup F' = Sent'
            /\ T' \cap H' = {} /\ T' \cap R' = {} /\ T' \cap F' = {}
            /\ H' \cap R' = {} /\ H' \cap F' = {} /\ R' \cap F' = {}
        BY <3>2, <3>3, <3>4
      <3>6. h \notin Held
        BY <3>3, <3>4 DEF H
      <3>7. \A u, v \in Holding' : u # v => task'[u] # task'[v]
        BY <1>2, <2>4, <2>5, <3>6 DEF Account, Held
      <3> QED
        BY <1>1, <1>2, <2>1, <3>1, <3>2, <3>5, <3>7 DEF Account, T, H, R, F
    <2>8. \A v \in Workers : worker'[v] = "stopped" <=> worker[v] = "stopped"
      BY <1>1, <1>2, <1>4 DEF TypeOK
    <2>9. \A v \in Workers : worker[v] # "stopped"
      BY <1>2, <1>4 DEF Stopping
    <2> QED
      BY <1>1, <2>3, <2>7, <2>8, <2>9, WorkerFrame
  <1> QED
    BY <1>3, <1>4 DEF Receive

LEMMA EstimateIInv ==
    ASSUME IInv, NEW w \in Workers, Estimate(w)
    PROVE  IInv'
  <1> DEFINE C == 1 .. gas_chunks
             h == task[w]
  <1>1. /\ ~Returned /\ worker[w] = "estimate" /\ worker' = [worker EXCEPT ![w] = "drop"]
        /\ UNCHANGED <<guest, range, main, failure, gas_chunks, estimated_gas_chunks, traces, open, lock,
                       task, joined, total>>
    BY DEF Estimate
  <1>2. TypeOK /\ Stopping /\ Account /\ gas_chunks \in Nat
    BY <1>1 DEF IInv, Typed, Returned, TypeOK
  <1>3. PICK ok \in BOOLEAN : reports' = Append(reports, [chunk |-> h, ok |-> ok])
    BY DEF Estimate
  <1>4. w \in Holding /\ h \in Held
    BY <1>1 DEF Holding, Held
  <1>5. h \in C
    BY <1>2, <1>4 DEF Account, Sent
  <1>6. h \notin ChunksOf(reports)
    BY <1>2, <1>4 DEF Account
  <1>7. /\ reports' \in Seq([chunk : C, ok : BOOLEAN])
        /\ ChunksOf(reports') = ChunksOf(reports) \cup {h} /\ DistinctChunks(reports')
    <2>1. reports \in Seq([chunk : C, ok : BOOLEAN]) /\ DistinctChunks(reports)
      BY <1>2 DEF TypeOK, Account
    <2> HIDE DEF C, h
    <2> DEFINE e == [chunk |-> h, ok |-> ok]
    <2>2. e \in [chunk : C, ok : BOOLEAN] /\ e.chunk = h /\ reports' = Append(reports, e)
      BY <1>3, <1>5
    <2> HIDE DEF e
    <2> QED
      BY <1>6, <2>1, <2>2, AppendReport
  <1>8. TypeOK'
    BY <1>1, <1>2, <1>7 DEF TypeOK
  <1>9. Holding' = Holding \ {w}
    BY <1>1, <1>2 DEF Holding, TypeOK
  <1>10. Held' = Held \ {h}
    <2>1. \A v \in Holding : v # w => task[v] # h
      BY <1>2, <1>4 DEF Account
    <2> QED
      BY <1>1, <1>4, <1>9, <2>1 DEF Held
  <1>11. Account'
    <2>1. /\ Elements(traces)' = Elements(traces) /\ Distinct(traces)' = Distinct(traces)
          /\ Elements(total)' = Elements(total) /\ Distinct(total)' = Distinct(total)
          /\ ChunksOf(reports)' = ChunksOf(reports') /\ DistinctChunks(reports)' = DistinctChunks(reports')
      BY <1>1 DEF ChunksOf, DistinctChunks, Elements, Distinct
    <2>2. Sent' = Sent
      BY <1>1, SentSame
    <2> DEFINE T == Elements(traces)
               H == Held
               R == ChunksOf(reports)
               F == Elements(total)
    <2>3. /\ T \cup H \cup R \cup F = Sent
          /\ T \cap H = {} /\ T \cap R = {} /\ T \cap F = {} /\ H \cap R = {} /\ H \cap F = {} /\ R \cap F = {}
      BY <1>2 DEF Account
    <2>4. h \in H /\ H' = H \ {h} /\ R' = R \cup {h} /\ T' = T /\ F' = F
      BY <1>4, <1>7, <1>10, <2>1
    <2> HIDE DEF T, H, R, F
    <2>5. /\ T' \cup H' \cup R' \cup F' = Sent'
          /\ T' \cap H' = {} /\ T' \cap R' = {} /\ T' \cap F' = {}
          /\ H' \cap R' = {} /\ H' \cap F' = {} /\ R' \cap F' = {}
      BY <2>2, <2>3, <2>4
    <2> QED
      BY <1>1, <1>2, <1>7, <1>9, <2>1, <2>2, <2>5 DEF Account, T, H, R, F
  <1>12. \A v \in Workers : worker'[v] = "stopped" <=> worker[v] = "stopped"
    BY <1>1, <1>2 DEF TypeOK
  <1> QED
    BY <1>1, <1>2, <1>8, <1>11, <1>12, WorkerFrame DEF Stopping

-----------------------------------------------------------------------------
(* The theorems.                                                           *)

LEMMA InitIInv == Init => IInv
  <1> SUFFICES ASSUME Init PROVE IInv
    OBVIOUS
  <1>1. /\ guest \in Nat /\ range[1] \in Nat /\ range[2] \in Nat
    <2>1. range \in FirstChunks \X LastChunks /\ guest \in 0 .. MaxChunks
      BY DEF Init
    <2>2. PICK a \in FirstChunks, b \in LastChunks : range = <<a, b>>
      BY <2>1
    <2> QED
      BY <2>1, <2>2, GasPoolAssumption
  <1>2. Typed
    BY <1>1, EmptySeq, GasPoolAssumption DEF Init, Typed, TypeOK, Workers, Nobody
  <1>3. Stopping
    BY DEF Init, Stopping
  <1>4. Sent = {} /\ Holding = {} /\ Held = {}
    BY DEF Init, Sent, Holding, Held
  <1>5. Account
    BY <1>4, EmptyElements, FS_EmptySet DEF Init, Account
  <1> QED
    BY <1>2, <1>3, <1>5 DEF Init, IInv, NoReportMissing

LEMMA NextIInv ==
    ASSUME IInv, [Next]_vars
    PROVE  IInv'
  <1>1. CASE UNCHANGED vars
    <2>1. Typed' /\ Stopping' /\ NoReportMissing'
      BY <1>1 DEF vars, IInv, Typed, TypeOK, InRange, Stopping, NoReportMissing
    <2>2. Sent' = Sent /\ Holding' = Holding
      BY <1>1, SentSame DEF vars, Holding
    <2>3. main' # "failed" => Account'
      BY <1>1, <2>2, AccountSame DEF vars, IInv
    <2> QED
      BY <1>1, <2>1, <2>3 DEF vars, IInv
  <1>2. CASE Main
    BY <1>2, ExecuteChunkIInv, ExecutionEndsIInv, SendTraceIInv, JoinWorkerIInv, CollectReportIInv,
       ConcludeIInv DEF Main
  <1>3. CASE \E w \in Workers : Work(w) \/ Panic(w)
    BY <1>3, LockIInv, ReceiveIInv, EstimateIInv, DropTraceIInv, PanicIInv DEF Work
  <1> QED
    BY <1>1, <1>2, <1>3, ExecutionFailsIInv DEF Next, Returning

\* Every trace main has sent is in one place: the trace channel, a worker, the
\* report channel or the total.  The types of TypeOK come with it.
THEOREM SpecIInv == Spec => []IInv
  <1>1. Init => IInv
    BY InitIInv
  <1>2. IInv /\ [Next]_vars => IInv'
    BY NextIInv
  <1> QED
    BY <1>1, <1>2, PTL DEF Spec

\* The channels carry chunks the guest has run, whatever the workers do.
THEOREM AlwaysTypeOK == Spec => []TypeOK
  <1>1. IInv => TypeOK
    BY DEF IInv, Typed
  <1> QED
    BY <1>1, SpecIInv, PTL

\* Whatever the number of workers and traces, main never finds the report
\* channel empty with a report still due (executor/src/main.rs, recv after the
\* joins): it joins every worker first.
THEOREM NoReportEverMissing == Spec => []NoReportMissing
  <1>1. IInv => NoReportMissing
    BY DEF IInv
  <1> QED
    BY <1>1, SpecIInv, PTL

\* A total that is printed has each chunk of SP1_GAS_CHUNK_RANGE the guest ran
\* in it, once: no report is lost and none is added twice.
THEOREM TotalAlwaysComplete == Spec => []TotalComplete
  <1>1. IInv => TotalComplete
    <2> SUFFICES ASSUME IInv, main = "succeeded"
                 PROVE  /\ {total[n] : n \in DOMAIN total} = Selected
                        /\ Len(total) = Cardinality(Selected)
      BY DEF TotalComplete
    <2>1. Sent = Selected
      BY DEF Sent, Selected, InRange
    <2>2. Len(total) = Cardinality(Sent)
      BY DEF IInv, Account
    <2>3. IsFiniteSet(Sent) /\ Elements(total) \in SUBSET Sent /\ Cardinality(Elements(total)) = Len(total)
      BY SentFinite, TotalCount DEF IInv
    <2>4. Elements(total) = Sent
      BY <2>2, <2>3, FS_Subset
    <2>5. DOMAIN total = 1 .. Len(total)
      BY DEF IInv, Typed, TypeOK
    <2> QED
      BY <2>1, <2>2, <2>4, <2>5 DEF Elements
  <1> QED
    BY <1>1, SpecIInv, PTL
=============================================================================
