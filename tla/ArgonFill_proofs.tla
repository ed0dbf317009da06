-------------------------- MODULE ArgonFill_proofs --------------------------
(***************************************************************************)
(* Proofs about the cache fill, for every segment length, every range of   *)
(* the selecting word and every number of passes.                          *)
(***************************************************************************)
EXTENDS ArgonFill, TLAPS

-----------------------------------------------------------------------------
(* Arithmetic of the reference rule.                                       *)

\* A quotient is below any factor whose product bounds the dividend.
LEMMA QuotientBound ==
    ASSUME NEW a \in Nat, NEW b \in Nat, NEW w \in Nat \ {0}, a < b * w
    PROVE  a \div w \in 0 .. b - 1
  <1>1. a \div w \in Nat /\ w * (a \div w) <= a
    OBVIOUS
  <1>2. CASE b <= a \div w
    <2>1. b * w <= (a \div w) * w
      BY <1>1, <1>2
    <2>2. QED
      BY <1>1, <2>1
  <1>3. QED
    BY <1>1, <1>2

\* The remainder of a number written as a multiple plus a rest.
LEMMA RemainderOfSum ==
    ASSUME NEW q \in Nat, NEW m \in Nat \ {0}, NEW r \in 0 .. m - 1
    PROVE  (q * m + r) % m = r
  <1> DEFINE n == q * m + r
  <1>1. n \in Nat
    OBVIOUS
  <1>2. /\ n \div m \in Nat
        /\ n % m \in 0 .. m - 1
        /\ n = m * (n \div m) + (n % m)
    BY <1>1
  <1>3. CASE n \div m > q
    <2>1. m * (n \div m) >= m * (q + 1)
      BY <1>2, <1>3
    <2>2. QED
      BY <1>2, <2>1
  <1>4. CASE n \div m < q
    <2>1. m * (n \div m) + m <= m * q
      BY <1>2, <1>4
    <2>2. QED
      BY <1>2, <2>1
  <1>5. CASE n \div m = q
    BY <1>2, <1>5
  <1>6. QED
    BY <1>2, <1>3, <1>4, <1>5

\* relative_position of fill_memory_blocks_randomx_segment stays inside a
\* nonempty reference area, whatever the selecting word.
LEMMA RelativePositionInArea ==
    ASSUME NEW area \in Nat \ {0}, NEW rand \in 0 .. RandRange - 1
    PROVE  RelativePosition(area, rand) \in 0 .. area - 1
  <1> DEFINE sq == (rand * rand) \div RandRange
  <1>1. rand * rand < RandRange * RandRange
    <2>1. rand * rand <= rand * RandRange
      BY ConstantsAssumption
    <2>2. rand * RandRange < RandRange * RandRange
      BY ConstantsAssumption
    <2>3. QED
      BY <2>1, <2>2, ConstantsAssumption
  <1>2. sq \in 0 .. RandRange - 1
    <2>1. rand * rand \in Nat
      BY ConstantsAssumption
    <2>2. QED
      BY <1>1, <2>1, QuotientBound, ConstantsAssumption
  <1>3. area * sq < area * RandRange
    BY <1>2, ConstantsAssumption
  <1>4. (area * sq) \div RandRange \in 0 .. area - 1
    <2>1. area * sq \in Nat
      BY <1>2, ConstantsAssumption
    <2>2. QED
      BY <1>3, <2>1, QuotientBound, ConstantsAssumption
  <1>5. QED
    BY <1>4 DEF RelativePosition

-----------------------------------------------------------------------------
(* The inductive invariant: what the lane holds, with the control facts    *)
(* that make it inductive.                                                 *)

Control ==
    /\ pc = "seed" => pass = 0 /\ slice = 0 /\ curr \in {0, 1}
    /\ pc \in {"segment", "fill"} => pass < Iterations
    /\ pc = "fill" => /\ curr \in FirstOffset .. SegmentEnd
                     /\ prev = (curr - 1 + LaneLength) % LaneLength
    /\ pc = "assume" => pass = 1 /\ slice = 0
    /\ pc = "done" => pass = Iterations /\ slice = 0
    /\ assumed => pass >= 1

IInv == TypeOK /\ Control /\ LaneContents

\* Before the first seed block nothing is written.
LEMMA InitIInv == Init => IInv
  <1> SUFFICES ASSUME Init PROVE IInv
    OBVIOUS
  <1>1. LaneLength \in Nat /\ LaneLength >= 8
    BY ConstantsAssumption DEF LaneLength, SyncPoints
  <1>2. TypeOK
    <2>1. NoOperands \in [prev : Contents, ref : Contents, old : Contents]
      BY DEF NoOperands, Contents
    <2>2. assumed \in BOOLEAN
      BY Zenon DEF Init
    <2>3. QED
      BY <1>1, <2>1, <2>2, ConstantsAssumption DEF Init, TypeOK, Blocks, SyncPoints, Contents
  <1>3. Control
    BY <1>1 DEF Init, Control
  <1>4. LaneContents
    BY <1>1 DEF Init, LaneContents, WrittenInPass, Blocks, Uninit
  <1>5. QED
    BY <1>2, <1>3, <1>4 DEF IInv

\* A seed block extends the initialised prefix by one block.
LEMMA SeedBlockIInv == IInv /\ SeedBlock => IInv'
  <1> SUFFICES ASSUME IInv, SeedBlock PROVE IInv'
    OBVIOUS
  <1> USE ConstantsAssumption DEF SyncPoints, Blocks, Uninit, Contents
  <1>1. LaneLength \in Nat /\ LaneLength >= 8
    BY DEF LaneLength
  <1>2. pass = 0 /\ slice = 0 /\ curr \in {0, 1} /\ written = curr
    BY <1>1 DEF IInv, Control, SeedBlock, LaneContents, WrittenInPass
  <1>3. TypeOK'
    BY <1>1, <1>2 DEF IInv, TypeOK, SeedBlock, WriteBlock
  <1>4. Control'
    BY <1>1, <1>2 DEF IInv, TypeOK, Control, SeedBlock
  <1>5. LaneContents'
    BY <1>1, <1>2 DEF IInv, TypeOK, LaneContents, WrittenInPass, SeedBlock, WriteBlock, FirstPass
  <1>6. QED
    BY <1>3, <1>4, <1>5 DEF IInv

\* segment's counters start where the slice before it ended.
LEMMA BeginSegmentIInv == IInv /\ BeginSegment => IInv'
  <1> SUFFICES ASSUME IInv, BeginSegment PROVE IInv'
    OBVIOUS
  <1> USE ConstantsAssumption DEF SyncPoints, Blocks, Uninit, Contents
  <1>1. LaneLength \in Nat /\ LaneLength = 4 * SegmentLength /\ LaneLength >= 8
    BY DEF LaneLength
  <1>2. slice \in {0, 1, 2, 3}
    BY DEF IInv, TypeOK
  <1>3. /\ FirstOffset \in 0 .. LaneLength - 1
        /\ FirstOffset = WrittenInPass
        /\ FirstOffset \in FirstOffset .. SegmentEnd
    <2>1. CASE slice = 0
      BY <1>1, <2>1 DEF FirstOffset, SegmentBegin, SegmentEnd, WrittenInPass, BeginSegment
    <2>2. CASE slice = 1
      BY <1>1, <2>2 DEF FirstOffset, SegmentBegin, SegmentEnd, WrittenInPass, BeginSegment
    <2>3. CASE slice = 2
      BY <1>1, <2>3 DEF FirstOffset, SegmentBegin, SegmentEnd, WrittenInPass, BeginSegment
    <2>4. CASE slice = 3
      BY <1>1, <2>4 DEF FirstOffset, SegmentBegin, SegmentEnd, WrittenInPass, BeginSegment
    <2>5. QED
      BY <1>2, <2>1, <2>2, <2>3, <2>4
  <1>4. PrevOfFirst \in Blocks
    BY <1>1, <1>3 DEF PrevOfFirst
  <1>5. FirstOffset' = FirstOffset /\ SegmentEnd' = SegmentEnd
    BY DEF BeginSegment, FirstOffset, SegmentEnd, SegmentBegin, FirstPass
  <1>6. TypeOK'
    BY <1>1, <1>3, <1>4 DEF IInv, TypeOK, BeginSegment
  <1>7. Control'
    BY <1>1, <1>3, <1>5 DEF IInv, TypeOK, Control, BeginSegment, PrevOfFirst
  <1>8. WrittenInPass' = WrittenInPass
    BY <1>3 DEF BeginSegment, WrittenInPass
  <1>9. LaneContents'
    BY <1>8 DEF IInv, LaneContents, BeginSegment
  <1>10. QED
    BY <1>6, <1>7, <1>9 DEF IInv

\* Facts about a state in which the segment loop makes an iteration.
LEMMA FillState ==
    ASSUME IInv, pc = "fill", curr < SegmentEnd
    PROVE  /\ LaneLength \in Nat /\ LaneLength = 4 * SegmentLength
           /\ slice \in {0, 1, 2, 3}
           /\ SegmentBegin \in Nat /\ SegmentEnd = SegmentBegin + SegmentLength
           /\ SegmentEnd <= LaneLength
           /\ curr \in SegmentBegin .. SegmentEnd - 1
           /\ curr \in Blocks
           /\ FirstPass => curr >= 2
           /\ WrittenInPass = curr
           /\ prev = IF curr = 0 THEN LaneLength - 1 ELSE curr - 1
           /\ ReferenceAreaSize \in Nat \ {0}
  <1> USE ConstantsAssumption DEF SyncPoints, Blocks, Uninit, Contents
  <1>1. LaneLength \in Nat /\ LaneLength = 4 * SegmentLength
    BY DEF LaneLength
  <1>2. slice \in {0, 1, 2, 3}
    BY DEF IInv, TypeOK
  <1>3. /\ SegmentBegin \in Nat /\ SegmentEnd = SegmentBegin + SegmentLength
        /\ SegmentEnd <= LaneLength
        /\ slice # 0 => SegmentBegin >= SegmentLength
    BY <1>1, <1>2 DEF SegmentBegin, SegmentEnd
  <1>4. curr \in FirstOffset .. SegmentEnd
    BY DEF IInv, Control
  <1>5. /\ curr \in SegmentBegin .. SegmentEnd - 1
        /\ FirstPass => curr >= 2
    BY <1>2, <1>3, <1>4 DEF FirstOffset
  <1>6. curr \in Blocks
    BY <1>1, <1>3, <1>5
  <1>7. prev = IF curr = 0 THEN LaneLength - 1 ELSE curr - 1
    <2>1. prev = (curr - 1 + LaneLength) % LaneLength
      BY DEF IInv, Control
    <2>2. CASE curr = 0
      BY <1>1, <2>1, <2>2
    <2>3. CASE curr # 0
      <3>1. curr - 1 \in 0 .. LaneLength - 1
        BY <1>1, <1>6, <2>3
      <3>2. (1 * LaneLength + (curr - 1)) % LaneLength = curr - 1
        BY <1>1, <3>1, RemainderOfSum
      <3>3. 1 * LaneLength + (curr - 1) = curr - 1 + LaneLength
        BY <1>1, <3>1
      <3>4. QED
        BY <2>1, <2>3, <3>2, <3>3
    <2>4. QED
      BY <2>2, <2>3
  <1>8. ReferenceAreaSize \in Nat \ {0}
    BY <1>1, <1>3, <1>5 DEF ReferenceAreaSize, FirstPass
  <1>9. WrittenInPass = curr
    BY DEF WrittenInPass
  <1>10. QED
    BY <1>1, <1>2, <1>3, <1>5, <1>6, <1>7, <1>8, <1>9

(***************************************************************************)
(* Where the reference of an iteration lies: before the previous block, or *)
(* in a later segment, which the pass has not reached.  Only the slices    *)
(* that keep the mask can wrap.                                            *)
(***************************************************************************)
LEMMA RefOffsetRange ==
    ASSUME IInv, pc = "fill", curr < SegmentEnd, NEW rand \in 0 .. RandRange - 1
    PROVE  \/ RefOffset(rand) \in 0 .. curr - 2
           \/ /\ pass # 0
              /\ RefOffset(rand) \in SegmentEnd .. LaneLength - 1
              /\ curr = 0 => RefOffset(rand) # LaneLength - 1
  <1> USE ConstantsAssumption DEF SyncPoints
  <1> DEFINE rel == RelativePosition(ReferenceAreaSize, rand)
  <1>1. /\ LaneLength \in Nat /\ LaneLength = 4 * SegmentLength
        /\ slice \in {0, 1, 2, 3}
        /\ SegmentBegin \in Nat /\ SegmentEnd = SegmentBegin + SegmentLength
        /\ curr \in SegmentBegin .. SegmentEnd - 1
        /\ ReferenceAreaSize \in Nat \ {0}
    BY FillState
  <1>2. rel \in 0 .. ReferenceAreaSize - 1
    BY <1>1, RelativePositionInArea
  <1> HIDE DEF rel
  <1>3. AbsolutePosition(rand) = StartPosition + rel
    BY DEF AbsolutePosition, rel
  <1>4. CASE FirstPass
    BY <1>1, <1>2, <1>3, <1>4 DEF RefOffset, StartPosition, ReferenceAreaSize
  <1>5. CASE ~FirstPass /\ LastSlice
    <2>1. SegmentBegin = 3 * SegmentLength
      BY <1>5 DEF LastSlice, SegmentBegin
    <2>2. QED
      BY <1>1, <1>2, <1>3, <1>5, <2>1 DEF RefOffset, StartPosition, ReferenceAreaSize
  <1>6. CASE ~FirstPass /\ ~LastSlice
    <2>1. /\ StartPosition = SegmentEnd
          /\ SegmentEnd <= 3 * SegmentLength
      BY <1>1, <1>6 DEF StartPosition, SegmentBegin, SegmentEnd, LastSlice
    <2>2. ReferenceAreaSize = 3 * SegmentLength + (curr - SegmentBegin) - 1
      BY <1>1, <1>6 DEF ReferenceAreaSize
    <2>3. AbsolutePosition(rand) \in SegmentEnd .. LaneLength + curr - 2
      BY <1>1, <1>2, <1>3, <2>1, <2>2
    <2>4. RefOffset(rand) = AbsolutePosition(rand) % LaneLength
      BY <1>6 DEF RefOffset
    <2>5. CASE AbsolutePosition(rand) < LaneLength
      <3>1. RefOffset(rand) = AbsolutePosition(rand)
        BY <1>1, <2>3, <2>4, <2>5
      <3>2. QED
        BY <1>1, <1>6, <2>3, <2>5, <3>1 DEF FirstPass
    <2>6. CASE AbsolutePosition(rand) >= LaneLength
      <3> DEFINE r == AbsolutePosition(rand) - LaneLength
      <3>1. r \in 0 .. curr - 2 /\ r \in 0 .. LaneLength - 1
        BY <1>1, <2>1, <2>3, <2>6
      <3>2. (1 * LaneLength + r) % LaneLength = r
        BY <1>1, <3>1, RemainderOfSum
      <3>3. AbsolutePosition(rand) = 1 * LaneLength + r
        BY <1>1, <2>3
      <3>4. QED
        BY <2>4, <3>1, <3>2, <3>3
    <2>7. QED
      BY <1>1, <2>3, <2>5, <2>6
  <1>7. QED
    BY <1>4, <1>5, <1>6

\* What the two inputs of fill_block_raw hold, in write order.
LEMMA OperandContents ==
    ASSUME IInv, pc = "fill", curr < SegmentEnd, NEW rand \in 0 .. RandRange - 1
    PROVE  /\ prev \in Blocks \ {curr}
           /\ blocks[prev] = written - 1
           /\ RefOffset(rand) \in Blocks \ {curr, prev}
           /\ blocks[RefOffset(rand)] \in 0 .. written - 2
           /\ blocks[RefOffset(rand)] >= pass * LaneLength + SegmentBegin - 3 * SegmentLength
           /\ blocks[curr] = IF pass = 0 THEN Uninit ELSE written - LaneLength
           /\ written = pass * LaneLength + curr
           /\ pass \in Nat
  <1> USE ConstantsAssumption DEF SyncPoints, Blocks, Uninit
  <1> DEFINE ref == RefOffset(rand)
  <1>1. /\ LaneLength \in Nat /\ LaneLength = 4 * SegmentLength
        /\ slice \in {0, 1, 2, 3}
        /\ SegmentBegin \in Nat /\ SegmentEnd = SegmentBegin + SegmentLength
        /\ SegmentEnd <= LaneLength
        /\ curr \in SegmentBegin .. SegmentEnd - 1
        /\ curr \in Blocks
        /\ FirstPass => curr >= 2
        /\ WrittenInPass = curr
        /\ prev = IF curr = 0 THEN LaneLength - 1 ELSE curr - 1
    BY FillState
  <1>2. \/ ref \in 0 .. curr - 2
        \/ /\ pass # 0
           /\ ref \in SegmentEnd .. LaneLength - 1
           /\ curr = 0 => ref # LaneLength - 1
    BY RefOffsetRange
  <1> HIDE DEF ref
  <1>3. pass \in Nat
    BY DEF IInv, TypeOK
  <1>4. PICK base \in Nat : base = pass * LaneLength
    BY <1>1, <1>3
  <1>5. pass # 0 => (pass - 1) * LaneLength = base - LaneLength /\ base >= LaneLength
    BY <1>1, <1>3, <1>4
  <1>6. /\ written = base + curr
        /\ \A b \in Blocks :
              blocks[b] = IF b < curr THEN base + b
                          ELSE IF pass = 0 THEN Uninit
                          ELSE base - LaneLength + b
    BY <1>1, <1>4, <1>5 DEF IInv, LaneContents
  <1>7. /\ prev \in Blocks \ {curr}
        /\ blocks[prev] = written - 1
    BY <1>1, <1>3, <1>6 DEF FirstPass
  <1>8. blocks[curr] = IF pass = 0 THEN Uninit ELSE written - LaneLength
    BY <1>1, <1>6
  <1>9. ref \in Blocks \ {curr, prev}
    BY <1>1, <1>2
  <1>10. /\ blocks[ref] \in 0 .. written - 2
         /\ blocks[ref] >= base + SegmentBegin - 3 * SegmentLength
    <2>1. SegmentBegin <= 3 * SegmentLength
      BY <1>1
    <2>2. CASE ref \in 0 .. curr - 2
      BY <1>1, <1>6, <1>9, <2>1, <2>2
    <2>3. CASE /\ pass # 0
               /\ ref \in SegmentEnd .. LaneLength - 1
               /\ curr = 0 => ref # LaneLength - 1
      BY <1>1, <1>5, <1>6, <1>9, <2>3
    <2>4. QED
      BY <1>2, <2>2, <2>3
  <1>11. QED
    BY <1>3, <1>4, <1>6, <1>7, <1>8, <1>9, <1>10 DEF ref

\* A filled block extends the pass by one block, from operands already filled.
LEMMA FillBlockIInv == IInv /\ FillBlock => IInv'
  <1> SUFFICES ASSUME IInv, FillBlock PROVE IInv'
    OBVIOUS
  <1> USE ConstantsAssumption DEF SyncPoints, Blocks
  <1>1. pc = "fill" /\ curr < SegmentEnd
    BY DEF FillBlock
  <1>2. /\ LaneLength \in Nat /\ LaneLength = 4 * SegmentLength
        /\ SegmentEnd <= LaneLength /\ SegmentEnd \in Nat
        /\ curr \in Blocks
        /\ WrittenInPass = curr
    BY <1>1, FillState
  <1>3. /\ written \in Nat
        /\ blocks \in [Blocks -> Contents]
        /\ pass \in Nat
    BY DEF IInv, TypeOK
  <1>4. PICK rand \in 0 .. RandRange - 1 :
          operands' = [prev |-> blocks[prev],
                       ref  |-> blocks[RefOffset(rand)],
                       old  |-> IF WithXor THEN blocks[curr] ELSE Uninit]
    BY DEF FillBlock
  <1>5. prev \in Blocks /\ RefOffset(rand) \in Blocks /\ written = pass * LaneLength + curr
    BY <1>1, OperandContents
  <1>6. TypeOK'
    <2>1. operands' \in [prev : Contents, ref : Contents, old : Contents]
      <3>1. /\ blocks[prev] \in Contents
            /\ blocks[RefOffset(rand)] \in Contents
            /\ (IF WithXor THEN blocks[curr] ELSE Uninit) \in Contents
        BY <1>2, <1>3, <1>5 DEF Contents
      <3>2. QED
        BY <1>4, <3>1
    <2>2. blocks' \in [Blocks -> Contents] /\ written' \in Nat
      BY <1>2, <1>3 DEF FillBlock, WriteBlock, Contents, Uninit
    <2>3. QED
      BY <1>2, <2>1, <2>2 DEF IInv, TypeOK, FillBlock
  <1>7. Control'
    <2>1. FirstOffset' = FirstOffset /\ SegmentEnd' = SegmentEnd
      BY DEF FillBlock, FirstOffset, SegmentEnd, SegmentBegin, FirstPass
    <2>2. curr' \in FirstOffset' .. SegmentEnd'
      <3>1. FirstOffset \in Nat
        BY <1>1, FillState DEF FirstOffset
      <3>2. curr \in FirstOffset .. SegmentEnd /\ curr' = curr + 1
        BY <1>1 DEF IInv, Control, FillBlock
      <3>3. QED
        BY <1>1, <1>2, <2>1, <3>1, <3>2
    <2>3. prev' = (curr' - 1 + LaneLength) % LaneLength
      <3>1. (1 * LaneLength + curr) % LaneLength = curr
        BY <1>2, RemainderOfSum
      <3>2. curr' - 1 + LaneLength = 1 * LaneLength + curr
        BY <1>2 DEF FillBlock
      <3>3. QED
        BY <3>1, <3>2 DEF FillBlock
    <2>4. QED
      BY <2>2, <2>3 DEF IInv, Control, FillBlock
  <1>8. LaneContents'
    <2>1. WrittenInPass' = curr + 1 /\ pass' = pass
      BY DEF FillBlock, WrittenInPass
    <2>2. written' = pass * LaneLength + curr + 1
      BY <1>2, <1>3, <1>5 DEF FillBlock, WriteBlock
    <2>3. blocks' = [blocks EXCEPT ![curr] = pass * LaneLength + curr]
      BY <1>5 DEF FillBlock, WriteBlock
    <2>4. QED
      BY <1>2, <1>3, <2>1, <2>2, <2>3 DEF IInv, LaneContents
  <1>9. QED
    BY <1>6, <1>7, <1>8 DEF IInv

\* A finished segment is followed by the next slice or the next pass.
LEMMA EndSegmentIInv == IInv /\ EndSegment => IInv'
  <1> SUFFICES ASSUME IInv, EndSegment PROVE IInv'
    OBVIOUS
  <1> USE ConstantsAssumption DEF SyncPoints, Blocks
  <1>1. LaneLength \in Nat /\ LaneLength = 4 * SegmentLength
    BY DEF LaneLength
  <1>2. /\ slice \in {0, 1, 2, 3}
        /\ pass \in Nat /\ pass < Iterations
        /\ curr = SegmentEnd
    BY DEF IInv, TypeOK, Control, EndSegment
  <1>3. WrittenInPass = SegmentEnd /\ written = pass * LaneLength + SegmentEnd
    BY <1>2 DEF WrittenInPass, EndSegment, IInv, LaneContents
  <1>4. CASE ~LastSlice
    <2>1. slice' = slice + 1 /\ pc' = "segment" /\ pass' = pass
      BY <1>4 DEF EndSegment
    <2>2. slice' \in {1, 2, 3}
      BY <1>2, <1>4, <2>1 DEF LastSlice
    <2>3. SegmentBegin' = SegmentEnd
      BY <1>2, <2>1 DEF SegmentBegin, SegmentEnd
    <2>4. TypeOK'
      BY <2>1, <2>2 DEF IInv, TypeOK, EndSegment
    <2>5. Control'
      BY <1>2, <2>1 DEF IInv, Control, EndSegment
    <2>6. WrittenInPass' = WrittenInPass
      BY <1>3, <2>1, <2>2, <2>3 DEF WrittenInPass
    <2>7. LaneContents'
      BY <2>1, <2>6 DEF IInv, LaneContents, EndSegment
    <2>8. QED
      BY <2>4, <2>5, <2>7 DEF IInv
  <1>5. CASE LastSlice
    <2>1. /\ slice' = 0 /\ pass' = pass + 1
          /\ pc' = IF FirstPass THEN "assume"
                   ELSE IF pass + 1 < Iterations THEN "segment" ELSE "done"
          /\ UNCHANGED <<curr, prev, blocks, assumed, written, operands>>
      BY <1>5 DEF EndSegment, AfterPass
    <2>2. SegmentEnd = LaneLength
      BY <1>1, <1>5 DEF LastSlice, SegmentEnd, SegmentBegin
    <2>3. TypeOK'
      BY <1>2, <2>1 DEF IInv, TypeOK
    <2>4. Control'
      BY <1>2, <2>1 DEF IInv, Control, FirstPass
    <2>5. WrittenInPass' = 0
      BY <1>1, <1>2, <2>1 DEF WrittenInPass, FirstPass, SegmentBegin
    <2>6. written = (pass + 1) * LaneLength
      BY <1>1, <1>2, <1>3, <2>2
    <2>7. \A b \in Blocks : blocks[b] = pass * LaneLength + b
      BY <1>1, <1>3, <2>2 DEF IInv, LaneContents
    <2>8. LaneContents'
      BY <1>1, <1>2, <2>1, <2>5, <2>6, <2>7 DEF LaneContents
    <2>9. QED
      BY <2>3, <2>4, <2>8 DEF IInv
  <1>6. QED
    BY <1>4, <1>5

\* assume_init follows the first pass, which wrote the whole lane.
LEMMA AssumeInitIInv == IInv /\ AssumeInit => IInv'
  <1> SUFFICES ASSUME IInv, AssumeInit PROVE IInv'
    OBVIOUS
  <1> USE ConstantsAssumption DEF SyncPoints, Blocks
  <1>1. pass = 1 /\ slice = 0
    BY DEF IInv, Control, AssumeInit
  <1>2. TypeOK'
    <2>1. assumed' \in BOOLEAN
      BY Zenon DEF AssumeInit
    <2>2. QED
      BY <2>1 DEF IInv, TypeOK, AssumeInit
  <1>3. Control'
    BY <1>1 DEF IInv, Control, AssumeInit
  <1>4. WrittenInPass' = WrittenInPass
    BY <1>1 DEF WrittenInPass, AssumeInit, FirstPass, SegmentBegin
  <1>5. LaneContents'
    BY <1>4 DEF IInv, LaneContents, AssumeInit
  <1>6. QED
    BY <1>2, <1>3, <1>5 DEF IInv

\* A step that changes nothing keeps the invariant.
LEMMA StutterIInv == IInv /\ UNCHANGED vars => IInv'
  BY DEF vars, IInv, TypeOK, Control, LaneContents, WrittenInPass, FirstPass,
         FirstOffset, SegmentBegin, SegmentEnd, Blocks

\* The inductive invariant of initialize_randomx: at any point the blocks before the
\* current position belong to the current pass and the others to the one before.
THEOREM SpecIInv == Spec => []IInv
  <1>1. IInv /\ [Next]_vars => IInv'
    BY SeedBlockIInv, BeginSegmentIInv, FillBlockIInv, EndSegmentIInv, AssumeInitIInv,
       StutterIInv DEF Next, Returned
  <1>2. QED
    BY InitIInv, <1>1, PTL DEF Spec

-----------------------------------------------------------------------------
(* The results.                                                            *)

(***************************************************************************)
(* The variables of initialize_randomx keep their types: the offsets stay  *)
(* inside the lane for every segment length.                               *)
(***************************************************************************)
THEOREM TypeCorrect == Spec => []TypeOK
  BY SpecIInv, PTL DEF IInv

(***************************************************************************)
(* Every pass writes every block of the lane exactly once, in order.       *)
(***************************************************************************)
THEOREM LaneContentsCorrect == Spec => []LaneContents
  BY SpecIInv, PTL DEF IInv

(***************************************************************************)
(* The SAFETY comments of the segment loop hold for every selecting word:  *)
(* the inputs of fill_block_raw are initialised, in the lane, and distinct *)
(* from the block being written.                                           *)
(***************************************************************************)
THEOREM OperandsAlwaysSafe == Spec => []OperandsSafe
  <1>1. IInv => OperandsSafe
    <2> SUFFICES ASSUME IInv, pc = "fill", curr < SegmentEnd
                 PROVE  /\ ReferenceAreaSize >= 1
                        /\ prev # curr
                        /\ blocks[prev] # Uninit
                        /\ WithXor => blocks[curr] # Uninit
                        /\ \A rand \in 0 .. RandRange - 1 :
                              /\ RelativePosition(ReferenceAreaSize, rand) >= 0
                              /\ RefOffset(rand) \in Blocks \ {curr, prev}
                              /\ blocks[RefOffset(rand)] # Uninit
      BY DEF OperandsSafe
    <2>1. ReferenceAreaSize \in Nat \ {0} /\ LaneLength \in Nat /\ curr \in Nat
      BY FillState DEF Blocks
    <2>2. 0 \in 0 .. RandRange - 1
      BY ConstantsAssumption
    <2>3. /\ prev # curr
          /\ blocks[prev] = written - 1
          /\ blocks[curr] = IF pass = 0 THEN Uninit ELSE written - LaneLength
          /\ written = pass * LaneLength + curr
          /\ blocks[RefOffset(0)] \in 0 .. written - 2
          /\ pass \in Nat
      BY <2>2, OperandContents
    <2>4. WithXor => blocks[curr] # Uninit
      <3>1. CASE pass = 0
        BY <3>1 DEF WithXor
      <3>2. CASE pass # 0
        <4>1. pass * LaneLength >= LaneLength
          BY <2>1, <2>3, <3>2
        <4>2. pass * LaneLength \in Nat
          BY <2>1, <2>3
        <4>3. QED
          BY <2>1, <2>3, <3>2, <4>1, <4>2 DEF Uninit
      <3>3. QED
        BY <3>1, <3>2
    <2>5. blocks[prev] # Uninit
      <3>1. written \in Nat
        BY DEF IInv, TypeOK
      <3>2. QED
        BY <2>3, <3>1 DEF Uninit
    <2>6. ASSUME NEW rand \in 0 .. RandRange - 1
          PROVE  /\ RelativePosition(ReferenceAreaSize, rand) >= 0
                 /\ RefOffset(rand) \in Blocks \ {curr, prev}
                 /\ blocks[RefOffset(rand)] # Uninit
      <3>1. RelativePosition(ReferenceAreaSize, rand) >= 0
        BY <2>1, RelativePositionInArea
      <3>2. /\ RefOffset(rand) \in Blocks \ {curr, prev}
            /\ blocks[RefOffset(rand)] \in 0 .. written - 2
        BY OperandContents
      <3>3. QED
        BY <3>1, <3>2 DEF Uninit
    <2>7. QED
      BY <2>1, <2>3, <2>4, <2>5, <2>6
  <1>2. QED
    BY SpecIInv, <1>1, PTL

(***************************************************************************)
(* assume_init is called only on a fully initialised slice.                *)
(***************************************************************************)
THEOREM AssumeInitAlwaysSound == Spec => []AssumeInitSound
  <1>1. IInv => AssumeInitSound
    <2> SUFFICES ASSUME IInv, pc = "assume" \/ assumed, NEW b \in Blocks
                 PROVE  blocks[b] # Uninit
      BY DEF AssumeInitSound
    <2>1. pass \in Nat /\ pass >= 1
      BY DEF IInv, TypeOK, Control
    <2>2. LaneLength \in Nat
      BY ConstantsAssumption DEF LaneLength, SyncPoints
    <2>3. pass * LaneLength \in Nat /\ (pass - 1) * LaneLength \in Nat
      BY <2>1, <2>2
    <2>4. blocks[b] = pass * LaneLength + b \/ blocks[b] = (pass - 1) * LaneLength + b
      BY <2>1 DEF IInv, LaneContents
    <2>5. QED
      BY <2>2, <2>3, <2>4 DEF Uninit, Blocks
  <1>2. QED
    BY SpecIInv, <1>1, PTL

(***************************************************************************)
(* The fill, with its compile-time cases and its masks, implements the     *)
(* lane of Argon2d: every compression consumes the block written just      *)
(* before, a block of the reference window and, from the second pass on,   *)
(* the block it overwrites.                                                *)
(***************************************************************************)
THEOREM FillImplementsLane == Spec => ImplementsLane
  <1> USE ConstantsAssumption
  <1>1. Init => Lane!Init
    BY DEF Init, NoOperands, Uninit, Lane!Init, Lane!NoOperands, Lane!NoBlock
  <1>2. ASSUME IInv, SeedBlock PROVE Lane!Next
    <2>1. curr \in {0, 1} /\ pass = 0 /\ LaneLength \in Nat
      BY <1>2 DEF IInv, Control, SeedBlock, LaneLength, SyncPoints
    <2>2. written = curr
      BY <1>2, <2>1 DEF IInv, LaneContents, WrittenInPass, SeedBlock
    <2>3. written' = written + 1 /\ operands' = operands
      BY <1>2 DEF SeedBlock, WriteBlock
    <2>4. QED
      BY <2>1, <2>2, <2>3 DEF Lane!Next, Lane!Seed
  <1>3. ASSUME IInv, FillBlock PROVE Lane!Next
    <2>1. pc = "fill" /\ curr < SegmentEnd
      BY <1>3 DEF FillBlock
    <2>2. PICK rand \in 0 .. RandRange - 1 :
            operands' = [prev |-> blocks[prev],
                         ref  |-> blocks[RefOffset(rand)],
                         old  |-> IF WithXor THEN blocks[curr] ELSE Uninit]
      BY <1>3 DEF FillBlock
    <2>3. /\ blocks[prev] = written - 1
          /\ blocks[RefOffset(rand)] \in 0 .. written - 2
          /\ blocks[RefOffset(rand)] >= pass * LaneLength + SegmentBegin - 3 * SegmentLength
          /\ blocks[curr] = IF pass = 0 THEN Uninit ELSE written - LaneLength
          /\ written = pass * LaneLength + curr
          /\ pass \in Nat
      BY <1>3, <2>1, OperandContents
    <2>4. /\ LaneLength \in Nat /\ LaneLength = 4 * SegmentLength
          /\ slice \in {0, 1, 2, 3}
          /\ SegmentBegin \in Nat /\ SegmentEnd = SegmentBegin + SegmentLength
          /\ SegmentEnd <= LaneLength
          /\ curr \in SegmentBegin .. SegmentEnd - 1
          /\ FirstPass => curr >= 2
      BY <1>3, <2>1, FillState
    <2>5. pass * LaneLength \in Nat /\ (pass # 0 => pass * LaneLength >= LaneLength)
      BY <2>3, <2>4
    <2>6. Lane!SegmentStart(written) = pass * LaneLength + SegmentBegin
      <3> DEFINE q == pass * 4 + slice
                 r == curr - SegmentBegin
      <3>1. q \in Nat /\ r \in 0 .. SegmentLength - 1
        BY <2>3, <2>4
      <3>2. written = q * SegmentLength + r
        BY <2>3, <2>4 DEF SegmentBegin
      <3>3. written % SegmentLength = r
        BY <3>1, <3>2, RemainderOfSum
      <3>4. QED
        BY <2>3, <2>4, <2>5, <3>3 DEF Lane!SegmentStart
    <2>7. blocks[RefOffset(rand)] \in Lane!Window(written)
      <3>1. PICK low \in Int : low = pass * LaneLength + SegmentBegin - 3 * SegmentLength
        BY <2>4, <2>5
      <3>2. Lane!SegmentStart(written) - (Lane!SyncPoints - 1) * SegmentLength = low
        BY <2>4, <2>5, <2>6, <3>1 DEF Lane!SyncPoints
      <3>3. QED
        BY <2>3, <3>1, <3>2 DEF Lane!Window
    <2>8. (IF WithXor THEN blocks[curr] ELSE Uninit) = Lane!Overwritten(written)
      BY <2>3, <2>4, <2>5
      DEF WithXor, Uninit, Lane!Overwritten, Lane!NoBlock, Lane!LaneLength, Lane!SyncPoints
    <2>9. operands' = [prev |-> written - 1, ref |-> blocks[RefOffset(rand)],
                       old |-> Lane!Overwritten(written)]
      BY <2>2, <2>3, <2>8
    <2>10. written >= 2
      BY <2>3, <2>4, <2>5 DEF FirstPass
    <2>11. written < Iterations * Lane!LaneLength
      <3>1. pass + 1 <= Iterations
        BY <1>3, <2>1, <2>3 DEF IInv, Control
      <3>2. (pass + 1) * LaneLength <= Iterations * LaneLength
        BY <2>3, <2>4, <3>1
      <3>3. written < (pass + 1) * LaneLength
        BY <2>3, <2>4, <2>5
      <3>4. LaneLength = Lane!LaneLength
        BY DEF LaneLength, SyncPoints, Lane!LaneLength, Lane!SyncPoints
      <3>5. QED
        BY <2>3, <2>4, <2>5, <3>2, <3>3, <3>4
    <2>12. written' = written + 1
      BY <1>3 DEF FillBlock, WriteBlock
    <2>13. QED
      BY <2>7, <2>9, <2>10, <2>11, <2>12 DEF Lane!Next, Lane!Compress
  <1>4. IInv /\ [Next]_vars => [Lane!Next]_Lane!vars
    BY <1>2, <1>3
    DEF Next, vars, BeginSegment, EndSegment, AssumeInit, Returned, Lane!vars
  <1>5. QED
    BY SpecIInv, <1>1, <1>4, PTL DEF Spec, ImplementsLane, Lane!Spec

=============================================================================
