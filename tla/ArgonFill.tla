----------------------------- MODULE ArgonFill -----------------------------
(***************************************************************************)
(* initialize_randomx: the fill of the RandomX cache (argon2/src/core.rs). *)
(*                                                                         *)
(* The memory is a boxed slice of MaybeUninit blocks.  The first pass is   *)
(* specialised at compile time not to read the block it overwrites; after  *)
(* it the slice is declared initialised and two more passes run over it.   *)
(* The words of a block are abstracted to the identity of the write that   *)
(* produced it, and the word that selects the reference block, an output   *)
(* of Blake2b, to an arbitrary number below RandRange (2^32 in the code).  *)
(* The masks "& LANE_MASK" and the shifts ">> 32" are remainders and       *)
(* quotients: LaneLength and RandRange are powers of two in the code.      *)
(***************************************************************************)
EXTENDS Integers

CONSTANTS SegmentLength,  \* SEGMENT_LENGTH: 65,536
          RandRange,      \* pseudo_rand & 0xffff_ffff is below it: 2^32
          Iterations      \* RANDOMX_ITERATIONS: 3

\* The first segment holds the two seed blocks.
ASSUME ConstantsAssumption ==
    /\ SegmentLength \in Nat /\ SegmentLength >= 2
    /\ RandRange \in Nat \ {0}
    /\ Iterations \in Nat \ {0}

VARIABLES pc,        \* where initialize_randomx is
          pass,      \* the pass being made
          slice,     \* SLICE
          curr,      \* block_index of the seed loop, then curr_offset
          prev,      \* prev_offset
          blocks,    \* the write that each block holds, or Uninit
          assumed,   \* the slice has been through assume_init
          written,   \* how many block writes have been made
          operands   \* what the last fill_block_raw consumed

vars == <<pc, pass, slice, curr, prev, blocks, assumed, written, operands>>

Uninit     == -1
SyncPoints == 4
LaneLength == SyncPoints * SegmentLength
Blocks     == 0 .. LaneLength - 1
Contents   == Nat \union {Uninit}
NoOperands == [prev |-> Uninit, ref |-> Uninit, old |-> Uninit]

-----------------------------------------------------------------------------
(* The const generics: pass 0 is <true, false>, the others <false, true>.  *)
FirstPass == pass = 0
WithXor   == pass # 0
LastSlice == slice = SyncPoints - 1

SegmentBegin == slice * SegmentLength
SegmentEnd   == SegmentBegin + SegmentLength

\* Mutant: the two seed blocks are skipped in every slice.
FirstOffsetEverySlice == SegmentBegin + (IF FirstPass THEN 2 ELSE 0)

\* Mutant: the two seed blocks are skipped in every pass.
FirstOffsetEveryPass == SegmentBegin + (IF slice = 0 THEN 2 ELSE 0)

FirstOffset ==
    SegmentBegin + (IF FirstPass /\ slice = 0 THEN 2 ELSE 0)

\* first_offset.wrapping_sub(1) & LANE_MASK
PrevOfFirst == (FirstOffset - 1 + LaneLength) % LaneLength

\* Mutant: the area includes the previous block.
ReferenceAreaWithPrevious ==
    IF FirstPass THEN curr
    ELSE LaneLength - SegmentLength + (curr - SegmentBegin)

(* The reference rule, for the slice and the offset being filled.          *)
ReferenceAreaSize ==
    IF FirstPass THEN curr - 1
    ELSE LaneLength - SegmentLength + (curr - SegmentBegin) - 1

RelativePosition(area, rand) ==
    area - 1 - ((area * ((rand * rand) \div RandRange)) \div RandRange)

\* Mutant: the window starts at the slice being filled.
StartPositionAtSlice ==
    IF FirstPass \/ LastSlice THEN 0 ELSE slice * SegmentLength

StartPosition ==
    IF FirstPass \/ LastSlice THEN 0 ELSE (slice + 1) * SegmentLength

AbsolutePosition(rand) ==
    StartPosition + RelativePosition(ReferenceAreaSize, rand)

\* The specialised cases skip the mask.
RefOffset(rand) ==
    IF FirstPass \/ LastSlice THEN AbsolutePosition(rand)
    ELSE AbsolutePosition(rand) % LaneLength

\* Mutant: one pass too many.
AfterPassOneMore ==
    IF FirstPass THEN "assume"
    ELSE IF pass < Iterations THEN "segment" ELSE "done"

\* What follows a pass: assume_init after the first one, then the others.
AfterPass ==
    IF FirstPass THEN "assume"
    ELSE IF pass + 1 < Iterations THEN "segment" ELSE "done"

-----------------------------------------------------------------------------
Init ==
    /\ pc = "seed"
    /\ pass = 0
    /\ slice = 0
    /\ curr = 0
    /\ prev = 0
    /\ blocks = [b \in Blocks |-> Uninit]
    /\ assumed = FALSE
    /\ written = 0
    /\ operands = NoOperands

WriteBlock(b) ==
    /\ blocks' = [blocks EXCEPT ![b] = written]
    /\ written' = written + 1

\* One iteration of the loop that derives blocks 0 and 1 from the key.
SeedBlock ==
    /\ pc = "seed"
    /\ WriteBlock(curr)
    /\ curr' = curr + 1
    /\ pc' = IF curr = 1 THEN "segment" ELSE "seed"
    /\ UNCHANGED <<pass, slice, prev, assumed, operands>>

\* Entry of fill_memory_blocks_randomx_segment.
BeginSegment ==
    /\ pc = "segment"
    /\ curr' = FirstOffset
    /\ prev' = PrevOfFirst
    /\ pc' = "fill"
    /\ UNCHANGED <<pass, slice, blocks, assumed, written, operands>>

\* One iteration of the segment loop.
FillBlock ==
    /\ pc = "fill"
    /\ curr < SegmentEnd
    /\ \E rand \in 0 .. RandRange - 1 :
          operands' = [prev |-> blocks[prev],
                       ref  |-> blocks[RefOffset(rand)],
                       old  |-> IF WithXor THEN blocks[curr] ELSE Uninit]
    /\ WriteBlock(curr)
    /\ prev' = curr
    /\ curr' = curr + 1
    /\ UNCHANGED <<pc, pass, slice, assumed>>

\* The four segments of a pass, and the passes, follow one another.
EndSegment ==
    /\ pc = "fill"
    /\ curr = SegmentEnd
    /\ \/ /\ ~LastSlice
          /\ slice' = slice + 1
          /\ pc' = "segment"
          /\ UNCHANGED pass
       \/ /\ LastSlice
          /\ slice' = 0
          /\ pass' = pass + 1
          /\ pc' = AfterPass
    /\ UNCHANGED <<curr, prev, blocks, assumed, written, operands>>

\* blocks.assume_init(), between the first pass and the others.
AssumeInit ==
    /\ pc = "assume"
    /\ assumed' = TRUE
    /\ pc' = IF pass < Iterations THEN "segment" ELSE "done"
    /\ UNCHANGED <<pass, slice, curr, prev, blocks, written, operands>>

Returned ==
    /\ pc = "done"
    /\ UNCHANGED vars

Next ==
    \/ SeedBlock \/ BeginSegment \/ FillBlock \/ EndSegment \/ AssumeInit
    \/ Returned

Spec == Init /\ [][Next]_vars

FairSpec == Spec /\ WF_vars(Next)

-----------------------------------------------------------------------------
TypeOK ==
    /\ pc \in {"seed", "segment", "fill", "assume", "done"}
    /\ pass \in 0 .. Iterations
    /\ slice \in 0 .. SyncPoints - 1
    /\ curr \in 0 .. LaneLength
    /\ prev \in Blocks
    /\ blocks \in [Blocks -> Contents]
    /\ assumed \in BOOLEAN
    /\ written \in Nat
    /\ operands \in [prev : Contents, ref : Contents, old : Contents]

(***************************************************************************)
(* The SAFETY comments of fill_memory_blocks_randomx_segment: whatever     *)
(* word the previous block holds, both inputs of fill_block_raw are        *)
(* initialised blocks of the lane other than the one being written, the    *)
(* reference is not the previous block, and no subtraction underflows.     *)
(***************************************************************************)
OperandsSafe ==
    pc = "fill" /\ curr < SegmentEnd =>
        /\ ReferenceAreaSize >= 1
        /\ prev # curr
        /\ blocks[prev] # Uninit
        /\ WithXor => blocks[curr] # Uninit
        /\ \A rand \in 0 .. RandRange - 1 :
              /\ RelativePosition(ReferenceAreaSize, rand) >= 0
              /\ RefOffset(rand) \in Blocks \ {curr, prev}
              /\ blocks[RefOffset(rand)] # Uninit

(***************************************************************************)
(* assume_init is reached only with every block initialised, and from then *)
(* on no block is uninitialised.                                           *)
(***************************************************************************)
AssumeInitSound ==
    pc = "assume" \/ assumed => \A b \in Blocks : blocks[b] # Uninit

(***************************************************************************)
(* What the lane holds at every point of the fill: the slots before the    *)
(* current offset were written by this pass, each by its own write, and    *)
(* the others by the pass before it, or by none.  In particular every pass *)
(* writes every block exactly once, in increasing order.                   *)
(***************************************************************************)
WrittenInPass ==    \* blocks that the present pass has written
    CASE pc \in {"seed", "fill"} -> curr
      [] pc = "segment" -> IF FirstPass /\ slice = 0 THEN 2 ELSE SegmentBegin
      [] OTHER -> 0

LaneContents ==
    /\ written = pass * LaneLength + WrittenInPass
    /\ \A b \in Blocks :
          blocks[b] = IF b < WrittenInPass THEN pass * LaneLength + b
                      ELSE IF pass = 0 THEN Uninit
                      ELSE (pass - 1) * LaneLength + b

\* The fill implements the lane of Argon2d.
Lane == INSTANCE ArgonLane WITH written <- written, operands <- operands

ImplementsLane == Lane!Spec

\* Every fill ends with all the passes made.
Terminates == <>(pc = "done" /\ written = Iterations * LaneLength)

=============================================================================
