----------------------------- MODULE ArgonLane -----------------------------
(***************************************************************************)
(* What the RandomX cache must be: one lane of Argon2d memory.             *)
(*                                                                         *)
(* Blocks are named by the order in which they are written: the block      *)
(* written n-th goes to slot n % LaneLength.  Blocks 0 and 1 come from the *)
(* key.  Every later block is the compression of the block written just    *)
(* before it and of one reference block, and from the second pass on also  *)
(* of the block it overwrites.  The reference may be any block of the      *)
(* window of Argon2's reference rule: the three segments completed before  *)
(* the current one and the blocks of the current segment, except the one   *)
(* written last.  Stated in write order the rule has no cases: "first      *)
(* pass", "last slice" and the wrap around the lane do not appear.         *)
(***************************************************************************)
EXTENDS Integers

CONSTANTS SegmentLength,  \* blocks in a segment
          Iterations      \* passes over the lane

VARIABLES written,        \* how many blocks have been written
          operands        \* the blocks the last compression consumed

vars == <<written, operands>>

SyncPoints == 4
LaneLength == SyncPoints * SegmentLength

NoBlock    == -1
NoOperands == [prev |-> NoBlock, ref |-> NoBlock, old |-> NoBlock]

\* The first block of the segment that block n belongs to.
SegmentStart(n) == n - (n % SegmentLength)

\* The blocks that the n-th one may use as its reference.
Window(n) ==
    {j \in 0 .. n - 2 : j >= SegmentStart(n) - (SyncPoints - 1) * SegmentLength}

\* The block that the n-th one overwrites and is combined with.
Overwritten(n) == IF n < LaneLength THEN NoBlock ELSE n - LaneLength

Init ==
    /\ written = 0
    /\ operands = NoOperands

Seed ==
    /\ written < 2
    /\ written' = written + 1
    /\ UNCHANGED operands

Compress ==
    /\ written >= 2
    /\ written < Iterations * LaneLength
    /\ \E j \in Window(written) :
          operands' = [prev |-> written - 1, ref |-> j, old |-> Overwritten(written)]
    /\ written' = written + 1

Next == Seed \/ Compress

Spec == Init /\ [][Next]_vars

=============================================================================
