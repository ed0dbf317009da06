CONSTANTS
    SegmentLength = 4
    RandRange = 16
    Iterations = 3
SPECIFICATION FairSpec
INVARIANTS
    OperandsSafe
    AssumeInitSound
    LaneContents
PROPERTIES
    ImplementsLane
    Terminates
