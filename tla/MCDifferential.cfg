SPECIFICATION Spec
CONSTANTS
    HalfBits = 8
    WordBytes = 8
    L1Size = 32
    L2Size = 64
    L3Size = 128
    CondBits = 2
    StoreL3Condition = 3
    BaseSize = 128
    ExtraItems = 2
    MaskBits = 2
    ProgramCount = 2
    ProgramSize = 2
    Iterations = 2
    Feeds <- MCFeeds
INVARIANTS
    Agreement
    HostModeCurrent
    AccessesSafe
    ReciprocalExact
