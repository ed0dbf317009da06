CONSTANTS
    FracBits = 2
    ExpBits = 5
    WideBits = 8
    Cutoff = 5
    IntBits = 4
    AExpBits = 2
    StaticBits = 1
    DynamicBits = 2
    ExponentBits = 8
    MaskBits = 1
    MaxOps = 5
SPECIFICATION Spec
INVARIANTS
    GroupsInDomain
    AssertionsHold
    Exact
