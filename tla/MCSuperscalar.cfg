SPECIFICATION FairSpec
CONSTANTS
    Latency = 7
    MaxSize = 9
    MaxThrowaway = 1
    RegCount = 3
    Displaced = 1
    ChunkSize = 4
    Bytes = {0, 1, 2, 3}
    Words = {0, 14}
INVARIANTS
    SlotFits
    CommitFindsPorts
    NoWastedWork
    AddressOnLongestChain
    DispatchFaithful
PROPERTIES
    ResultsAfterOperands
    Terminates
