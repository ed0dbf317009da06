SPECIFICATION FairSpec
CONSTANTS
    WorkerCount = 2
    Slots = 4
    MaxChunks = 5
    FirstChunks = {1, 2}
    LastChunks = {3, 9}
CHECK_DEADLOCK FALSE
INVARIANTS
    NoReportMissing
    TotalComplete
PROPERTY
    Terminates
