SPECIFICATION FairSpec
CONSTANTS
    WorkerCount = 1
    Slots = 1
    MaxChunks = 2
    FirstChunks = {1}
    LastChunks = {9}
CHECK_DEADLOCK FALSE
PROPERTY
    StoppedWorkersReported
