SPECIFICATION Spec
CONSTANTS
    Epoch = 2048
    Lag = 64
    MaxHeight = 6400
CHECK_DEADLOCK FALSE
INVARIANT RecordedBlockAccepted
