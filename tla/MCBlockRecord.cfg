SPECIFICATION RecordSpec
CONSTANTS
    Epoch = 4
    Lag = 1
    MaxHeight = 7
    VarintBase = 2
    LimbBase = 4
    Limbs = 3
    FixtureBlocks = 3
    SelectedLength = 10
    Timestamps = 2
    Served <- MCServed
INVARIANTS
    AgreeOffBoundary
    TreeCanonical
    DifficultyExact
    TipBindsRecords
    RecordedValidates
