CONSTANTS
    Reg <- MCReg
    ProgramSize = 3
    Iterations = 2
    WordRange = 32
    FieldRange = 4
    Units <- MCUnits
    Immediates <- MCImmediates
    Values <- MCValues
SPECIFICATION FairSpec
INVARIANTS
    TargetsCanonical
    FetchInBounds
    BoundedVisits
PROPERTIES
    BodyKeepsRegister
    Terminates
