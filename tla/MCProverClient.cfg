SPECIFICATION FairSpec
CONSTANTS
    Process = {p1}
    MaxRequests = 3
    MaxFaults = 4
INVARIANTS
    WaitingPersisted
    PaidAccounted
    SavedProofVerified
PROPERTIES
    ResumeCompletes
    SubmitsOnlyWithoutFiles
