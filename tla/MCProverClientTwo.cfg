SPECIFICATION FairSpec
CONSTANTS
    Process = {p1, p2}
    MaxRequests = 2
    MaxFaults = 0
PROPERTY
    SubmitsOnlyWithoutFiles
