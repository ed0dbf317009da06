CONSTANTS
    Threads = {t1, t2}
    Vms = {v1, v2}
    Memories = {k1, NoMemory}
    NoMemory = NoMemory
    HostModes = {0, 1}
    ProgramCount = 2
    Iterations = 1
    MaxCalls = 2
SPECIFICATION Spec
INVARIANT HostFollowsVm
PROPERTY ImplementsService
