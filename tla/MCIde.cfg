SPECIFICATION FairSpec
CONSTANTS
    t1 = t1
    t2 = t2
    Machines <- MCMachines
    Threads <- MCThreads
    Lbas = {1, 2}
    Counts = {1, 2}
    B = 2
    NoDrive = NoDrive
    MaxCalls = 2
CHECK_DEADLOCK FALSE
INVARIANTS
    DrivesListed
    SerialReads
PROPERTY
    ReadReturns
