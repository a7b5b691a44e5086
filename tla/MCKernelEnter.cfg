SPECIFICATION KernelSpec
CONSTANTS
    BspId = 0
    Aps = {1, 2}
    Absent = {}
    Null = Null
    InitDelay = 2
    SipiDelay = 1
    Machines <- MCMachines
    Procs = {p1, p2}
    MaxRaise = 4
CHECK_DEADLOCK FALSE
INVARIANTS
    StackOwned
    AllStarted
    SipiDelayed
    RoutedRight
PROPERTIES
    BspProceeds
    Delivered
