SPECIFICATION FairSpec
CONSTANTS
    p1 = p1
    p2 = p2
    p3 = p3
    Procs <- MCTwoProcs
    BootProcs <- MCBootProcs
    Idle = Idle
    Boot = Boot
    Null = Null
    SLICE = 2
    SleepArgs <- MCSleepArgs
    TimeMod = 16
    MaxTick = 4
CHECK_DEADLOCK FALSE
PROPERTIES
    SleepersWake
    ReadyRuns
