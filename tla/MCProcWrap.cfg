SPECIFICATION Spec
CONSTANTS
    p1 = p1
    p2 = p2
    Procs <- MCProcs
    BootProcs <- MCProcs
    Idle = Idle
    Boot = Boot
    Null = Null
    SLICE = 2
    SleepArgs <- MCSleepArgs
    TimeMod = 8
    MaxTick = 8
CHECK_DEADLOCK FALSE
INVARIANT
    IdleOnlyWhenBlocked
