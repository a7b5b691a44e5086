SPECIFICATION Spec
CONSTANTS
    p1 = p1
    p2 = p2
    p3 = p3
    Procs <- MCProcs
    BootProcs <- MCBootProcs
    Idle = Idle
    Boot = Boot
    Null = Null
    SLICE = 2
    SleepArgs <- MCSleepArgs
    TimeMod = 16
    MaxTick = 3
SYMMETRY MCSymmetry
CHECK_DEADLOCK FALSE
INVARIANTS
    NoSelfDeadlock
    ThreadsPreemptible
    TimerAcknowledged
    OnePlace
    IdleOnlyWhenBlocked
    Timely
PROPERTY
    BootCompletes
