SPECIFICATION FairSpec
CONSTANTS
    t1 = t1
    t2 = t2
    Threads <- MCThreads
    PMMAN_BITS = 4
    PMMAN_BLOCK_SIZE = 2
    AddrMod = 16
    Sizes <- MCSizes
    MaxLive = 2
CHECK_DEADLOCK FALSE
INVARIANTS
    InsideMap
    SizeCovered
    SerialAllocation
    FirstFit
PROPERTY
    CallsReturn
