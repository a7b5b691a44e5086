SPECIFICATION Spec
CONSTANTS
    PMMAN_BITS = 6
    PMMAN_BLOCK_SIZE = 4
    AddrMod = 32
    Maps <- MCMaps
    NoBase = 64
    Kernels <- MCKernels
    LowEnd = 2
    MemmapStart = 4
    EntrySize = 1
    MaxEntries = 4
CHECK_DEADLOCK FALSE
INVARIANT
    ReservedMarked
