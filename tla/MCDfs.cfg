SPECIFICATION FairSpec
CONSTANTS
    a = a
    b = b
    c = c
    ArgLists <- MCArgLists
    Option = Option
    Names <- MCNames
    Paths <- MCPaths
    NoName = NoName
    NoCall = NoCall
    SECTOR = 2
    PADDING = 1
    Junk <- MCJunk
CHECK_DEADLOCK FALSE
INVARIANT
    ReadsWhole
PROPERTIES
    ImplementsStore
    FreadReturns
