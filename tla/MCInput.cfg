SPECIFICATION InputSpec
CONSTANTS
    Mice = {"none", "generic", "zaxis", "5btn"}
    MaxLate = 6
    Devices <- MCDevices
    Motions <- MCSlow
    Scrolls <- MCScrolls
    MaxPackets = 2
    MaxEvents = 4
    MaxLost = 2
CHECK_DEADLOCK FALSE
INVARIANTS
    HandshakeAgrees
    FoundIsThere
    MouseTracked
    KeysDecoded
