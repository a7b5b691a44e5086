SPECIFICATION Spec
CONSTANTS
    Devices <- MCDevices
    Motions <- MCFast
    Scrolls <- MCScrolls
    MaxPackets = 2
CHECK_DEADLOCK FALSE
INVARIANT
    PositionTracks
