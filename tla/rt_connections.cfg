CONSTANTS
    Socket = {i1, i2}
    NoSocket = NoSocket
    MaxPub = 1
    MaxDown = 1
    MaxFaults = 1
    Ticks = FALSE
SPECIFICATION Spec
SYMMETRY Symmetric
CHECK_DEADLOCK FALSE
INVARIANT NoChangeMissed
INVARIANT NothingLeftBehind
