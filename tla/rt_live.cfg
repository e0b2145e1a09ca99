CONSTANTS
    Socket = {i1}
    NoSocket = NoSocket
    MaxPub = 1
    MaxDown = 1
    MaxFaults = 1
    Ticks = TRUE
SPECIFICATION LiveSpec
CHECK_DEADLOCK FALSE
PROPERTY EventuallyConnected
PROPERTY EventuallyPulled
