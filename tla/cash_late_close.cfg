CONSTANTS
    d1 = d1
    d2 = d2
    b1 = b1
    b2 = b2
    NoBranch = NoBranch
    Device = {d1}
    Branch = {b1}
    UserBranches <- EveryBranch
    HostedBranches <- EveryBranch
    KnownBranches <- EveryBranch
    MaxMut = 2
    MaxHosted = 1
    MaxStrays = 0
    TxSpan = 0
    TicksPerMs = 1
    OutboxLimit = 100
    PullLimit = 500
    WebOpens = 1
    RetryCalls = FALSE
SPECIFICATION Spec
CHECK_DEADLOCK FALSE
INVARIANT QueuedCloseStands
