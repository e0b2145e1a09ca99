CONSTANTS
    d1 = d1
    d2 = d2
    b1 = b1
    b2 = b2
    NoBranch = NoBranch
    Device = {d1}
    Branch = {b1}
    UserBranches <- EveryBranch
    HostedBranches <- EveryBranch
    KnownBranches <- EveryBranch
    MaxMut = 3
    MaxHosted = 3
    MaxStrays = 1
    TxSpan = 2
    TicksPerMs = 2
    OutboxLimit = 1
    PullLimit = 1
    WebOpens = 1
    RetryCalls = TRUE
SPECIFICATION Spec
CHECK_DEADLOCK FALSE
INVARIANT VerdictIsHosted
INVARIANT CloseReachedItsSession
INVARIANT OpenedOnce
INVARIANT NothingSkipped
