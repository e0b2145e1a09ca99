CONSTANTS
    d1 = d1
    c = c
    p = p
    Web = Web
    None = None
    Device = {d1}
    Row = {c, p}
    Category <- Categories
    Original = {c}
    PageSize = 1
    MaxEdits = 5
    MaxFaults = 1
SPECIFICATION FairSpec
INVARIANT InStep
INVARIANT SyncedEditsArrived
INVARIANT NoUnseenOverwritten
INVARIANT DeletedForGood
PROPERTY EventuallySettled
