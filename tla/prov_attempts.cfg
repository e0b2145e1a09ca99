CONSTANTS
    p1 = p1
    p2 = p2
    q1 = q1
    b1 = b1
    b2 = b2
    n1 = n1
    n2 = n2
    o1 = o1
    o2 = o2
    NoOne = NoOne
    Proc = {p1, p2}
    Key = {q1}
    Biz = {b1}
    Legacy = {b1}
    Name = {n1, n2}
    Owner = {o1, o2}
    Files = 2
    Modes <- BothModes
    MaxFaults = 2
SPECIFICATION FairSpec
CHECK_DEADLOCK FALSE
INVARIANT TypeOK
INVARIANT OneOfEach
INVARIANT CompletedIsWhole
INVARIANT ReadyIsUsable
PROPERTY PreparedForGood
PROPERTY EventuallyCompleted
