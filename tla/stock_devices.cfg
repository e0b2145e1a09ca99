CONSTANTS
    d1 = d1
    d2 = d2
    Web = Web
    Device = {d1, d2}
    Late = {d2}
    Base = 3
    Sold = 2
    Deltas <- SomeDeltas
    Noted = {"op", "quiet"}
    Quantities = {1}
    Halves = {1}
    Page = 2
    MaxMoves = 3
    MaxReturns = 2
    MaxLines = 2
    MaxFaults = 1
SPECIFICATION FairSpec
INVARIANT Explained
INVARIANT CountedOnce
INVARIANT SentIsHosted
INVARIANT ReturnsWithinSale
INVARIANT StampedHereIsPulled
PROPERTY EventuallySent
