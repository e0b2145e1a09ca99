CONSTANTS
    d1 = d1
    d2 = d2
    Web = Web
    Device = {d1, d2}
    Late = {d2}
    Base = 2
    Sold = 1
    Deltas <- SomeDeltas
    Noted = {"op", "quiet"}
    Quantities = {1}
    Halves = {0, 1}
    Page = 2
    MaxMoves = 3
    MaxReturns = 1
    MaxLines = 1
    MaxFaults = 0
SPECIFICATION Spec
INVARIANT EventsNotSnapshots
