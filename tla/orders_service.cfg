CONSTANTS
    h1 = h1
    h2 = h2
    c1 = c1
    c2 = c2
    a1 = a1
    a2 = a2
    Handler = {h1, h2}
    Client = {c1}
    Addition = {a1}
    Taps = {"preparing", "served"}
    Base = 2
    MaxStock = 3
    MaxSales = 1
    MaxSessions = 1
    MaxEntries = 2
SPECIFICATION Spec
SYMMETRY Symmetric
CHECK_DEADLOCK FALSE
INVARIANT PaidInFull
INVARIANT RequestedOnce
INVARIANT StockIsItsMovements
INVARIANT ReturnsWithinSale
INVARIANT ClosingCountsItsSales
