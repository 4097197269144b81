SPECIFICATION Spec
CONSTANTS
    w1 = w1
    w2 = w2
    r1 = r1
    v1 = v1
    v2 = v2
    t1 = t1
    t2 = t2
    NoDoc = NoDoc
    NoSession = NoSession
    Items = {1}
    Warehouses = {w1, w2}
    Docs = {v1, v2}
    Kind <- SplitKind
    ReturnOf <- SplitReturns
    Entries <- SplitEntries
    Today = 1
    Opening <- OpeningStock
    Sessions = {s1, s2}
    MaxEdits = 0
SYMMETRY StockSymmetry
INVARIANT OutflowLeavesReserved
CHECK_DEADLOCK FALSE
