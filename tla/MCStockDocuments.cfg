SPECIFICATION Spec
CONSTANTS
    w1 = w1
    w2 = w2
    r1 = r1
    v1 = v1
    v2 = v2
    t1 = t1
    t2 = t2
    NoDoc = NoDoc
    NoSession = NoSession
    Items = {1, 2}
    Warehouses = {w1}
    Docs = {r1, v1, v2, t1, t2}
    Kind <- TradeKind
    ReturnOf <- TradeReturns
    Entries <- TradeEntries
    Today = 2
    Opening <- OpeningStock
    Sessions = {s1, s2}
    MaxEdits = 1
SYMMETRY StockSymmetry
INVARIANT TypeOK
INVARIANT FinalIsPosted
INVARIANT StockIsLedger
INVARIANT LedgerNeverNegative
INVARIANT ReturnsWithinSold
INVARIANT GateStillTrue
INVARIANT NoCircularWait
PROPERTY PostedOnce
CHECK_DEADLOCK FALSE
