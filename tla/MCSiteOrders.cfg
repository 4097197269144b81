SPECIFICATION Spec
CONSTANTS
    k1 = k1
    k2 = k2
    p1 = p1
    p2 = p2
    i1 = i1
    i2 = i2
    Orders = {k1, k2}
    Phones = {p1, p2}
    Items = {i1, i2}
    Requests <- AllRequests
    Sessions = {s1, s2}
    Sweepers = {w1}
    OpenLimit = 1
    UsageLimit = 1
    MaxReceipts = 2
    Window = 1
    Batch = 2
    MaxStock = 2
INVARIANT TypeOK
INVARIANT MoneyMeansInvoice
INVARIANT PromisesKept
PROPERTY StaffActsOnWhatItSaw
PROPERTY ExpiresOnlyDue
SYMMETRY SessionSymmetry
CHECK_DEADLOCK FALSE
