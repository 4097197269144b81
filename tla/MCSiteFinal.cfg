SPECIFICATION Spec
CONSTANTS
    k1 = k1
    k2 = k2
    p1 = p1
    p2 = p2
    i1 = i1
    i2 = i2
    Orders = {k1, k2}
    Phones = {p1, p2}
    Items = {i1, i2}
    Requests <- OneRequest
    Sessions = {s1}
    Sweepers = {w1}
    OpenLimit = 1
    UsageLimit = 1
    MaxReceipts = 2
    Window = 1
    Batch = 2
    MaxStock = 2
PROPERTY FinalInvoiceSurvives
CHECK_DEADLOCK FALSE
