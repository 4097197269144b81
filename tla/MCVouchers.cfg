SPECIFICATION Spec
CONSTANTS
    Today = 3
    Ids = {1, 2, 3, 4, 5, 6}
    Users = {u1, u2, a1}
    Admins = {a1}
    Sessions = {s1, s2}
    Scenes <- AllScenes
INVARIANT TypeOK
INVARIANT YearsMatchBooks
INVARIANT BooksHold
PROPERTY ClosedYearIsFrozen
SYMMETRY VoucherSymmetry
CHECK_DEADLOCK FALSE
