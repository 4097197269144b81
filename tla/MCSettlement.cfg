SPECIFICATION Spec
CONSTANTS
    Banks = {1, 2}
    Docs = {1, 2}
    Rows = {1, 2, 3}
    Cheques = {1}
    Sessions = {s1, s2}
    Amount = 2
    Opening = 2
    MaxPayable = 3
    Scenes <- AllScenes
INVARIANT TypeOK
INVARIANT BooksAgree
INVARIANT SourceWithinAmount
INVARIANT NoCircularWait
PROPERTY NoOversettle
PROPERTY ActsOneAtATime
SYMMETRY SessionSymmetry
CHECK_DEADLOCK FALSE
