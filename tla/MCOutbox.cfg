SPECIFICATION Spec
CONSTANTS
    Workers = {w1, w2}
    Recoverers = {c1}
    Operators = {o1}
    Handlers = {h1, h2}
    MaxAttempts = 1
    Backoff = 1
    StuckAfter = 1
    MaxBatchAge = 1
    MaxCrashes = 1
SYMMETRY OutboxSymmetry
INVARIANT TypeOK
INVARIANT CompletedMeansAllRan
INVARIANT FailureHasLetter
