SPECIFICATION FairSpec
CONSTANTS
    Workers = {w1, w2}
    Recoverers = {c1}
    Operators = {}
    Handlers = {h1, h2}
    MaxAttempts = 2
    Backoff = 1
    StuckAfter = 1
    MaxBatchAge = 2
    MaxCrashes = 1
INVARIANT HandlerRunsOnce
PROPERTY EventSettles
