SPECIFICATION FairSpec
CONSTANTS
    Runners = {r1, r2}
    Operators = {o1}
    MaxAttempts = 2
    MaxStalls = 1
    MaxCrashes = 1
INVARIANT TypeOK
INVARIANT DuplicatesHaveCauses
INVARIANT FailureHasLetter
PROPERTY DeliverySettles
CHECK_DEADLOCK FALSE
