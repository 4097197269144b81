SPECIFICATION FairSpec
CONSTANTS
    Runs = {r1, r2}
    Nobody = Nobody
    Bodies = {b1, b2}
    LockTimeout = 1
    Ttl = 2
    MaxTime = 4
CHECK_DEADLOCK FALSE
INVARIANTS
    AtMostOneWrite
PROPERTIES
    ImplementsWriteOnce
    EveryRequestEnds
