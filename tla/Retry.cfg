SPECIFICATION Spec

CONSTANTS
    Targets = {t1, t2, t3}
    Brokers = {t3}
    Timeout = 2
    CommitTime = 1
    MaxSkew = 1
    MaxAttempts = 3
    Horizon = 8
    NoTarget = NoTarget

SYMMETRY Alike

INVARIANTS
    TypeOK
    BoundedLateness
    HeardIsFetched

PROPERTIES
    RetriesAreSpaced
    ImplementsLife

CHECK_DEADLOCK FALSE
