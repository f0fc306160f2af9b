SPECIFICATION Spec

CONSTANTS
    Targets = {t1, t2}
    Brokers = {t2}
    Timeout = 2
    CommitTime = 1
    MaxSkew = 1
    MaxAttempts = 3
    Horizon = 8
    NoTarget = NoTarget

INVARIANTS
    FollowsItsSettings

CHECK_DEADLOCK FALSE
