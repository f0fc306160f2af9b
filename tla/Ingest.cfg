SPECIFICATION FairSpec

CONSTANTS
    Requests = {r1, r2, r3, r4}
    Services <- TwoServices
    Config <- TwoConfig
    Path <- TwoPaths
    RequestPath <- TwoRequestPaths
    MaxConns = 2
    HashDefault = TRUE
    MaxFaults = 2
    NoService = NoService
    r1 = r1
    r2 = r2
    r3 = r3
    r4 = r4

INVARIANTS
    TypeOK
    UniqueIds
    ConnsBalanced

PROPERTIES
    ImplementsLog
    ImplementsWebservers
    EveryRequestAnswered

CHECK_DEADLOCK FALSE
