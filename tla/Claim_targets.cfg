SPECIFICATION FairSpec

CONSTANTS
    Requests = {r1}
    Services <- TwoServices
    Config <- TwoConfig
    Path <- TwoPaths
    RequestPath <- TwoRequestPaths
    MaxConns = 2
    HashDefault = FALSE
    MaxFaults = 0
    NoService = NoService
    r1 = r1
    r2 = r2
    r3 = r3
    r4 = r4

PROPERTIES
    TargetsAreCreated

CHECK_DEADLOCK FALSE
