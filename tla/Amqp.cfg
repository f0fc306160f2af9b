SPECIFICATION FairSpec

CONSTANTS
    MaxCalls = 5
    MaxFaults = 3

INVARIANTS
    TypeOK
    ListenersAreOpen
    StuckAtTheThird
    WaitsInVainIfStuck

PROPERTIES
    ImplementsLife
    ReturnsUnlessStuck

CHECK_DEADLOCK FALSE
