SPECIFICATION Spec

CONSTANTS
    MaxCalls = 2
    MaxFaults = 1

INVARIANTS
    ErrorsAreReturned

CHECK_DEADLOCK FALSE
