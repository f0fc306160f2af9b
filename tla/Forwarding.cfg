SPECIFICATION Spec

CONSTANTS
    Files <- MCFiles
    Parts = {"", "a", "b", "x"}
    Paths <- MCPaths
    HeaderNames <- MCHeaders
    Canonical <- MCCanonical
    KeyHeader = "laile-idempotency-key"
    Blank = Blank

INVARIANTS
    TypeOK
    OptionalIsOptional
    RoutesAgree
    OwnForwarder
