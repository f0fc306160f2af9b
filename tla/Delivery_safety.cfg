SPECIFICATION Spec

CONSTANTS
    Webhooks = {h1}
    Forwarders = {echo, queue}
    Services <- RootServices
    Config <- RootConfig
    HashDefault = TRUE
    Workers = {w1, w2}
    Ticking = {w1, w2}
    CrashProne = {w1, w2}
    MaxFaults = 2
    NoAttempt = NoAttempt
    echo = echo
    queue = queue

SYMMETRY Interchangeable

INVARIANTS
    TypeOK
    NoPhantomSuccess
    LossWindow
    RetriesCostFaults

PROPERTIES
    SettledStaysSettled
    RoundsGetShorter
