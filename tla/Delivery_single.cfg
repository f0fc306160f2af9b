SPECIFICATION Spec

CONSTANTS
    Webhooks = {h1, h2}
    Forwarders = {echo, queue}
    Services <- MixedServices
    Config <- MixedConfig
    HashDefault = TRUE
    Workers = {w1}
    Ticking = {w1}
    CrashProne = {w1}
    MaxFaults = 2
    NoAttempt = NoAttempt
    echo = echo
    queue = queue

INVARIANTS
    OneOpenAttempt
    ExactlyOnceWithoutFaults
    FreshWork

PROPERTIES
    ImplementsLife
