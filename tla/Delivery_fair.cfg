SPECIFICATION FairSpec

CONSTANTS
    Webhooks = {h1}
    Forwarders = {echo, queue}
    Services <- RootServices
    Config <- EchoConfig
    HashDefault = TRUE
    Workers = {w1, w2}
    Ticking = {w1}
    CrashProne = {w1}
    MaxFaults = 2
    NoAttempt = NoAttempt
    echo = echo
    queue = queue

PROPERTIES
    EventuallySettled
    Quiesces
    HeardIsDelivered
