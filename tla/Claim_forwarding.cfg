SPECIFICATION FairSpec

CONSTANTS
    Webhooks = {h1}
    Forwarders = {echo, queue}
    Services <- NamedServices
    Config <- NamedConfig
    HashDefault = TRUE
    Workers = {w1}
    Ticking = {w1}
    CrashProne = {}
    MaxFaults = 0
    NoAttempt = NoAttempt
    echo = echo
    queue = queue

PROPERTIES
    EveryWebhookForwarded
