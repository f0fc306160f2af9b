---------------------------- MODULE MCRetryClaims ----------------------------
(* What the configuration's documentation says of retries.  A run finds a    *)
(* behaviour of RetryTiming that keeps none of it.                           *)
EXTENDS MCRetryTiming

\* The retry_count of a forwarder and the documented ticker_interval.
RetryCount == 1
TickerInterval == 5

\* config.md:43 "retry_count = 3 # Number of retry attempts (default: 3)": a target is
\* tried once and retried at most RetryCount times.
RetriesAreCounted(t) == count[t] <= 1 + RetryCount

\* config.md:117 "\"exponential\" delay increases wait time between retries", and this
\* is the default: a sequence of whole seconds that increases, whatever its base, gives
\* the second retry at least two, the third at least three.
DelaysGrow(t) == count[t] > 1 => scheduledFor[t] - failedAt[t] >= count[t] - 1

\* config.md:16 "ticker_interval = 5 # Retry interval in seconds": an attempt is made
\* when the ticker fires or a notification arrives, so that in a time with so many of
\* them, and one at its beginning, no target has more attempts, and one to come.
RetriesWaitForTheTicker(t) == count[t] <= 2 + now \div TickerInterval + Cardinality(heard)

\* Every target that is still to be delivered has followed its settings in one respect at
\* least.  Each sentence quoted promises this by itself, so that a state without it
\* refutes all three.
FollowsItsSettings ==
    \A t \in open : RetriesAreCounted(t) \/ DelaysGrow(t) \/ RetriesWaitForTheTicker(t)
=============================================================================
