----------------------------- MODULE RetryTiming -----------------------------
(***************************************************************************)
(* When the attempts of a target are made.  Delivery leaves time out; here *)
(* one worker has a clock, reads it once per processEvents, delivers the   *)
(* rows of its batch one after the other, and computes when a failed one   *)
(* is due again.  A receiver that speaks HTTP has a timeout; a broker may  *)
(* take as long as it wants to confirm a message.                          *)
(*                                                                         *)
(* Time is the worker's clock in units of the backoff's second.  The       *)
(* webserver, which dates the first attempt, may have another one.  The    *)
(* settings and the distance of the clocks are chosen in the initial state *)
(* and stay.  Statements take no time next to a delivery, and a tick comes *)
(* every five nanoseconds: while something that needs no waiting is to be  *)
(* done, the clock stands still.                                           *)
(***************************************************************************)
EXTENDS Integers, FiniteSets

CONSTANTS
    Targets,      \* targets that can be routed
    Brokers,      \* those of them whose forwarder publishes to a broker
    Timeout,      \* how long the context of a delivery lasts
    CommitTime,   \* how long before its commit HandleEvent dates an attempt
    MaxSkew,      \* how far the clocks may be apart
    MaxAttempts,  \* bound on the attempts of a target
    Horizon,      \* bound on the clock
    NoTarget      \* the target of an invalid pgtype.Int8, and of an idle worker

ASSUME TargetsAssumption == IsFiniteSet(Targets) /\ NoTarget \notin Targets
ASSUME BrokersAssumption == Brokers \subseteq Targets
ASSUME TimeAssumption ==
    /\ Timeout \in Nat
    /\ CommitTime \in Nat
    /\ MaxSkew \in Nat
    /\ MaxAttempts \in Nat
    /\ Horizon \in Nat

VARIABLES
    ticking,       \* settings.ticker_enabled
    ahead,         \* how far the webserver's clock is ahead of the worker's
    now,           \* the worker's clock
    open,          \* targets whose latest attempt is scheduled
    scheduledFor,  \* when the open attempt of a target is due, 0 without one
    count,         \* the attempts of a target in the table
    unheard,       \* notifications on their way
    heard,         \* history: targets whose notification woke the worker
    pc,            \* where the worker is in ProcessEvents
    asOf,          \* now of processEvents, 0 outside
    batch,         \* rows it has not come to
    cur,           \* the target it is delivering to
    began,         \* when it started to, 0 without one
    tried,         \* history: targets that were delivered to, or tried to
    readyAt,       \* history: since when the open attempt can be made
    failedAt,      \* history: when the failure was noticed that it is the retry of
    overrun        \* history: how long it waited for brokers beyond the timeout

settings   == <<ticking, ahead>>
tableVars  == <<open, scheduledFor, count, readyAt, failedAt, overrun>>
noteVars   == <<unheard, heard>>
workerVars == <<pc, asOf, batch, cur, began, tried>>
vars == <<settings, now, tableVars, noteVars, workerVars>>

Later(x, y) == IF x < y THEN y ELSE x

-----------------------------------------------------------------------------
(* The queries *)

\* Mutant: the query does not ask for the status.
DueAtAnyStatus(time) == {t \in Targets : count[t] > 0 /\ scheduledFor[t] <= time}

\* GetDueDeliveryAttempts.
DueAt(time) == {t \in open : scheduledFor[t] <= time}

\* GetDeliveryAttemptCount: target_id = NULL is true of no row.
DeliveryAttemptCount(t) == IF t = NoTarget THEN 0 ELSE count[t]

\* getNextExponentialBackoffTime, in seconds.
NextExponentialBackoff(n) == 2 ^ n

\* rescheduleEvent counts with pgtype.Int8{Int64: event.ID}, which is not Valid.
Backoff(t) == NextExponentialBackoff(DeliveryAttemptCount(NoTarget))

-----------------------------------------------------------------------------
Init ==
    /\ ticking \in BOOLEAN
    /\ ahead \in -MaxSkew..MaxSkew
    /\ now = 0
    /\ open = {}
    /\ scheduledFor = [t \in Targets |-> 0]
    /\ count = [t \in Targets |-> 0]
    /\ unheard = {}
    /\ heard = {}
    /\ pc = "idle"
    /\ asOf = 0
    /\ batch = {}
    /\ cur = NoTarget
    /\ began = 0
    /\ tried = {}
    /\ readyAt = [t \in Targets |-> 0]
    /\ failedAt = [t \in Targets |-> 0]
    /\ overrun = [t \in Targets |-> 0]

\* Attempt number n of target t is in the table, due at the given time.
Schedule(t, n, time) ==
    /\ open' = open \cup {t}
    /\ scheduledFor' = [scheduledFor EXCEPT ![t] = time]
    /\ count' = [count EXCEPT ![t] = n]
    /\ readyAt' = [readyAt EXCEPT ![t] = Later(now, time)]
    /\ overrun' = [overrun EXCEPT ![t] = 0]

\* HandleEvent commits the first attempt of t, which it dated some time before with
\* the webserver's clock, and sends the notification.
HandleEvent(t) ==
    /\ count[t] = 0
    /\ \E d \in 0..CommitTime : Schedule(t, 1, now - d + ahead)
    /\ unheard' = unheard \cup {t}
    /\ UNCHANGED <<settings, now, heard, workerVars, failedAt>>

\* Mutant: the comparison is strict.
FetchBefore ==
    /\ pc = "idle"
    /\ pc' = "deliver"
    /\ asOf' = now
    /\ batch' = DueAt(now - 1)
    /\ UNCHANGED <<cur, began, tried>>

\* Mutant: one row per round.
FetchOne ==
    /\ pc = "idle"
    /\ pc' = "deliver"
    /\ asOf' = now
    /\ batch' \in IF DueAt(now) = {} THEN {{}} ELSE {{t} : t \in DueAt(now)}
    /\ UNCHANGED <<cur, began, tried>>

\* processEvents up to its loop.
Fetch ==
    /\ pc = "idle"
    /\ pc' = "deliver"
    /\ asOf' = now
    /\ batch' = DueAt(now)
    /\ UNCHANGED <<cur, began, tried>>

TickerFires ==
    /\ ticking
    /\ Fetch
    /\ UNCHANGED <<settings, now, tableVars, noteVars>>

NotificationArrives(t) ==
    /\ t \in unheard
    /\ unheard' = unheard \ {t}
    /\ heard' = heard \cup {t}
    /\ Fetch
    /\ UNCHANGED <<settings, now, tableVars>>

\* deliverEvent begins with the next row.
Deliver(t) ==
    /\ pc = "deliver"
    /\ cur = NoTarget
    /\ t \in batch
    /\ batch' = batch \ {t}
    /\ cur' = t
    /\ began' = now
    /\ tried' = tried \cup {t}
    /\ UNCHANGED <<settings, now, tableVars, noteVars, pc, asOf>>

\* The loop goes on.
PutDown ==
    /\ cur' = NoTarget
    /\ began' = 0
    /\ UNCHANGED <<settings, now, noteVars, pc, asOf, batch, tried>>

\* The transaction cannot be committed with a context that has ended.
Succeed ==
    /\ cur # NoTarget
    /\ now - began <= Timeout
    /\ open' = open \ {cur}
    /\ scheduledFor' = [scheduledFor EXCEPT ![cur] = 0]
    /\ readyAt' = [readyAt EXCEPT ![cur] = 0]
    /\ failedAt' = [failedAt EXCEPT ![cur] = 0]
    /\ overrun' = [overrun EXCEPT ![cur] = 0]
    /\ PutDown
    /\ UNCHANGED count

\* Mutant: the retry is dated from the time of the fetch.
RescheduleAsOf ==
    /\ cur # NoTarget
    /\ count[cur] < MaxAttempts
    /\ Schedule(cur, count[cur] + 1, asOf + Backoff(cur))
    /\ failedAt' = [failedAt EXCEPT ![cur] = now]
    /\ PutDown

\* The forwarder fails, by HTTP at the latest with its timeout, or the commit does, and
\* rescheduleEvent inserts the next attempt.
Reschedule ==
    /\ cur # NoTarget
    /\ count[cur] < MaxAttempts
    /\ Schedule(cur, count[cur] + 1, now + Backoff(cur))
    /\ failedAt' = [failedAt EXCEPT ![cur] = now]
    /\ PutDown

FinishBatch ==
    /\ pc = "deliver"
    /\ cur = NoTarget
    /\ batch = {}
    /\ pc' = "idle"
    /\ asOf' = 0
    /\ UNCHANGED <<settings, now, tableVars, noteVars, batch, cur, began, tried>>

\* The wait for a confirmation, which looks at no context, outlasts the delivery's.
Overrunning == cur \in Brokers /\ now - began >= Timeout

\* Time passes while a receiver has time to answer, a broker does not, or the worker
\* waits for a row to become due or for a notification.
Advance ==
    /\ now < Horizon
    /\ IF cur # NoTarget
         THEN now - began < Timeout \/ Overrunning
         ELSE pc = "idle" /\ (ticking => DueAt(now) = {})
    /\ now' = now + 1
    /\ overrun' = [t \in Targets |->
                     IF Overrunning /\ t \in open \ {cur} /\ readyAt[t] <= now
                       THEN overrun[t] + 1 ELSE overrun[t]]
    /\ UNCHANGED <<settings, open, scheduledFor, count, readyAt, failedAt, noteVars, workerVars>>

Next ==
    \/ \E t \in Targets : HandleEvent(t) \/ NotificationArrives(t) \/ Deliver(t)
    \/ TickerFires \/ Succeed \/ Reschedule \/ FinishBatch
    \/ Advance

Spec == Init /\ [][Next]_vars
-----------------------------------------------------------------------------
(* What can be said of the time of an attempt *)

\* Every variable keeps its type.
TypeOK ==
    /\ ticking \in BOOLEAN
    /\ ahead \in -MaxSkew..MaxSkew
    /\ now \in 0..Horizon
    /\ open \subseteq Targets
    /\ scheduledFor \in [Targets -> Int]
    /\ count \in [Targets -> Nat]
    /\ unheard \subseteq Targets
    /\ heard \subseteq Targets
    /\ pc \in {"idle", "deliver"}
    /\ asOf \in 0..Horizon
    /\ batch \subseteq open
    /\ cur \in open \cup {NoTarget}
    /\ began \in 0..Horizon
    /\ tried \subseteq Targets
    /\ readyAt \in [Targets -> Int]
    /\ failedAt \in [Targets -> Int]
    /\ overrun \in [Targets -> Nat]

\* The deliveries that can come before another: one to each other target in the round
\* that is under way when the attempt becomes due, and again in the next, except for
\* the last of that round, which is not due again so soon.
MaxLateness == LET n == Cardinality(Targets)
               IN  (IF n = 1 THEN 0 ELSE 2 * n - 3) * Timeout

\* With the ticker on an attempt is made at most MaxLateness after it is due, although
\* the receivers before it may each take the whole timeout and fail again and again: one
\* that is slow and speaks HTTP delays the others, and never starves them.  A broker
\* does, for as long as it keeps a message unconfirmed, but not for a second more.
BoundedLateness ==
    ticking => \A t \in open : cur # t => now - readyAt[t] <= MaxLateness + overrun[t]

\* A receiver that failed is left alone for a second, however late in a batch it
\* failed.
RetriesAreSpaced ==
    [][\A t \in Targets :
          count[t] > 1 /\ Deliver(t) => now >= failedAt[t] + 1]_vars

\* A notification is enough, and the ticker is not needed, for a first attempt,
\* provided that the webserver's clock is not ahead of the worker's.
HeardIsFetched ==
    ahead <= 0 => \A t \in heard : t \in batch \/ t \in tried

-----------------------------------------------------------------------------
(* A target's life *)

\* Every target is a webhook's only one.
TargetOf(t) == <<t, "forwarder">>

\* Where a target is in its life, by its rows.
LifeOf(t) == IF count[t] = 0 THEN "none" ELSE IF t \in open THEN "pending" ELSE "delivered"

Lives == [p \in Targets \X {"forwarder"} |-> LifeOf(p[1])]
Got   == {TargetOf(t) : t \in tried}

Life == INSTANCE TargetLife WITH
    Webhooks   <- Targets,
    Forwarders <- {"forwarder"},
    Services   <- {"service"},
    Config     <- [s \in {"service"} |-> {"forwarder"}],
    life       <- Lives,
    got        <- Got

\* With a clock the worker implements TargetLife as Delivery's does without one: a batch
\* that is older than its deliveries, and rows that are due again before it is done,
\* do not make it take a delivered target for one to deliver.
ImplementsLife == Life!Spec
=============================================================================
