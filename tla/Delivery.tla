------------------------------ MODULE Delivery ------------------------------
(***************************************************************************)
(* How an accepted webhook travels from the listener to its forwarders.    *)
(*                                                                         *)
(* The actors are the webservers, which store a webhook and its delivery   *)
(* attempts in one transaction and then send a Postgres notification, and  *)
(* the workers, which fetch the due attempts on a tick or a notification,  *)
(* forward them one at a time and record the outcome.  They share nothing  *)
(* but the database and the notification channel.                          *)
(*                                                                         *)
(* Time is abstracted: scheduled_for is a moment that eventually passes    *)
(* (BecomeDue).  A fault is anything the environment does to the program:  *)
(* a forwarder that fails, a database error, a lost connection, a crash.   *)
(* MaxFaults bounds them; nothing else is bounded, since each further      *)
(* attempt of a target costs at least one fault.                           *)
(***************************************************************************)
EXTENDS Naturals, FiniteSets

CONSTANTS
    Webhooks,       \* the requests that may arrive on /listener/
    Forwarders,     \* forwarder names, the keys of a service's forwarders
    Services,       \* service names, the keys of webhook_services: strings
    Config,         \* the forwarders of every service
    HashDefault,    \* the schema has a default for delivery_attempts.hash_value
    Workers,        \* worker processes that read the same database
    Ticking,        \* the workers whose settings have ticker_enabled
    CrashProne,     \* the workers that may crash
    MaxFaults,      \* bound on the number of faults in a behaviour
    NoAttempt       \* what a worker delivers when it delivers nothing

MaxAttempts == MaxFaults + 1

Target    == Webhooks \X Forwarders
AttemptId == Webhooks \X Forwarders \X (1..MaxAttempts)

ASSUME ConfigAssumption == Config \in [Services -> SUBSET Forwarders]
ASSUME FlagAssumption   == HashDefault \in BOOLEAN
ASSUME WorkerAssumption == Ticking \subseteq Workers /\ CrashProne \subseteq Workers
ASSUME BoundAssumption  == MaxFaults \in Nat
ASSUME NoAttemptAssumption == NoAttempt \notin AttemptId

VARIABLES
    webhook,        \* the webhooks table: delivery_status of a row
    attempts,       \* the delivery_attempts table: status of a row
    due,            \* attempts whose scheduled_for has passed
    unnotified,     \* committed webhooks whose pg_notify is still to be sent
    listeners,      \* workers whose connection has run LISTEN
    notifications,  \* notifications a worker has not taken from eventChan
    pc,             \* where a worker is in ProcessEvents
    batch,          \* rows a worker fetched and has not yet looked at
    cur,            \* the row a worker is delivering or rescheduling
    received,       \* history: the service on which a webhook was accepted
    reached,        \* history: attempts that got to the receiver
    abandoned,      \* history: targets that lost their retry
    faults          \* number of faults so far

dbVars      == <<webhook, attempts, due>>
channelVars == <<unnotified, listeners, notifications>>
workerVars  == <<pc, batch, cur>>
historyVars == <<received, reached, abandoned>>
vars == <<dbVars, channelVars, workerVars, historyVars, faults>>

WebhookOf(a)   == a[1]
ForwarderOf(a) == a[2]
TargetOf(a)    == <<a[1], a[2]>>

\* The first attempts of a webhook accepted by service s, one per forwarder.
FirstAttempts(h, s) == {h} \X Config[s] \X {1}

\* HandleEvent stores every webhook without a WebhookServiceID.
StoredServiceID == ""

\* processEvents finds the service and the forwarder of a row in the config.
Routable(a) ==
    /\ StoredServiceID \in Services
    /\ ForwarderOf(a) \in Config[StoredServiceID]

\* Mutant: the query without its condition on the status.
DueAttemptsAnyStatus == due

\* Mutant: the query leaves out what succeeded, instead of picking what is scheduled.
DueAttemptsUnlessSuccess == {a \in due : attempts[a] # "success"}

\* The rows of GetDueDeliveryAttempts.
DueAttempts == {a \in due : attempts[a] = "scheduled"}

\* One more fault, if the budget allows it.
Fault == faults < MaxFaults /\ faults' = faults + 1

-----------------------------------------------------------------------------
(* The webservers *)

\* HandleEvent up to the commit: the webhook and an attempt per forwarder, all
\* or nothing.  Without a default for hash_value the insert of an attempt fails
\* and the transaction is rolled back.
HandleEvent(h, s) ==
    /\ webhook[h] = "absent"
    /\ Config[s] = {} \/ HashDefault
    /\ webhook' = [webhook EXCEPT ![h] = "scheduled"]
    /\ attempts' = [a \in AttemptId |->
                        IF a \in FirstAttempts(h, s) THEN "scheduled" ELSE attempts[a]]
    /\ unnotified' = unnotified \cup {h}
    /\ received' = received \cup {<<h, s>>}
    /\ UNCHANGED <<due, listeners, notifications, workerVars, reached, abandoned, faults>>

\* HandleEvent after the commit: every connection that listens gets a copy.
Notify(h) ==
    /\ h \in unnotified
    /\ unnotified' = unnotified \ {h}
    /\ notifications' = [w \in Workers |-> IF w \in listeners
                                             THEN notifications[w] + 1
                                             ELSE notifications[w]]
    /\ UNCHANGED <<dbVars, listeners, workerVars, historyVars, faults>>

\* No connection, a failed Exec or a crash of the webserver: nobody hears of it
\* and the request is answered all the same.
NotifyLost(h) ==
    /\ h \in unnotified
    /\ Fault
    /\ unnotified' = unnotified \ {h}
    /\ UNCHANGED <<dbVars, listeners, notifications, workerVars, historyVars>>

\* The clock passes scheduled_for.
BecomeDue(a) ==
    /\ attempts[a] = "scheduled"
    /\ a \notin due
    /\ due' = due \cup {a}
    /\ UNCHANGED <<webhook, attempts, channelVars, workerVars, historyVars, faults>>
-----------------------------------------------------------------------------
(* The workers *)

\* Worker w goes to step p with row a in hand.
GoTo(w, p, a) ==
    /\ pc' = [pc EXCEPT ![w] = p]
    /\ cur' = [cur EXCEPT ![w] = a]

\* The goroutine of ListenForEvents (re)connects and runs LISTEN, whatever the
\* worker is doing.  It has no backlog handler: what happened before is not heard.
Listen(w) ==
    /\ pc[w] # "down"
    /\ w \notin listeners
    /\ notifications[w] = 0
    /\ listeners' = listeners \cup {w}
    /\ UNCHANGED <<dbVars, unnotified, notifications, workerVars, historyVars, faults>>

\* The listening connection breaks.  What was on it is gone, except for the one
\* notification the handler may be holding for the unbuffered eventChan.
ListenerLost(w) ==
    /\ w \in listeners
    /\ Fault
    /\ listeners' = listeners \ {w}
    /\ \E kept \in 0..1 :
          /\ kept <= notifications[w]
          /\ notifications' = [notifications EXCEPT ![w] = kept]
    /\ UNCHANGED <<dbVars, unnotified, workerVars, historyVars>>

\* processEvents up to its loop: the rows that are due now.
Fetch(w) ==
    /\ pc[w] = "idle"
    /\ batch' = [batch EXCEPT ![w] = DueAttempts]
    /\ GoTo(w, "deliver", NoAttempt)

TickerFires(w) ==
    /\ w \in Ticking
    /\ Fetch(w)
    /\ UNCHANGED <<dbVars, channelVars, historyVars, faults>>

\* Mutant: ticker_enabled switches off the notifications too.
NotificationArrivesTickerOnly(w) ==
    /\ notifications[w] > 0
    /\ notifications' = [notifications EXCEPT ![w] = @ - 1]
    /\ IF w \in Ticking THEN Fetch(w) ELSE UNCHANGED workerVars
    /\ UNCHANGED <<dbVars, unnotified, listeners, historyVars, faults>>

NotificationArrives(w) ==
    /\ notifications[w] > 0
    /\ notifications' = [notifications EXCEPT ![w] = @ - 1]
    /\ Fetch(w)
    /\ UNCHANGED <<dbVars, unnotified, listeners, historyVars, faults>>

\* A query of processEvents fails: the notification that woke it is used up.
FetchFails(w) ==
    /\ pc[w] = "idle"
    /\ notifications[w] > 0
    /\ Fault
    /\ notifications' = [notifications EXCEPT ![w] = @ - 1]
    /\ UNCHANGED <<dbVars, unnotified, listeners, workerVars, historyVars>>

\* The loop of processEvents takes the next row of its batch; the query gives
\* the rows no order.
Take(w, a) ==
    /\ pc[w] = "deliver"
    /\ a \in batch[w]
    /\ batch' = [batch EXCEPT ![w] = @ \ {a}]

\* No such service or forwarder in the configuration: logged and left as it is.
Skip(w) ==
    /\ \E a \in batch[w] : Take(w, a) /\ ~Routable(a)
    /\ UNCHANGED <<dbVars, channelVars, pc, cur, historyVars, faults>>

\* Forward returns: any answer of the receiver is a delivery, whatever its status.
Forward(w) ==
    /\ \E a \in batch[w] :
          /\ Take(w, a)
          /\ Routable(a)
          /\ reached' = reached \cup {a}
          /\ GoTo(w, "commit", a)
    /\ UNCHANGED <<dbVars, channelVars, received, abandoned, faults>>

\* Mutant: the error of Forward is dropped and the attempt recorded as a success.
ForwardErrorDropped(w) ==
    /\ Fault
    /\ \E a \in batch[w] :
          /\ Take(w, a)
          /\ Routable(a)
          /\ reached' \in {reached, reached \cup {a}}
          /\ GoTo(w, "commit", a)
    /\ UNCHANGED <<dbVars, channelVars, received, abandoned>>

\* No transaction, no connection, no answer within 30 seconds or an answer cut
\* short: the receiver may have had the webhook or not.
ForwardFails(w) ==
    /\ Fault
    /\ \E a \in batch[w] :
          /\ Take(w, a)
          /\ Routable(a)
          /\ reached' \in {reached, reached \cup {a}}
          /\ GoTo(w, "reschedule", a)
    /\ UNCHANGED <<dbVars, channelVars, received, abandoned>>

\* Mutant: the attempt is not marked.
RecordWebhookOnly(a) ==
    /\ webhook' = [webhook EXCEPT ![WebhookOf(a)] = "success"]
    /\ UNCHANGED attempts

\* What the transaction of deliverEvent writes.  Neither update looks at the
\* status it overwrites, and one target's success is the whole webhook's.
RecordSuccess(a) ==
    /\ attempts' = [attempts EXCEPT ![a] = "success"]
    /\ webhook' = [webhook EXCEPT ![WebhookOf(a)] = "success"]

CommitDelivery(w) ==
    /\ pc[w] = "commit"
    /\ RecordSuccess(cur[w])
    /\ GoTo(w, "deliver", NoAttempt)
    /\ UNCHANGED <<due, channelVars, batch, historyVars, faults>>

\* An update or the commit returns an error.  An error of the commit leaves open
\* whether the transaction was applied; deliverEvent takes it as a failure.
CommitFails(w) ==
    /\ pc[w] = "commit"
    /\ Fault
    /\ \/ RecordSuccess(cur[w])
       \/ UNCHANGED <<attempts, webhook>>
    /\ GoTo(w, "reschedule", cur[w])
    /\ UNCHANGED <<due, channelVars, batch, historyVars>>

\* Mutant: rescheduleEvent returns after its first statement.
MarkFailedReturns(w) ==
    /\ pc[w] = "reschedule"
    /\ attempts' = [attempts EXCEPT ![cur[w]] = "failed"]
    /\ GoTo(w, "deliver", NoAttempt)
    /\ UNCHANGED <<webhook, due, channelVars, batch, historyVars, faults>>

\* Mutant: the failed attempt is left as it is.
MarkFailedForgotten(w) ==
    /\ pc[w] = "reschedule"
    /\ GoTo(w, "schedule", cur[w])
    /\ UNCHANGED <<dbVars, channelVars, batch, historyVars, faults>>

\* rescheduleEvent, first statement.
MarkFailed(w) ==
    /\ pc[w] = "reschedule"
    /\ attempts' = [attempts EXCEPT ![cur[w]] = "failed"]
    /\ GoTo(w, "schedule", cur[w])
    /\ UNCHANGED <<webhook, due, channelVars, batch, historyVars, faults>>

\* The count or the update fails and rescheduleEvent returns.  If the update was
\* applied all the same, the target has lost its retry.
MarkFailedFails(w) ==
    /\ pc[w] = "reschedule"
    /\ Fault
    /\ \/ UNCHANGED <<attempts, abandoned>>
       \/ /\ attempts' = [attempts EXCEPT ![cur[w]] = "failed"]
          /\ abandoned' = abandoned \cup {TargetOf(cur[w])}
    /\ GoTo(w, "deliver", NoAttempt)
    /\ UNCHANGED <<webhook, due, channelVars, batch, received, reached>>

\* The row that the next insert for a's target makes: ids are handed out in order.
IsNextAttempt(b, a) ==
    /\ TargetOf(b) = TargetOf(a)
    /\ attempts[b] = "absent"
    /\ \A c \in AttemptId : TargetOf(c) = TargetOf(a) /\ c[3] < b[3] => attempts[c] # "absent"

\* Mutant: the row of the failed attempt is used again.
ScheduleSameRow(w) ==
    /\ pc[w] = "schedule"
    /\ HashDefault
    /\ attempts' = [attempts EXCEPT ![cur[w]] = "scheduled"]
    /\ GoTo(w, "deliver", NoAttempt)
    /\ UNCHANGED <<webhook, due, channelVars, batch, historyVars, faults>>

\* Mutant: the worker keeps the row in hand.
ScheduleKeepsRow(w) ==
    /\ pc[w] = "schedule"
    /\ HashDefault
    /\ \E b \in AttemptId :
          /\ IsNextAttempt(b, cur[w])
          /\ attempts' = [attempts EXCEPT ![b] = "scheduled"]
    /\ GoTo(w, "deliver", cur[w])
    /\ UNCHANGED <<webhook, due, channelVars, batch, historyVars, faults>>

\* Mutant: the insert is made again after it was applied.
ScheduleAgain(w) ==
    /\ pc[w] = "schedule"
    /\ HashDefault
    /\ \E b \in AttemptId :
          /\ IsNextAttempt(b, cur[w])
          /\ attempts' = [attempts EXCEPT ![b] = "scheduled"]
    /\ UNCHANGED <<webhook, due, channelVars, workerVars, historyVars, faults>>

\* Mutant: the retry joins the batch.
ScheduleIntoBatch(w) ==
    /\ pc[w] = "schedule"
    /\ HashDefault
    /\ \E b \in AttemptId :
          /\ IsNextAttempt(b, cur[w])
          /\ attempts' = [attempts EXCEPT ![b] = "scheduled"]
          /\ batch' = [batch EXCEPT ![w] = @ \cup {b}]
    /\ GoTo(w, "deliver", NoAttempt)
    /\ UNCHANGED <<webhook, due, channelVars, historyVars, faults>>

\* rescheduleEvent, second statement, in a transaction of its own.
Schedule(w) ==
    /\ pc[w] = "schedule"
    /\ HashDefault
    /\ \E b \in AttemptId :
          /\ IsNextAttempt(b, cur[w])
          /\ attempts' = [attempts EXCEPT ![b] = "scheduled"]
    /\ GoTo(w, "deliver", NoAttempt)
    /\ UNCHANGED <<webhook, due, channelVars, batch, historyVars, faults>>

\* The insert fails: logged, and nothing ever looks at the target again.
ScheduleFails(w) ==
    /\ pc[w] = "schedule"
    /\ Fault
    /\ abandoned' = abandoned \cup {TargetOf(cur[w])}
    /\ GoTo(w, "deliver", NoAttempt)
    /\ UNCHANGED <<dbVars, channelVars, batch, received, reached>>

\* The loop of processEvents ends.
FinishBatch(w) ==
    /\ pc[w] = "deliver"
    /\ batch[w] = {}
    /\ GoTo(w, "idle", NoAttempt)
    /\ UNCHANGED <<dbVars, channelVars, batch, historyVars, faults>>

\* The process dies: its batch, its connections and the open transaction go.
Crash(w) ==
    /\ w \in CrashProne
    /\ pc[w] # "down"
    /\ Fault
    /\ GoTo(w, "down", NoAttempt)
    /\ batch' = [batch EXCEPT ![w] = {}]
    /\ listeners' = listeners \ {w}
    /\ notifications' = [notifications EXCEPT ![w] = 0]
    /\ abandoned' = IF pc[w] = "schedule" THEN abandoned \cup {TargetOf(cur[w])} ELSE abandoned
    /\ UNCHANGED <<dbVars, unnotified, received, reached>>

\* The worker starts again with nothing but the database.
Restart(w) ==
    /\ pc[w] = "down"
    /\ GoTo(w, "idle", NoAttempt)
    /\ UNCHANGED <<dbVars, channelVars, batch, historyVars, faults>>

-----------------------------------------------------------------------------
(* The system *)

Init ==
    /\ webhook = [h \in Webhooks |-> "absent"]
    /\ attempts = [a \in AttemptId |-> "absent"]
    /\ due = {}
    /\ unnotified = {}
    /\ listeners = {}
    /\ notifications = [w \in Workers |-> 0]
    /\ pc = [w \in Workers |-> "idle"]
    /\ batch = [w \in Workers |-> {}]
    /\ cur = [w \in Workers |-> NoAttempt]
    /\ received = {}
    /\ reached = {}
    /\ abandoned = {}
    /\ faults = 0

\* The steps of ProcessEvents that need nothing to go wrong.
Progress(w) ==
    \/ TickerFires(w) \/ NotificationArrives(w)
    \/ Skip(w) \/ Forward(w) \/ CommitDelivery(w)
    \/ MarkFailed(w) \/ Schedule(w) \/ FinishBatch(w)

Failure(w) ==
    \/ ListenerLost(w) \/ FetchFails(w) \/ ForwardFails(w) \/ CommitFails(w)
    \/ MarkFailedFails(w) \/ ScheduleFails(w) \/ Crash(w)

Next ==
    \/ \E h \in Webhooks :
          \/ \E s \in Services : HandleEvent(h, s)
          \/ Notify(h) \/ NotifyLost(h)
    \/ \E a \in AttemptId : BecomeDue(a)
    \/ \E w \in Workers : Progress(w) \/ Failure(w) \/ Listen(w) \/ Restart(w)

Spec == Init /\ [][Next]_vars

\* A goroutine that can run does, a clock advances and a webserver sends the
\* notification it has committed to.  Nobody has to send a webhook, and nothing
\* in the repository restarts a worker that died.
Fairness ==
    /\ \A w \in Workers : WF_vars(Progress(w)) /\ WF_vars(Listen(w))
    /\ \A a \in AttemptId : WF_vars(BecomeDue(a))
    /\ \A h \in Webhooks : WF_vars(Notify(h))

FairSpec == Spec /\ Fairness
-----------------------------------------------------------------------------
(* What the delivery promises *)

\* Every variable keeps its type; a worker has a row in hand exactly while it
\* delivers or reschedules one.
TypeOK ==
    /\ webhook \in [Webhooks -> {"absent", "scheduled", "success"}]
    /\ attempts \in [AttemptId -> {"absent", "scheduled", "success", "failed"}]
    /\ due \subseteq AttemptId
    /\ unnotified \subseteq Webhooks
    /\ listeners \subseteq Workers
    /\ notifications \in [Workers -> Nat]
    /\ pc \in [Workers -> {"idle", "deliver", "commit", "reschedule", "schedule", "down"}]
    /\ batch \in [Workers -> SUBSET AttemptId]
    /\ cur \in [Workers -> AttemptId \cup {NoAttempt}]
    /\ \A w \in Workers : pc[w] \in {"commit", "reschedule", "schedule"} <=> cur[w] # NoAttempt
    /\ received \subseteq Webhooks \X Services
    /\ reached \subseteq AttemptId
    /\ abandoned \subseteq Target
    /\ faults \in 0..MaxFaults

\* A success in either table is backed by a webhook that got to a receiver: no
\* interleaving of workers, failed commits and crashes makes one up.  (An attempt
\* may be reported failed although it got there, and a webhook is a success as
\* soon as one of its targets is.)
NoPhantomSuccess ==
    /\ \A a \in AttemptId : attempts[a] = "success" =>
            a \in reached /\ webhook[WebhookOf(a)] = "success"
    /\ \A h \in Webhooks : webhook[h] = "success" => \E a \in reached : WebhookOf(a) = h

\* A target has been created, and with it its first attempt.
Created(t) == attempts[<<t[1], t[2], 1>>] # "absent"

\* A target that was created is delivered, or will be looked at again, or a worker
\* is just between marking its attempt failed and inserting the next; the two
\* statements of rescheduleEvent are separate transactions, so a crash or an
\* error between them is the one way to lose a target.
LossWindow ==
    \A t \in Target : Created(t) =>
        \/ \E a \in AttemptId : TargetOf(a) = t /\ attempts[a] \in {"scheduled", "success"}
        \/ \E w \in Workers : pc[w] = "schedule" /\ TargetOf(cur[w]) = t
        \/ t \in abandoned

\* An attempt that was executed is never scheduled again, a success of a webhook
\* is never taken back and no row disappears: a retry is always a new row, also
\* when two workers settle the same row in turn.
NothingIsReopened ==
    /\ \A a \in AttemptId :
          /\ attempts[a] \in {"success", "failed"} => attempts'[a] \in {"success", "failed"}
          /\ attempts[a] = "scheduled" => attempts'[a] # "absent"
    /\ \A h \in Webhooks : webhook[h] = "success" => webhook'[h] = "success"

\* It holds of every step.
SettledStaysSettled == [][NothingIsReopened]_vars

\* The attempts that rescheduleEvent has inserted, and the workers that are in it.
Retries      == {a \in AttemptId : a[3] > 1 /\ attempts[a] # "absent"}
Rescheduling == {w \in Workers : pc[w] \in {"reschedule", "schedule"}}

\* Every retry answers a failure of its own.  Workers that share rows may settle one
\* row several times and insert a retry each, but never more of them than deliveries
\* failed or commits were in doubt: retries do not breed retries.
RetriesCostFaults == Cardinality(Retries) + Cardinality(Rescheduling) <= faults

\* A worker that has marked an attempt failed can insert the next: the schema that let
\* the first attempt in lets it in, and the model has a row for it.
RetriesHaveRoom ==
    \A w \in Workers : pc[w] = "schedule" =>
        HashDefault /\ \E b \in AttemptId : IsNextAttempt(b, cur[w])

\* From a fetch to the end of the loop over its rows.
InRound(w) == pc[w] \notin {"idle", "down"}

\* The steps a round takes at most from here: four to take, record, mark and reschedule
\* each row the worker has not come to, what is left of these for the row in hand, and
\* the end of the loop.
StepsInHand(p) == CASE p = "commit" -> 3 [] p = "reschedule" -> 2 [] p = "schedule" -> 1
                    [] OTHER -> 0

StepsLeft(w) == IF InRound(w) THEN 1 + 4 * Cardinality(batch[w]) + StepsInHand(pc[w]) ELSE 0

\* A worker in a round stays where it is or comes nearer to the end of the round.
EndComesNearer ==
    \A w \in Workers : InRound(w) =>
        \/ UNCHANGED <<pc[w], batch[w], cur[w]>>
        \/ StepsLeft(w)' < StepsLeft(w)

\* It does in every step, however its deliveries fail and whatever the other workers do
\* to its rows: what becomes due meanwhile, its own retries included, is left to the
\* next round.
RoundsGetShorter == [][EndComesNearer]_vars

-----------------------------------------------------------------------------
(* What it promises when there is one worker *)

SingleWorker == \A u, v \in Workers : u = v

\* A target never has two attempts open: without a second worker, retries do not
\* multiply, whatever fails and wherever the worker crashes.
OneOpenAttempt ==
    SingleWorker =>
        \A a, b \in AttemptId :
            /\ attempts[a] = "scheduled"
            /\ attempts[b] = "scheduled"
            /\ TargetOf(a) = TargetOf(b)
            => a = b

\* What a worker fetched stays true until it gets to it, and it never delivers
\* what is already settled, although it neither locks nor claims the rows.
FreshWork ==
    SingleWorker =>
        \A w \in Workers :
            /\ \A a \in batch[w] : attempts[a] = "scheduled"
            /\ pc[w] = "commit" => attempts[cur[w]] = "scheduled"

\* As long as nothing fails, one worker forwards a target once.
ExactlyOnceWithoutFaults ==
    SingleWorker /\ faults = 0 =>
        \A w \in Workers : \A a \in batch[w], b \in reached : TargetOf(a) # TargetOf(b)

\* A worker takes an applied commit for a failed one, and is about to say so.
Retracted(a) == \E w \in Workers : pc[w] = "reschedule" /\ cur[w] = a

Delivered(t) ==
    \E a \in AttemptId : TargetOf(a) = t /\ attempts[a] = "success" /\ ~Retracted(a)

\* What the tables, and the steps of rescheduleEvent, mean for a target.
LifeOf(t) == IF t \in abandoned THEN "lost"
             ELSE IF Delivered(t) THEN "delivered"
             ELSE IF Created(t) THEN "pending" ELSE "none"

Lives == [t \in Target |-> LifeOf(t)]

\* The targets whose receiver has had the webhook.
Got == {TargetOf(a) : a \in reached}

Life == INSTANCE TargetLife WITH
    life <- Lives,
    got  <- Got

\* One worker implements TargetLife: whatever fails and wherever it crashes, a target
\* ends once, delivered or lost, and is not sent again after that, although an
\* attempt may have been recorded a success and then marked failed.  (The workers
\* of a larger number take targets out of either end.)
ImplementsLife == Life!Spec

-----------------------------------------------------------------------------
(* What it promises in the long run *)

Settled(t) ==
    \/ \E a \in AttemptId : TargetOf(a) = t /\ attempts[a] = "success"
    \/ t \in abandoned

\* A worker that ticks stays up from some moment on.
SomeoneTicks == <>[](\E w \in Ticking : pc[w] # "down")

\* With a worker that ticks and stays up, a target with a forwarder is delivered,
\* or falls into the window of LossWindow.
EventuallySettled ==
    SomeoneTicks =>
        \A a \in AttemptId :
            a[3] = 1 /\ Routable(a) /\ attempts[a] = "scheduled" ~> Settled(TargetOf(a))

\* When webhooks and faults cease, the workers run out of work: no retry goes on
\* for ever.
Quiesces ==
    SomeoneTicks =>
        <>[](\A a \in AttemptId : Routable(a) => attempts[a] # "scheduled")

\* Without any ticker, a notification that is waiting for a worker gets every
\* attempt executed that is due by then, unless one more fault comes in between.
HeardIsDelivered ==
    \A w \in Workers, a \in AttemptId, n \in 0..MaxFaults :
        /\ notifications[w] > 0
        /\ a \in due
        /\ attempts[a] = "scheduled"
        /\ Routable(a)
        /\ faults = n
        ~> attempts[a] \in {"success", "failed"} \/ faults > n
=============================================================================
