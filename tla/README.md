# Verification of laile

laile receives webhooks over HTTP, stores each with one *target* per configured
forwarder in Postgres, and has workers deliver every target by HTTP or AMQP,
retrying what fails. This directory holds TLA+ models of that path, the TLC runs
that check them, and proofs for the TLA+ proof system. Paths below are those of the
repository's `src/`; `PROJECT.json` names, for every definition, the lines it models.

## 1. The system

| component | state it keeps | operations |
|---|---|---|
| webhook listener: `HandleEvent` (`internal/event/handler.go`), `WebhookListenerHandler` (`internal/server/routes.go`) | a transaction and a pool connection per request | store webhook, key, targets and attempts in one transaction; after the commit send `pg_notify` on another connection |
| delivery worker: `ProcessEvents`, `processEvents`, `deliverEvent`, `rescheduleEvent` (`handler.go`) | the batch it fetched, the row it is delivering | on a tick or notification fetch the due attempts, forward each, commit a success, or mark it failed and insert a retry |
| notification channel: `ListenForEvents` (`handler.go`) | a `LISTEN` connection per worker, an unbuffered Go channel | reconnect after 3 s, hand on notifications; there is no backlog handler |
| database: `internal/db_models`, `internal/postgresql` | tables `webhooks`, `webhook_targets`, `delivery_attempts`, sequences | the queries of `query.sql`; each statement outside a transaction is its own |
| pool and transactions: `internal/database` | the pgx pool, open transactions | `BeginTx`, `GetConn`, `Commit`, deferred `Rollback` |
| RabbitMQ forwarder: `internal/forwarders/rabbitmq.go` | a cached session (connection and channel), a mutex, confirm channels | get or create the session, publish, wait for the broker's confirmation |
| HTTP forwarder: `internal/forwarders/http.go` | none | one request, headers and query merged from webhook and configuration |
| forwarder cache: `factory.go`, `environment.go` | map from service and forwarder to an `RMQForwarder` | get, set |
| configuration and routing: `internal/config`, `GetWebhookServiceByPath` | services, paths, forwarders | load with defaults and validation; find a service by name, then by path |
| hash ring, claims, task locks: `internal/hashing`, the last queries of `query.sql` | positions, locks | not called by any Go code at this commit |
| admin pages: `internal/server/routes.go`, `templates.go` | the client's page, its inputs and its cursor | lists of targets with a cursor, filters, Load More; the details of a target (whose template fails) |
| retry policy: `rescheduleEvent`, `getNextExponentialBackoffTime` | `scheduled_for` of an attempt | date the next attempt |
| entry points, logging | none | `cmd/api` runs listener and worker in one process, `cmd/webserver` and `cmd/worker` one each |

Listener and workers share nothing but the database and the notification channel:
the listener commits rows and then notifies, the worker polls the rows. A worker
forwards one attempt after the other. The forwarder cache lives as long as the worker process.

**Hard behaviours.** Several workers read the same due rows without a claim; a row is
acted on long after it was read; success is committed after the receiver had the
webhook; marking an attempt failed and inserting its retry are two transactions; a
notification may be lost or arrive when nobody listens; a commit may be applied and
its confirmation lost; requests hold pool connections while their sender is slow; the
AMQP channel may go between any two calls, and its confirmations go to every
listener ever registered on it. `PROJECT.json` lists each as a hazard, at its line.

**What makes the components correct.** The listener: a webhook is visible whole or
not at all, under its own id, and only visible webhooks are notified; every request
is answered and gives its connections back. The delivery: a success is real, a
settled attempt stays settled, a target is not lost, and one worker neither delivers
twice without a fault nor lets retries multiply; seen from outside, a target goes
through one simple life. Its time: slow receivers delay the others by a bounded time and a broker by what it
takes, a receiver that failed is left alone for a second, and a notification finds its row. The
AMQP forwarder: "ok" means this very message was acknowledged, and a call ends. The
configuration: what is optional may be left out, a path has one service and a delivery
one broker. The admin pages: a scan misses no row and shows none twice.

## 2. Modules

| module | models | composes |
|---|---|---|
| `WebhookLog` | abstract: what a sender of webhooks is promised | |
| `Ingest` | `HandleEvent` statement by statement, for concurrent requests, with the pool, faults and a crash of the webserver | refines `WebhookLog` |
| `IngestProofs` | theorems about `Ingest` | extends `Ingest` |
| `Accepting` | `Ingest` as `Delivery` sees it: the tables of the one read from those of the other | extends `Ingest`, refines the webservers of `Delivery` |
| `AcceptingProofs` | that it does | extends `Accepting` and `IngestProofs` |
| `TargetLife` | abstract: the life of one target as its receiver and its sender see it | |
| `Delivery` | webservers, notification channel and workers over the shared tables | refines `TargetLife` with one worker |
| `DeliveryProofs`, `LifeProofs` | theorems about `Delivery`; that it implements `TargetLife` | extend `Delivery` |
| `RetryTiming` | one worker with clocks: when attempts are due, made and repeated | refines `TargetLife` |
| `RetryProofs` | theorems about `RetryTiming` | extends `RetryTiming` |
| `AmqpForwarder` | the cached RabbitMQ session, publish and confirm, with the client library and the broker around it | refines `TargetLife` |
| `AmqpProofs` | theorems about `AmqpForwarder` | extends `AmqpForwarder` |
| `Forwarding` | configuration file, routing, the map of broker connections, headers | |
| `ForwardingProofs` | theorems about `Forwarding` | extends `Forwarding` |
| `AdminList` | the admin pages and their client, beside transactions and workers | |
| `AdminProofs` | theorems about `AdminList` | extends `AdminList` |
| `MCDelivery`, `MCIngest`, `MCRetryTiming`, `MCAmqpForwarder`, `MCForwarding`, `MCAdminList` | instances for TLC | extend the above |
| `MCDeliveryClaims`, `MCIngestClaims`, `MCRetryClaims`, `MCAmqpForwarder` | what documentation and comments say and the code does not do | extend the above |

### Ingest

`pc[r]` is the statement of `HandleEvent` that request `r` is at. `Begin` is `BeginTx`,
which waits for a free connection without a limit and comes before the service is
looked up and the body read. `Route`/`NotFound` are `GetWebhookServiceByPath`: names
before paths, an empty path never matches, and of several services with one path the
iteration order of a Go map decides, so the model chooses. `ReadBody`/`BodyFails`,
`InsertWebhookEvent`, `SetWebhookIdempotencyKey`, one `InsertTarget` per turn of the
loop (target and attempt), `MarkWebhookAsScheduled`, `Commit`, `GetConn`, `Notify`
follow the code's order. `row[r]` is what the open transaction has written and `db`
what is committed; statements write only the request's own rows, so no isolation
beyond that is needed, except for the sequence (`lastId`), which a rollback does not
give back. A statement may fail (`StatementFails`), a commit may fail before or after
it was applied (`CommitFails`), the notification may (`NotifyFails`, which the code only
logs), the process may die (`Crash`). Every error path runs the deferred rollback (`Fail`).

`HashDefault` says whether the schema fills in `delivery_attempts.hash_value`. The
committed migration (`migrations/20241025005313_initial.sql:38`) declares it NOT NULL
without a default and `ScheduleDeliveryAttempt` gives no value: there the insert is
rejected (`AttemptRejected`) and only webhooks of services without forwarders are
accepted. With `TRUE` the models show what the code does once the schema allows it. `NextTarget` is one turn of the loop, with whichever of
the forwarders Go's iteration gives next.

### WebhookLog

Two variables: the log of accepted webhooks, each with all forwarders of one service,
and the answers. A webhook enters the log in one step; "ok" is only said of one that
is in it; "error" leaves it open. `Ingest` refines it with `log` the committed rows and
`answer` the answered requests (`ImplementsLog`).

### Accepting

`Ingest` and `Delivery` model `HandleEvent` twice, statement by statement and in one step.
`Accepting` says how they fit: the `webhook` and `attempts` of `Delivery` are read from the
committed rows of `Ingest`, `unnotified` are the committed webhooks whose id was not sent,
and a worker is somebody else (`Workers <- {}`). `ImplementsWebservers` is then that every
step of `Ingest`, a failed statement, a doubtful commit and a crash included, is a
`HandleEvent` or a `Notify` of `Delivery` or changes nothing a worker can see. A lost
notification is one that is never sent, so `NotifyLost` is not needed. Workers only write
rows that `HandleEvent` has committed, and it never reads or writes those again, so leaving them out hides no
interference.

### Delivery

`HandleEvent` is here one step, up to its commit, and `Notify` another, which is what
`Accepting` justifies. A worker's `pc` goes from
`idle` (select of `ProcessEvents`) through `deliver` (the loop over the batch) to
`commit`, or to `reschedule` and `schedule` (the two statements of `rescheduleEvent`)
and back. `Fetch` reads the rows of `GetDueDeliveryAttempts`; from then on the worker uses its copy.
An attempt is identified by webhook, forwarder and number; the number stands for the
order of the inserts and is not read by any action. `Routable` is the lookup of
service and forwarder in `processEvents`: `HandleEvent` stores every webhook without
a service id, so only a service whose key is empty is ever found (`StoredServiceID`).
Any answer of the receiver counts as a delivery, as in the code; `ForwardFails` leaves
open whether the receiver had the webhook. `CommitFails` leaves open whether the
transaction was applied. `received`, `reached` and `abandoned` are history variables
that no guard reads.

Time is abstracted: `BecomeDue` is the moment `scheduled_for` passes, and `RetryTiming`
says when that is. `Ticking` is the set of workers whose settings have `ticker_enabled`,
since every process has its own file. The notification's payload is not read by the worker and left out.

### TargetLife

What a receiver and a sender see of one target: it is created, its receiver may be
reached, again and again, and it ends delivered or lost. With one worker, each target of
`Delivery` refines it (`ImplementsLife`): it is delivered only after it was reached, is
left alone then, and is lost only in the gap between the two statements of `rescheduleEvent`.
The worker of `RetryTiming` refines it too, where batches are older than their deliveries
and rows become due again before they are done, and so does every call of `AmqpForwarder`:
a call is pending from `Forward` to its return, and its receiver is the broker.

### RetryTiming

One worker, its rows and two clocks. Time is in seconds and passes only where the code
lets it: while a receiver has time to answer (`Timeout`, the 30 seconds of
`deliverEvent`'s context), between the dating of a first attempt and its commit
(`CommitTime`), or while the worker waits. `Brokers` are the targets whose forwarder publishes
to RabbitMQ: its wait for a confirmation (`rabbitmq.go:259`) looks at no context, so that such a
delivery may go on after the timeout for any time, or for ever (`Overrunning`). When it comes back
too late, `Succeed` is no outcome, since the commit has the context that ended. `ahead` is how far the webserver's clock is
ahead of the worker's. `Fetch` reads the time once for the whole batch
(`handler.go:297`), `Reschedule` reads it again (`handler.go:357`). `Backoff` is computed from a
count that is taken with an invalid `pgtype.Int8`, hence a NULL that equals no target:
always zero, so the "exponential" delay is one second, for ever, whatever `retry_delay`
says. The worker ticks whenever it may (`DefaultTickerInterval` is five *nanoseconds*), so a
due row is fetched without a pause. History variables (`readyAt`, `failedAt`, `heard`, `tried`, `overrun`)
are read by no guard; `overrun` is what an attempt that was due has waited for brokers past their timeout.

### AmqpForwarder

`call` numbers the calls of `Forward`, which the worker makes one at a time; each call
has a confirm channel of capacity one. `UseSession` follows `getSession`: a session is
good as long as its *connection* is open. `CreateSession`, `DeclareExchange`, `ConfirmSelect`,
`Publish` and `Receive` and their failures follow `publishToRMQ` and `publish`; closing
a confirm channel that is closed is a panic, from which a worker does not recover.
`PublishFails` has two causes: the link is gone, or a write to it fails before the library
has noticed (`writeFailed`); then the forwarder closes a confirm channel that the library is
about to close as well, and keeps the session, since a write error is none of the library's own.
`Confirmation` and `LinkLost` model the client library (amqp091-go) as the code uses
it: each confirmation is sent to every channel registered with `NotifyPublish`, in
order, blocking when one is full, and all are closed when the AMQP channel goes.

### Forwarding

`Load` is `loadConfig`: the settings hold their defaults before the file is decoded, so that a zero
replaces them (`SettingsWithDefaults`); a forwarder gets its own afterwards, for what is left out or
zero (`WithDefaults`); then all is validated, and a file that is refused is a panic (`LoadMainConfig`). `Route` is the lookup of a request's path, `Deliver` that of
the forwarder, `NewForwarder` the map `globalConnections`, which lives as long as the
process and is keyed by `generateUniqueName`. A name is the sequence of what its dashes
separate, so that joining two with a dash is concatenation. All rows have an empty service id,
so deliveries are to the forwarders of the service with an empty key. Of a header only the origin of its value is kept, by spelling: the merged
map has spellings for keys, and `req.Header.Add` makes them canonical afterwards.

### AdminList

Transactions insert targets under ids of a sequence and commit in any order
(`HandleEvent`), workers change the status of the latest attempt and insert others. The
client opens the dashboard, types into an input, presses Load More or follows the cursor. The behaviour of the page is that of the HTMX attributes in
`templates.go`: an input's request carries its own value only and replaces the content of
`#results`, Load More carries all values and its answer replaces `#results` itself, with a
fragment that has no such id: afterwards neither the inputs nor the button have a place
for their answer (`anchored`). `steady` and `listed` are history variables. The
details of a target are not modelled: their template fails in every case (section 4).

## 3. Runs

| run | instance | what it shows |
|---|---|---|
| `delivery_safety` | 1 webhook, 2 forwarders, 2 workers that may crash, 2 faults; symmetry in the workers | `TypeOK`, `NoPhantomSuccess`, `LossWindow`, `SettledStaysSettled`, `RetriesCostFaults`, `RoundsGetShorter` under all interleavings |
| `delivery_single` | 2 webhooks on 2 services, one with a forwarder that cannot be routed, 1 worker that may crash, 2 faults | `OneOpenAttempt`, `FreshWork`, `ExactlyOnceWithoutFaults`, and that each target lives a `TargetLife` (`ImplementsLife`) |
| `delivery_fair` | 1 webhook, 2 workers, one with the ticker on that may die for good, one that only hears, 2 faults | `EventuallySettled`, `Quiesces`; `HeardIsDelivered` for the worker without a ticker |
| `ingest` | 4 requests (two by name, one by path, one unknown), pool of 2, 2 faults | `TypeOK`, `UniqueIds`, `ConnsBalanced`, `ImplementsLog`, `ImplementsWebservers`, `EveryRequestAnswered` |
| `amqp` | 5 calls, 3 faults | `TypeOK`, `ListenersAreOpen`, `StuckAtTheThird`, `WaitsInVainIfStuck`, `ImplementsLife`, `ReturnsUnlessStuck` |
| `retry` | 3 targets, one of them a broker's, with 3 attempts each, timeout 2, clocks up to 1 apart, 8 seconds; symmetry in the other two | `TypeOK`, `BoundedLateness`, `HeardIsFetched`, `RetriesAreSpaced`, `ImplementsLife` |
| `admin` | 2 transactions with 2 forwarders, 4 ids, pages of 1; symmetry in transactions and forwarders | `TypeOK`, `WholeScan`, `NoRowTwice`, `MoreIsMore` |
| `forwarding` | some 1000 files with up to 2 services and 2 forwarders each, names of which one begins with another, settings at their limits, 4 spellings of 2 headers | `TypeOK`, `OptionalIsOptional`, `RoutesAgree`, `OwnForwarder` |
| `claim_forwarding` | a named service, no fault | violated: nothing is ever forwarded |
| `claim_targets` | the committed schema | violated: a webhook with a target is refused |
| `claim_publish_error` | 2 calls, 1 fault | violated: a channel closed before the publish is a panic |
| `claim_retries` | 2 targets, with a clock, retry_count 1 | violated: a third attempt, a second after the second failed, before a ticker of 5 seconds can have fired |

**Bounds.** A fault is anything the environment does to the program; `MaxFaults` bounds
them. In `Delivery` nothing else needs a bound: each attempt after the first costs a
fault of its own (`RetriesCostFaults`), so `MaxAttempts = MaxFaults + 1` cuts nothing off: a
worker at `schedule` always finds a row (`RetriesHaveRoom`). Both are theorems. Two faults are enough for a retry to fail again, for both workers to crash
and for a failed commit followed by an interrupted reschedule. Two workers are enough
for two actors on one row; two webhooks and two forwarders for a target to be taken for another's. In `Ingest`
four requests with a pool of two have two waiting while two hold, be it
for their first connection or, after their commit, for their second. In
`AmqpForwarder` the reader gets stuck at the third confirmation of a channel, so five
calls reach that, a new session and the calls after it. In `RetryTiming` three targets
let one wait behind receivers that time out in two rounds, one of which may overrun. In 8 seconds
the bound is attained: an attempt that is 6 seconds late, which is `MaxLateness` for a timeout of 2,
is reached, and an overrun of 3 seconds is. The theorems hold for every horizon. In `AdminList` four ids
and pages of one row are three cursors and a last page, with a transaction that
commits a low id after a high one; a row that is filtered, marked or inserted
between two pages needs no more. In `Forwarding` the files are three families, in which
names and paths vary, a forwarder's values and headers, or the settings, since no rule relates them.

**Deadlock** is not checked where the system may stop: all requests are answered
(`Ingest`); all calls are made, or the last one waits for ever (`AmqpForwarder`); the
clock reaches its horizon (`RetryTiming`). `admin` and `forwarding` have no deadlock.

**Fairness.** `Delivery`: weak fairness of a worker's next step, of its reconnecting
listener, of the clock and of the notification after a commit. A delivery has a
context of 30 seconds, and queries are assumed to return. Nothing in the repository
restarts a dead worker, so `Restart` is not fair: `EventuallySettled` and `Quiesces` ask
for a ticking worker that stays up from some moment on (`SomeoneTicks`). The assumption that `Forward` returns is justified by that context
for HTTP only: in `AmqpForwarder` the wait for a confirmation has none, the third
confirmation of a channel finds the library's reader stuck (`StuckAtTheThird`), and from
then on calls wait for ever, so `EventuallySettled` does not extend to such forwarders.
`Ingest`: a handler runs when it can, and a body arrives or `ReadTimeout` (10 s) ends it.
`AmqpForwarder`: the caller runs, and the broker answers as long as the library reads.
Failures are never fair. `RetryTiming`, `AdminList` and `Forwarding` state safety only: a
bound on lateness needs no fairness, since time cannot pass where the code does not let it.

## 4. Findings

The four `claim_*` runs are disagreements between the code and what the repository
says of it; `PROJECT.json` quotes the lines. `claim_retries` refutes three sentences with one
behaviour: its property is that a target keeps to its retry_count, to growing delays *or* to the
ticker's interval, and the state that violates it has kept to none of them. The count of attempts is
taken with an invalid `pgtype.Int8` (and with the attempt's id for the target's), so that every delay is
one second; the ticker is given 5 without a unit, hence nanoseconds; and nothing reads `retry_count`.

Others met on the way, each visible in the model's actions:

- `GetDueDeliveryAttempts` gives all workers all due rows; the hash values meant "for
  distributing work across multiple workers" (`handler.go:222`) are never read. Two workers
  deliver the same attempt and each inserts a retry: `OneOpenAttempt`, `FreshWork` and
  `ExactlyOnceWithoutFaults` hold for one worker only.
- With a service whose key is empty, webhooks of *all* services are looked up under it
  and go to its forwarders of the same name.
- A crash or error between the two statements of `rescheduleEvent` leaves a failed
  attempt without a retry, which no query ever looks at again (`abandoned`).
- With `ticker_enabled = false`, "Enable/disable the retry mechanism" (`config.md:15`), a
  notification of another webhook still fetches and retries everything due.
- "Each service path must be unique" (`config.md:135`) is not validated: of two services with one path,
  requests reach either (`RoutesAgree` exempts such paths).
- An empty path does not make a service use the root path (`config.md:136`): the lookup skips it.
- The first attempt of a webhook is dated by the webserver. When that clock is ahead, the
  notification comes too early and, with the ticker off, nothing delivers the row until
  the next one (`HeardIsFetched` has the condition).
- Forwarders "b-c" of "a" and "c" of "a-b" have one key. They do not meet as long as all
  rows have the same service id, which is what `OwnForwarder` and its proof rest on; once
  `HandleEvent` stores it, the second's deliveries would go to the first's exchange.
- A configured header overwrites the webhook's only in its canonical spelling, although "it will be
  overwritten" (`config.md:42`, and `http.go:44`): in another both are sent (`MergedHeaders`,
  `RequestHeaders`), and so is an idempotency key that the sender gave.
- `durable = false`, `persistent = false` and `retry_count = 0` cannot be configured: the
  defaults replace them. `listener_port` and `admin_port` may be equal.
- A body that is not JSON is never sent to a broker, since `json.RawMessage` refuses it, and is retried for ever.
- Any HTTP status counts as a success. A response with a NUL byte or invalid UTF-8 cannot be
  stored, so that its delivery is rolled back and repeated for ever.
- Load More works once, as its answer takes the place of the element it is aimed at. No
  service filter matches a row, because `HandleEvent` stores none; changing one input forgets
  the others.
- The details page of a target never lists its attempts: the template reads `.Target.URL`
  (`templates.go:101`) where the row has `Url` (`query.sql.go:531`) and fails there, after the count
  of attempts and before the list.
- A broker that keeps a message unconfirmed keeps the worker, and every other target with it, for as
  long as that takes: `BoundedLateness` counts it as `overrun`.
- `deliverEvent` does not fill in `IdempotencyKey`, so the HTTP forwarder sends an empty one.

## 5. Proofs

All theorems hold for every value of the constants, from the named assumptions of the
modules only: `Config` gives services their forwarders, the bounds are natural numbers,
the pool has at least one connection, canonical header names are their own, and the markers for "none" are not confused with values. Every
proof has the same shape: types first, then an inductive invariant, one step per
action, and temporal steps last.

`IngestProofs` (invariant `Inv`):

- `InProgress` says what the open transaction of a request has written at each
  statement; it is what makes `AllOrNothing` inductive, since a commit publishes what the
  earlier statements wrote. `TypeCorrect`, `VisibleWhole`.
- `PastCommit` and `Ids`: whose row is committed is past its commit, and ids of committed and
  uncommitted rows come from the sequence. `UniqueIds` alone says nothing of the
  sequence and is not inductive. `IdsAreUnique`.
- `NotifiedAfterCommit`: at `notify` the row is in `db`.
- `NoConnIsLeaked`: `held` is exactly the set of requests at a place that holds a
  connection, finite and within the pool; taking one needs a free one.
- `ListenerIsALog`: under `Inv` each step is a step of `WebhookLog` or a stutter. `Commit` is
  `Accept`; a commit that fails after it was applied is an `Accept` that answers "error"; a
  crash is one `AnswerError` for all open requests.

`AcceptingProofs` adds two invariants to `Inv`: whoever has inserted a target got an attempt
past the schema (`PastSchema`), and a webhook is notified in the last step of its request
(`NotifiedLast`, by `Ids`: a commit brings an id that nobody was told of). Then a commit is the
`HandleEvent` of `Delivery` for the service the request was routed to, also one that
is reported failed and was applied (`CommitHandles`), a notification is its `Notify`
(`NotifyTells`), and nothing else is seen (`ListenerIsWebservers`).

`DeliveryProofs`:

- `TypeCorrect`; `RowsInvariant`: what a worker holds exists.
- `SuccessIsReal`: needs `CommitIsBacked`, that a worker about to commit has reached the receiver.
- `NothingElseIsLost` (`LossWindow`) is inductive by itself: each step keeps an open or successful
  attempt, passes the target to a worker at `schedule`, or abandons it.
- `RetriesAreNewRows`, an action property, from the types and `RowsExist`.
- `RetriesDoNotMultiply`, `WorkIsFresh` for one worker: from `OneWorker`, which relates
  what is open in the table to the batch and the row in hand.
- `ExactlyOnce`, for one worker and as long as nothing fails, from `FaultFree`: without a fault
  there are no second attempts, so a target that was reached is settled or in hand.

- `RetriesArePaidFor` and `RetriesFindRoom`, for any number of workers. Several of them may
  settle one row several times and insert a retry each; the count that is kept is of the
  retries in the table *and* the workers on their way to insert one (`Paid`): a fault sends
  one worker there, an insert brings one back. If a target had no number left, all its
  numbers from 2 on would be retries, as many as there may be faults, and the worker at `schedule` one more
  (`FullTarget`); so some number is free, and a least one (`LeastNumber`), which is the next.
- `RoundsEnd`, an action property, for any number of workers: `StepsLeft` is the variant of the loop
  over a batch. Only a fetch increases it; batches are finite, since what is due is (`FiniteRows`). This
  is the part of `Quiesces` and `EventuallySettled` that needs no fairness.

`LifeProofs`: each step of one worker is a step of the target's `TargetLife` or a stutter
(`OneWorkerIsATargetLife`), from the invariants of `DeliveryProofs`.

`RetryProofs`: `BoundedLateness` is not inductive. The invariant splits the rounds of the
worker: a row that became due inside a round waits for what is left of its batch and then for
those of the next that come before it, one that became due outside for the latter only, and
in each part every other target has at most one delivery, of at most `Timeout` and what is counted
as `overrun`. The bound follows by arithmetic, for any number of targets (`NobodyStarves`).
Without brokers there is no overrun, and `MaxLateness` alone is the bound (`NobodyStarvesByHTTP`);
that brokers do starve others is why no bound without `overrun` is stated for them. `RetriesAreSpaced` and
`HeardIsFetched` relate the clocks with what was read from them.
`TimedWorkerIsATargetLife` rests on the types: rows of a batch are still open when the worker
comes to them, because it is the only one.

`AmqpProofs` (invariant `Own`): calls to come have left no trace, the confirm channel of
the current call is its own until published, and only the waiting call's message is on
its way. `SuccessIsAcked` and `ListenersStayOpen` follow. For `TwoAreHarmless`
(`StuckAtTheThird`) the invariant `Crowd` says of each full buffer that a later call's
listener is registered besides: the confirmation that finds it full is that of a third.
`StuckMeansForEver` (`WaitsInVainIfStuck`) takes the other direction of the wait: a message is
on its way over a good link only (`InVain`), and a confirmation that finds a full buffer finds
it before it comes to the current call's, which was registered last. `CallIsATargetLife`: by
`OwnAnswer`, a confirmation is of the message of the call that waits, which is pending.

`AdminProofs`: `WholeScan` is about the last page only; the invariant says of every page
that the steady rows not yet listed are below the cursor. Commits of lower ids cannot break
it, as they are not steady. `NoRowTwice` needs that all listed rows are at or above the cursor.

`ForwardingProofs`: facts about the loaded configuration are carried to the file
(`LoadedKeeps`), which outlives a restart; `KeysDiffer` is that names of one service keep
their difference behind a common prefix; `DefaultsAreValid` shows that defaults make a
file valid exactly when it is admissible.

Only model-checked: the liveness properties `EventuallySettled`, `Quiesces`, `HeardIsDelivered`,
`EveryRequestAnswered` and `ReturnsUnlessStuck`, since fairness and `ENABLED` are out of
the prover's reach. All invariants and action properties that the runs check are proved.

Only proved, in no run's list: `AllOrNothing`, `NotifiedIsVisible` and `OkMeansAcked`, where the
runs check the refinements `ImplementsLog`, `ImplementsWebservers` and `ImplementsLife` instead, which see the
same mistakes but for a key that is missing and a notification of an id that is never committed; and
`RetriesHaveRoom`, which says that a bound of the model is none.

## 6. Not modelled

- The contents of bodies, headers and query strings: they are stored and sent as they are,
  but for the merge of headers, and that a body must be JSON for a broker. The copy of
  query parameters, which keeps the URL's own, is a loop without a state.
- Authentication settings and broker flags of the configuration: they are decoded, in part
  validated and handed on. A file that is no TOML is refused like one that is not valid.
- A connection left behind when `Channel()` fails after `Dial`.
- Hash ring, claims and task locks (`internal/hashing` and the last queries of `query.sql`):
  no Go code calls them, so who calls them, in which order and with which arguments is
  not in the repository, and a model would be of a design and not of this code. The same
  holds for the queries for lists that no page uses.
- Of the admin pages the details of a target, which always fail to render, the layout, the 500 ms by which an input waits for more keys, answers
  that overtake each other, and a status that is none of the enumeration.
- Logging, health check, pool configuration, `HelloWorldHandler`: layout and I/O.

## 7. Plan

Written: the listener with its abstract log, the delivery with its abstract life, its
timing, both forwarders and the configuration, the admin pages, each with its proofs. Left:

1. `Claims` and `HashRing`, with `GetRangeEnd` and signed positions, once the program calls
   them: that two workers then never deliver one row would replace `OneOpenAttempt` for one
   worker by one for several. `ClaimDeliveryAttemptFromEnd` has an OR that takes rows of any
   status below the end, and is the first thing such a model should look at.
2. Several workers in `RetryTiming`: lateness is shared, but every row is delivered by each.
3. For the admin pages, an abstract scan that `AdminList` implements, as `WebhookLog` and
   `TargetLife` are for the others.
4. For several workers, an abstract life in which a target may leave either end, with
   `RetriesCostFaults` saying how often.
