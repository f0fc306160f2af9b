------------------------------- MODULE Ingest -------------------------------
(***************************************************************************)
(* The webhook listener, statement by statement: HandleEvent for several   *)
(* requests at a time, its transaction, the connection pool it takes a     *)
(* connection from, first for the transaction and then for the             *)
(* notification, and the ways each of them fails.                          *)
(*                                                                         *)
(* Every statement inserts or updates rows of the request's own webhook;   *)
(* nobody sees them before the commit, except that ids come from sequences *)
(* and are never given back.  A body, headers and a query string are left  *)
(* out: they are stored as they are.                                       *)
(***************************************************************************)
EXTENDS Naturals, FiniteSets

CONSTANTS
    Requests,      \* the requests to /listener/
    Services,      \* service names: strings
    Config,        \* the forwarders of every service
    Path,          \* the path of every service, "" if it has none
    RequestPath,   \* what follows /listener/ in a request
    MaxConns,      \* the size of the connection pool
    NoService,     \* configService before it is known
    HashDefault,   \* the schema has a default for delivery_attempts.hash_value
    MaxFaults      \* bound on database errors and crashes

ASSUME ConfigAssumption == DOMAIN Config = Services
ASSUME NoServiceAssumption == NoService \notin Services
ASSUME PoolAssumption   == MaxConns \in Nat \ {0}
ASSUME BoundAssumption  == MaxFaults \in Nat

VARIABLES
    pc,       \* where HandleEvent is
    service,  \* configService
    row,      \* what the open transaction wrote
    todo,     \* forwarders the loop has not come to
    held,     \* requests that hold a connection of the pool
    lastId,   \* the sequence of webhooks.id
    db,       \* the committed webhooks, with their targets
    sent,     \* ids that were sent to webhook_tasks_channel
    faults    \* number of faults so far

reqVars == <<pc, service, row, todo>>
vars == <<reqVars, held, lastId, db, sent, faults>>

NoRow == [id |-> 0]

\* Places where the request holds the transaction's connection, and of these the
\* ones where the next thing it does is a statement.
Statements    == {"insert", "key", "targets", "mark"}
InTransaction == {"route", "body", "commit"} \cup Statements
Answered      == {"ok", "error"}

\* GetWebhookServiceByPath: the name of a service goes before the paths, an empty
\* path is none, and of several services with one path the map's order decides.
ServicesByPath(path) ==
    IF path \in Services THEN {path} ELSE {s \in Services : Path[s] # "" /\ Path[s] = path}

Fault == faults < MaxFaults /\ faults' = faults + 1

HasFreeConn == Cardinality(held) < MaxConns

\* The deferred Rollback, and the answer 500.
Fail(r) ==
    /\ pc' = [pc EXCEPT ![r] = "error"]
    /\ row' = [row EXCEPT ![r] = NoRow]
    /\ held' = held \ {r}

-----------------------------------------------------------------------------
Init ==
    /\ pc = [r \in Requests |-> "sent"]
    /\ service = [r \in Requests |-> NoService]
    /\ row = [r \in Requests |-> NoRow]
    /\ todo = [r \in Requests |-> {}]
    /\ held = {}
    /\ lastId = 0
    /\ db = {}
    /\ sent = {}
    /\ faults = 0

\* BeginTx waits for a connection without a limit: before the request's service and
\* body are known.
Begin(r) ==
    /\ pc[r] = "sent"
    /\ HasFreeConn
    /\ held' = held \cup {r}
    /\ pc' = [pc EXCEPT ![r] = "route"]
    /\ UNCHANGED <<service, row, todo, lastId, db, sent, faults>>

Route(r) ==
    /\ pc[r] = "route"
    /\ \E s \in ServicesByPath(RequestPath[r]) : service' = [service EXCEPT ![r] = s]
    /\ pc' = [pc EXCEPT ![r] = "body"]
    /\ UNCHANGED <<row, todo, held, lastId, db, sent, faults>>

NotFound(r) ==
    /\ pc[r] = "route"
    /\ ServicesByPath(RequestPath[r]) = {}
    /\ Fail(r)
    /\ UNCHANGED <<service, todo, lastId, db, sent, faults>>

\* The body arrives, or the sender is too slow for ReadTimeout or goes away.
ReadBody(r) ==
    /\ pc[r] = "body"
    /\ pc' = [pc EXCEPT ![r] = "insert"]
    /\ UNCHANGED <<service, row, todo, held, lastId, db, sent, faults>>

\* Mutant: the error is returned without the rollback.
BodyFailsKeepsConn(r) ==
    /\ pc[r] = "body"
    /\ pc' = [pc EXCEPT ![r] = "error"]
    /\ UNCHANGED <<service, row, todo, held, lastId, db, sent, faults>>

BodyFails(r) ==
    /\ pc[r] = "body"
    /\ Fail(r)
    /\ UNCHANGED <<service, todo, lastId, db, sent, faults>>

\* Mutant: the row is not read back, its id is the zero value.
InsertWithoutReturning(r) ==
    /\ pc[r] = "insert"
    /\ lastId' = lastId + 1
    /\ row' = [row EXCEPT ![r] = [id |-> 0, request |-> r, status |-> "future",
                                  keyed |-> FALSE, targets |-> {}]]
    /\ pc' = [pc EXCEPT ![r] = "key"]
    /\ UNCHANGED <<service, todo, held, db, sent, faults>>

\* Mutant: the id follows the highest one in the table.
InsertAfterHighestId(r) ==
    /\ pc[r] = "insert"
    /\ lastId' = Cardinality(db) + 1
    /\ row' = [row EXCEPT ![r] = [id |-> lastId', request |-> r, status |-> "future",
                                  keyed |-> FALSE, targets |-> {}]]
    /\ pc' = [pc EXCEPT ![r] = "key"]
    /\ UNCHANGED <<service, todo, held, db, sent, faults>>

\* InsertWebhookEvent, with the delivery_status that the table gives it.
InsertWebhookEvent(r) ==
    /\ pc[r] = "insert"
    /\ lastId' = lastId + 1
    /\ row' = [row EXCEPT ![r] = [id |-> lastId', request |-> r, status |-> "future",
                                  keyed |-> FALSE, targets |-> {}]]
    /\ pc' = [pc EXCEPT ![r] = "key"]
    /\ UNCHANGED <<service, todo, held, db, sent, faults>>

SetWebhookIdempotencyKey(r) ==
    /\ pc[r] = "key"
    /\ row' = [row EXCEPT ![r].keyed = TRUE]
    /\ todo' = [todo EXCEPT ![r] = Config[service[r]]]
    /\ pc' = [pc EXCEPT ![r] = "targets"]
    /\ UNCHANGED <<service, held, lastId, db, sent, faults>>

\* One turn of the loop: a target and its scheduled attempt.
InsertTarget(r) ==
    /\ pc[r] = "targets"
    /\ \E f \in todo[r] :
          /\ row' = [row EXCEPT ![r].targets = @ \cup {f}]
          /\ todo' = [todo EXCEPT ![r] = @ \ {f}]
    /\ UNCHANGED <<pc, service, held, lastId, db, sent, faults>>

\* Without a value for hash_value the insert of the attempt violates NOT NULL.
AttemptRejected(r) ==
    /\ pc[r] = "targets"
    /\ todo[r] # {}
    /\ Fail(r)
    /\ UNCHANGED <<service, todo, lastId, db, sent, faults>>

\* A turn of the loop, under the schema that the database has.
NextTarget(r) == IF HashDefault THEN InsertTarget(r) ELSE AttemptRejected(r)

LoopEnds(r) ==
    /\ pc[r] = "targets"
    /\ todo[r] = {}
    /\ pc' = [pc EXCEPT ![r] = "mark"]
    /\ UNCHANGED <<service, row, todo, held, lastId, db, sent, faults>>

\* Mutant: the notification is sent before the commit.
NotifyBeforeCommit(r) ==
    /\ pc[r] = "mark"
    /\ row' = [row EXCEPT ![r].status = "scheduled"]
    /\ sent' = sent \cup {row[r].id}
    /\ pc' = [pc EXCEPT ![r] = "commit"]
    /\ UNCHANGED <<service, todo, held, lastId, db, faults>>

MarkWebhookAsScheduled(r) ==
    /\ pc[r] = "mark"
    /\ row' = [row EXCEPT ![r].status = "scheduled"]
    /\ pc' = [pc EXCEPT ![r] = "commit"]
    /\ UNCHANGED <<service, todo, held, lastId, db, sent, faults>>

\* The rows become visible together and the connection goes back to the pool.
Commit(r) ==
    /\ pc[r] = "commit"
    /\ db' = db \cup {row[r]}
    /\ held' = held \ {r}
    /\ pc' = [pc EXCEPT ![r] = "committed"]
    /\ UNCHANGED <<service, row, todo, lastId, sent, faults>>

\* GetConn waits for a connection as BeginTx does.
GetConn(r) ==
    /\ pc[r] = "committed"
    /\ HasFreeConn
    /\ held' = held \cup {r}
    /\ pc' = [pc EXCEPT ![r] = "notify"]
    /\ UNCHANGED <<service, row, todo, lastId, db, sent, faults>>

Notify(r) ==
    /\ pc[r] = "notify"
    /\ sent' = sent \cup {row[r].id}
    /\ held' = held \ {r}
    /\ pc' = [pc EXCEPT ![r] = "ok"]
    /\ UNCHANGED <<service, row, todo, lastId, db, faults>>

-----------------------------------------------------------------------------
(* Faults *)

\* BeginTx returns an error, a statement does, or the commit does, of which nobody
\* knows whether it was applied.  A sequence does not take its id back.
StatementFails(r) ==
    /\ pc[r] \in {"sent"} \cup Statements
    /\ Fault
    /\ lastId' \in IF pc[r] = "insert" THEN {lastId, lastId + 1} ELSE {lastId}
    /\ Fail(r)
    /\ UNCHANGED <<service, todo, db, sent>>

\* Mutant: the error of the commit is only logged.
CommitErrorLogged(r) ==
    /\ pc[r] = "commit"
    /\ Fault
    /\ db' \in {db, db \cup {row[r]}}
    /\ pc' = [pc EXCEPT ![r] = "ok"]
    /\ held' = held \ {r}
    /\ UNCHANGED <<service, row, todo, lastId, sent>>

CommitFails(r) ==
    /\ pc[r] = "commit"
    /\ Fault
    /\ db' \in {db, db \cup {row[r]}}
    /\ Fail(r)
    /\ UNCHANGED <<service, todo, lastId, sent>>

\* Mutant: the connection of the notification is not released.
NotifyFailsKeepsConn(r) ==
    /\ pc[r] \in {"committed", "notify"}
    /\ Fault
    /\ pc' = [pc EXCEPT ![r] = "ok"]
    /\ UNCHANGED <<service, row, todo, held, lastId, db, sent>>

\* The notification is not sent, or sent without being confirmed: logged, and the
\* request is answered as if nothing had happened.
NotifyFails(r) ==
    /\ pc[r] \in {"committed", "notify"}
    /\ Fault
    /\ sent' \in IF pc[r] = "notify" THEN {sent, sent \cup {row[r].id}} ELSE {sent}
    /\ held' = held \ {r}
    /\ pc' = [pc EXCEPT ![r] = "ok"]
    /\ UNCHANGED <<service, row, todo, lastId, db>>

\* The webserver dies and starts again: open requests are cut off, their
\* transactions rolled back and the pool is new.
Crash ==
    /\ Fault
    /\ pc' = [r \in Requests |-> IF pc[r] \in Answered THEN pc[r] ELSE "error"]
    /\ row' = [r \in Requests |-> IF pc[r] \in Answered THEN row[r] ELSE NoRow]
    /\ held' = {}
    /\ UNCHANGED <<service, todo, lastId, db, sent>>

-----------------------------------------------------------------------------
Handle(r) ==
    \/ Begin(r) \/ Route(r) \/ NotFound(r) \/ ReadBody(r)
    \/ InsertWebhookEvent(r) \/ SetWebhookIdempotencyKey(r)
    \/ NextTarget(r) \/ LoopEnds(r)
    \/ MarkWebhookAsScheduled(r) \/ Commit(r) \/ GetConn(r) \/ Notify(r)

Next ==
    \/ \E r \in Requests :
          Handle(r) \/ BodyFails(r) \/ StatementFails(r) \/ CommitFails(r) \/ NotifyFails(r)
    \/ Crash

Spec == Init /\ [][Next]_vars

\* A handler's goroutine runs when it can.  A body arrives or runs into ReadTimeout:
\* the sender need not finish it.
Fairness == \A r \in Requests : WF_vars(Handle(r) \/ BodyFails(r))

FairSpec == Spec /\ Fairness

-----------------------------------------------------------------------------
(* What the listener promises *)

Rows == db \cup {row[r] : r \in {q \in Requests : row[q] # NoRow}}

RowType ==
    [id : Nat \ {0}, request : Requests, status : {"future", "scheduled"},
     keyed : BOOLEAN, targets : SUBSET UNION {Config[s] : s \in Services}]

\* Every variable keeps its type; a row has the fields of its table, whoever wrote it.
TypeOK ==
    /\ pc \in [Requests -> {"sent", "committed", "notify"} \cup InTransaction \cup Answered]
    /\ service \in [Requests -> Services \cup {NoService}]
    /\ row \in [Requests -> RowType \cup {NoRow}]
    /\ todo \in [Requests -> SUBSET UNION {Config[s] : s \in Services}]
    /\ held \subseteq Requests
    /\ lastId \in Nat
    /\ db \subseteq RowType
    /\ sent \subseteq Nat
    /\ faults \in 0..MaxFaults

\* Whoever sees a webhook sees all of it: its key, its status, and a target with a
\* scheduled attempt for each forwarder of one service the request was sent to.
AllOrNothing ==
    \A x \in db :
        /\ x.keyed
        /\ x.status = "scheduled"
        /\ \E s \in ServicesByPath(RequestPath[x.request]) : x.targets = Config[s]

\* Concurrent requests, rolled back ones and crashes never make two webhooks share
\* an id, and with it an idempotency key, nor store a request twice.
UniqueIds ==
    \A x, y \in Rows : x.id = y.id \/ x.request = y.request => x = y

\* handler.go:201: an id is sent to the workers only when they can see its rows.
NotifiedIsVisible == \A id \in sent : \E x \in db : x.id = id

\* A request holds one connection while its transaction is open or it sends its
\* notification, and none before, between and after, on every way out of the handler.
ConnsBalanced ==
    /\ held = {r \in Requests : pc[r] \in InTransaction \cup {"notify"}}
    /\ Cardinality(held) <= MaxConns

\* What the abstract log sees of the tables and of the answers.
LoggedRows == {[request |-> x.request, forwarders |-> x.targets] : x \in db}
Answer     == [r \in Requests |-> IF pc[r] \in Answered THEN pc[r] ELSE "none"]

Log == INSTANCE WebhookLog WITH
    Addressed <- [r \in Requests |-> ServicesByPath(RequestPath[r])],
    log       <- LoggedRows,
    answer    <- Answer

\* The listener implements it.
ImplementsLog == Log!Spec

\* Every request is answered, however small the pool and however slow the senders:
\* nobody waits for a connection while holding one.
EveryRequestAnswered == \A r \in Requests : <>(pc[r] \in Answered)
=============================================================================
