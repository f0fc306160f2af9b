------------------------------ MODULE AdminList ------------------------------
(***************************************************************************)
(* The admin page with the list of targets, read page by page with the id  *)
(* of the last row as cursor, while listeners commit rows whose ids they   *)
(* took in another order and workers change the attempts the list is       *)
(* filtered by.                                                            *)
(*                                                                         *)
(* One client reads: a browser, whose inputs and button send the requests  *)
(* of the dashboard template, or a program that follows the cursors.  A    *)
(* page is the set of its ids, for the query sorts by them; what else a    *)
(* row shows is left out.                                                  *)
(***************************************************************************)
EXTENDS Naturals, FiniteSets

CONSTANTS
    Txs,           \* concurrent transactions of HandleEvent
    Forwarders,    \* names of forwarders
    Services,      \* service ids that a client may ask for
    Outcomes,      \* what an attempt is marked with, success and failed
    PageSize,      \* pageSize, 20 in the code
    MaxId,         \* bound on the ids
    Blank,         \* an input left empty
    None           \* the forwarder of a row that is not there

ASSUME PageAssumption == PageSize \in Nat \ {0}
ASSUME BoundsAssumption == MaxId \in Nat

VARIABLES
    nextId,        \* the sequence of webhook_targets.id
    pending,       \* the rows each transaction has inserted and not committed
    rows,          \* the committed rows of webhook_targets
    forwarderOf,   \* webhook_targets.forwarder_id
    latest,        \* the status of a target's most recent attempt
    inputs,        \* what the inputs of the dashboard hold
    anchored,      \* the page has an element with the id results
    answer,        \* what the client shows: nothing, a list, an error
    items,         \* DeliveryAttemptsResponse.Items, the latest page
    hasMore,       \* DeliveryAttemptsResponse.HasMore
    lastId,        \* DeliveryAttemptsResponse.LastID
    asked,         \* the filter of the latest request
    listed,        \* history: the rows of the pages since the first
    steady         \* history: rows that match the inputs since the first page

db     == <<nextId, pending, rows, forwarderOf, latest>>
page   == <<answer, items, hasMore, lastId, asked, listed>>
client == <<inputs, anchored, page>>
vars   == <<db, client, steady>>

Statuses == {"scheduled"} \cup Outcomes
Ids == 1..MaxId

ASSUME ValuesAssumption ==
    /\ Blank \notin Forwarders \cup Services \cup Statuses
    /\ None \notin Forwarders

Filters == [service : Services \cup {Blank},
            forwarder : Forwarders \cup {Blank},
            status : Statuses \cup {Blank}]

NoFilter == [service |-> Blank, forwarder |-> Blank, status |-> Blank]

-----------------------------------------------------------------------------
(* GetWebhookTargetsList and what the handler makes of it *)

\* The conditions of its WHERE: no webhook has a service id, as HandleEvent gives none.
Matching(filter) ==
    {i \in rows : /\ filter.service = Blank
                  /\ filter.forwarder \in {Blank, forwarderOf[i]}
                  /\ filter.status \in {Blank, latest[i]}}

\* Mutant: the cursor's row is listed again.
From(filter, cursor) == {i \in Matching(filter) : cursor = 0 \/ i <= cursor}

Below(filter, cursor) == {i \in Matching(filter) : cursor = 0 \/ i < cursor}

Above(i, S) == {j \in S : j > i}

\* The first n rows in descending order of ids.
Top(S, n) == {i \in S : Cardinality(Above(i, S)) < n}

\* One row more than a page.
Fetched(filter, cursor) == Top(Below(filter, cursor), PageSize + 1)

\* Without the extra one.
Items(fetched) == Top(fetched, PageSize)

\* Mutant: a full page.
MoreIfFull(fetched) == Cardinality(fetched) >= PageSize

\* There is an extra one.
HasMore(fetched) == fetched # Items(fetched)

Lowest(S) == IF S = {} THEN 0 ELSE CHOOSE i \in S : \A j \in S : i <= j

\* Mutant: the last row before the extra one is cut off.
LastFetched(fetched) == Lowest(fetched)

LastId(fetched) == Lowest(Items(fetched))
-----------------------------------------------------------------------------
Init ==
    /\ nextId = 1
    /\ pending = [x \in Txs |-> {}]
    /\ rows = {}
    /\ forwarderOf = [i \in Ids |-> None]
    /\ latest = [i \in Ids |-> "scheduled"]
    /\ inputs = NoFilter
    /\ anchored = FALSE
    /\ answer = "nothing"
    /\ items = {}
    /\ hasMore = FALSE
    /\ lastId = 0
    /\ asked = NoFilter
    /\ listed = {}
    /\ steady = {}

(* The table *)

\* Mutant: the row is stored without its forwarder, as the webhook's is without its
\* service.
InsertUnnamed(x, f) ==
    /\ nextId \in Ids
    /\ nextId' = nextId + 1
    /\ pending' = [pending EXCEPT ![x] = @ \cup {nextId}]
    /\ UNCHANGED <<rows, forwarderOf, latest, client, steady>>

\* InsertWebhookTarget takes the next id at once, whenever it will be committed.
Insert(x, f) ==
    /\ nextId \in Ids
    /\ nextId' = nextId + 1
    /\ pending' = [pending EXCEPT ![x] = @ \cup {nextId}]
    /\ forwarderOf' = [forwarderOf EXCEPT ![nextId] = f]
    /\ UNCHANGED <<rows, latest, client, steady>>

\* The rows become visible with their first attempts.
Commit(x) ==
    /\ pending[x] # {}
    /\ pending' = [pending EXCEPT ![x] = {}]
    /\ rows' = rows \cup pending[x]
    /\ UNCHANGED <<nextId, forwarderOf, latest, client, steady>>

Rollback(x) ==
    /\ pending[x] # {}
    /\ pending' = [pending EXCEPT ![x] = {}]
    /\ UNCHANGED <<nextId, rows, forwarderOf, latest, client, steady>>

\* A row that stops to match what the client looks for is no longer its business.
StillSteady == steady' = {i \in steady : inputs.status \in {Blank, latest'[i]}}

\* Workers mark the most recent attempt, whatever it is marked already.
Mark(i, status) ==
    /\ i \in rows
    /\ latest' = [latest EXCEPT ![i] = status]
    /\ StillSteady
    /\ UNCHANGED <<nextId, pending, rows, forwarderOf, client>>

\* And insert another one, which is then the most recent.
ScheduleAttempt(i) ==
    /\ i \in rows
    /\ latest' = [latest EXCEPT ![i] = "scheduled"]
    /\ StillSteady
    /\ UNCHANGED <<nextId, pending, rows, forwarderOf, client>>

-----------------------------------------------------------------------------
(* deliveryAttemptsHandler *)

Show(filter, cursor) ==
    LET fetched == Fetched(filter, cursor)
    IN  /\ answer' = "list"
        /\ items' = Items(fetched)
        /\ hasMore' = HasMore(fetched)
        /\ lastId' = LastId(fetched)
        /\ asked' = filter

\* The cursor is no number, the query fails: the error takes the place of the list.
ShowError(filter) ==
    /\ answer' = "error"
    /\ items' = {}
    /\ hasMore' = FALSE
    /\ lastId' = 0
    /\ asked' = filter

FirstPage(filter) ==
    /\ \/ Show(filter, 0)
       \/ ShowError(filter)
    /\ listed' = items'
    /\ UNCHANGED db

NextPage ==
    /\ hasMore
    /\ \/ Show(inputs, lastId)
       \/ ShowError(inputs)
    /\ listed' = listed \cup items'
    /\ UNCHANGED <<db, inputs, steady>>

\* The dashboard is opened, or loaded again, and asks for everything.
OpenDashboard ==
    /\ inputs' = NoFilter
    /\ anchored' = TRUE
    /\ FirstPage(NoFilter)
    /\ steady' = Matching(NoFilter)

\* An input asks for its own value only, not for those of the others.
ChangeInput(field, value) ==
    /\ anchored
    /\ inputs[field] # value
    /\ inputs' = [inputs EXCEPT ![field] = value]
    /\ FirstPage([NoFilter EXCEPT ![field] = value])
    /\ steady' = Matching(inputs')
    /\ UNCHANGED anchored

\* The button sends the values of all inputs.  Its answer replaces the element with
\* the id results, and has none: no input and no button of this page works any more.
LoadMore ==
    /\ anchored
    /\ NextPage
    /\ anchored' = FALSE

\* A program asks for what the button would.
FollowCursor ==
    /\ NextPage
    /\ UNCHANGED anchored

Next ==
    \/ \E x \in Txs : \/ \E f \in Forwarders : Insert(x, f)
                      \/ Commit(x)
                      \/ Rollback(x)
    \/ \E i \in Ids : \/ \E outcome \in Outcomes : Mark(i, outcome)
                      \/ ScheduleAttempt(i)
    \/ OpenDashboard
    \/ \E s \in Services \cup {Blank} : ChangeInput("service", s)
    \/ \E f \in Forwarders \cup {Blank} : ChangeInput("forwarder", f)
    \/ \E s \in Statuses \cup {Blank} : ChangeInput("status", s)
    \/ LoadMore \/ FollowCursor

Spec == Init /\ [][Next]_vars
-----------------------------------------------------------------------------
(* What the pages show *)

\* Every variable keeps its type, and the client sees committed rows only, each of
\* which has its forwarder.
TypeOK ==
    /\ nextId \in Nat \ {0}
    /\ pending \in [Txs -> SUBSET Ids]
    /\ rows \subseteq Ids
    /\ forwarderOf \in [Ids -> Forwarders \cup {None}]
    /\ latest \in [Ids -> Statuses]
    /\ inputs \in Filters
    /\ anchored \in BOOLEAN
    /\ answer \in {"nothing", "list", "error"}
    /\ items \subseteq rows
    /\ hasMore \in BOOLEAN
    /\ lastId \in Ids \cup {0}
    /\ asked \in Filters
    /\ listed \subseteq rows
    /\ steady \subseteq rows
    /\ \A i \in rows : forwarderOf[i] # None

\* When no more rows are announced, the pages have shown every row that matched the
\* inputs from the first page on: those committed and changed in the meantime may
\* have been missed, but they hide no other.
WholeScan == answer = "list" /\ ~hasMore => steady \subseteq listed

\* No page shows a row that an earlier one has shown, although rows of other
\* transactions and other statuses come between them.
NoRowTwice == [][NextPage => items' \cap listed = {}]_vars

\* What is announced is there: the page after it is empty only when the filter asks for
\* a status, which may have changed, or the inputs hold more than was asked.
MoreIsMore ==
    [][NextPage /\ answer' = "list" /\ asked = inputs /\ inputs.status = Blank
          => items' # {}]_vars
=============================================================================
