---------------------------- MODULE IngestProofs ----------------------------
(***************************************************************************)
(* What Ingest keeps true for any number of requests, any configuration,   *)
(* any size of the pool and any number of faults, and that it implements   *)
(* WebhookLog.                                                             *)
(***************************************************************************)
EXTENDS Ingest, FiniteSetTheorems, TLAPS

-----------------------------------------------------------------------------
(* Types, and what a request has written at each statement *)

HasRow == {"key", "targets", "mark", "commit", "committed", "notify", "ok"}

\* What the transaction of request r has written, by the statement it is at.
Progress(r) ==
    /\ IF pc[r] \in HasRow THEN row[r] \in RowType /\ row[r].request = r
                           ELSE row[r] = NoRow
    /\ pc[r] \in {"body", "insert", "key", "targets", "mark", "commit"} =>
            service[r] \in ServicesByPath(RequestPath[r])
    /\ pc[r] = "key" => row[r].targets = {}
    /\ pc[r] \in {"targets", "mark", "commit"} =>
            row[r].keyed /\ row[r].targets \cup todo[r] = Config[service[r]]
    /\ pc[r] \in {"mark", "commit"} => todo[r] = {}
    /\ pc[r] = "commit" => row[r].status = "scheduled"
    /\ pc[r] \in {"committed", "notify", "ok"} => row[r] \in db

InProgress == \A r \in Requests : Progress(r)

\* A request is routed to a service of the configuration.
LEMMA Routing == \A path : ServicesByPath(path) \subseteq Services
BY DEF ServicesByPath

\* What is no row is not taken for one.
LEMMA NoRowFact == NoRow \notin RowType /\ NoRow.id = 0
BY DEF NoRow, RowType

\* The statements write fields of a row.
LEMMA RowUpdates ==
    ASSUME NEW x \in RowType
    PROVE  /\ x.id \in Nat
           /\ [x EXCEPT !.keyed = TRUE] \in RowType
           /\ [x EXCEPT !.status = "scheduled"] \in RowType
           /\ \A f \in UNION {Config[s] : s \in Services} :
                  [x EXCEPT !.targets = x.targets \cup {f}] \in RowType
BY DEF RowType

\* Every step keeps the types.
LEMMA TypeStep == TypeOK /\ InProgress /\ [Next]_vars => TypeOK'
<1> SUFFICES ASSUME TypeOK, InProgress, [Next]_vars PROVE TypeOK'
  OBVIOUS
<1> USE NoRowFact, Routing, BoundAssumption
<1>1. ASSUME NEW r \in Requests, Begin(r) PROVE TypeOK'
  BY <1>1
  DEF Begin, HasFreeConn, InProgress, Progress, HasRow, TypeOK, InTransaction,
     Statements, Answered
<1>2. ASSUME NEW r \in Requests, Route(r) PROVE TypeOK'
  BY <1>2
  DEF Route, InProgress, Progress, HasRow, TypeOK, InTransaction, Statements,
     Answered
<1>3. ASSUME NEW r \in Requests, NotFound(r) PROVE TypeOK'
  BY <1>3
  DEF NotFound, Fail, InProgress, Progress, HasRow, TypeOK, InTransaction,
     Statements, Answered
<1>4. ASSUME NEW r \in Requests, ReadBody(r) PROVE TypeOK'
  BY <1>4
  DEF ReadBody, InProgress, Progress, HasRow, TypeOK, InTransaction, Statements,
     Answered
<1>5. ASSUME NEW r \in Requests, BodyFails(r) PROVE TypeOK'
  BY <1>5
  DEF BodyFails, Fail, InProgress, Progress, HasRow, TypeOK, InTransaction,
     Statements, Answered
<1>6. ASSUME NEW r \in Requests, InsertWebhookEvent(r) PROVE TypeOK'
  <2> DEFINE new == [id |-> lastId + 1, request |-> r, status |-> "future",
                     keyed |-> FALSE, targets |-> {}]
  <2>1. new \in RowType
    BY DEF TypeOK, RowType
  <2>2. row' = [row EXCEPT ![r] = new] /\ lastId' = lastId + 1
    BY <1>6 DEF InsertWebhookEvent
  <2>3. QED
    BY <1>6, <2>1, <2>2 DEF InsertWebhookEvent, TypeOK, InTransaction, Statements
<1>7. ASSUME NEW r \in Requests, SetWebhookIdempotencyKey(r) PROVE TypeOK'
  <2>1. row[r] \in RowType
    BY <1>7 DEF SetWebhookIdempotencyKey, InProgress, Progress, HasRow
  <2>2. row' = [row EXCEPT ![r] = [row[r] EXCEPT !.keyed = TRUE]]
    BY <1>7 DEF SetWebhookIdempotencyKey
  <2>3. Config[service[r]] \subseteq UNION {Config[s] : s \in Services}
    BY <1>7, Routing DEF SetWebhookIdempotencyKey, InProgress, Progress
  <2>4. QED
    BY <1>7, <2>1, <2>2, <2>3, RowUpdates
    DEF SetWebhookIdempotencyKey, TypeOK, InTransaction, Statements
<1>8. ASSUME NEW r \in Requests, InsertTarget(r) PROVE TypeOK'
  <2>1. row[r] \in RowType
    BY <1>8 DEF InsertTarget, InProgress, Progress, HasRow
  <2>2. PICK f \in todo[r] :
            /\ row' = [row EXCEPT ![r] = [row[r] EXCEPT !.targets = row[r].targets \cup {f}]]
            /\ todo' = [todo EXCEPT ![r] = todo[r] \ {f}]
    BY <1>8 DEF InsertTarget
  <2>3. f \in UNION {Config[s] : s \in Services}
    BY DEF TypeOK
  <2>4. QED
    BY <1>8, <2>1, <2>2, <2>3, RowUpdates DEF InsertTarget, TypeOK
<1>9. ASSUME NEW r \in Requests, AttemptRejected(r) PROVE TypeOK'
  BY <1>9
  DEF AttemptRejected, Fail, InProgress, Progress, HasRow, TypeOK, InTransaction,
     Statements, Answered
<1>10. ASSUME NEW r \in Requests, LoopEnds(r) PROVE TypeOK'
  BY <1>10
  DEF LoopEnds, InProgress, Progress, HasRow, TypeOK, InTransaction, Statements,
     Answered
<1>11. ASSUME NEW r \in Requests, MarkWebhookAsScheduled(r) PROVE TypeOK'
  <2>1. row[r] \in RowType
    BY <1>11 DEF MarkWebhookAsScheduled, InProgress, Progress, HasRow
  <2>2. row' = [row EXCEPT ![r] = [row[r] EXCEPT !.status = "scheduled"]]
    BY <1>11 DEF MarkWebhookAsScheduled
  <2>3. QED
    BY <1>11, <2>1, <2>2, RowUpdates DEF MarkWebhookAsScheduled, TypeOK, InTransaction
<1>12. ASSUME NEW r \in Requests, Commit(r) PROVE TypeOK'
  BY <1>12
  DEF Commit, InProgress, Progress, HasRow, TypeOK, InTransaction, Statements,
     Answered
<1>13. ASSUME NEW r \in Requests, GetConn(r) PROVE TypeOK'
  BY <1>13
  DEF GetConn, HasFreeConn, InProgress, Progress, HasRow, TypeOK, InTransaction,
     Statements, Answered
<1>14. ASSUME NEW r \in Requests, Notify(r) PROVE TypeOK'
  <2>1. row[r].id \in Nat
    BY <1>14, RowUpdates DEF Notify, InProgress, Progress, HasRow
  <2>2. QED
    BY <1>14, <2>1 DEF Notify, TypeOK, Answered
<1>15. ASSUME NEW r \in Requests, StatementFails(r) PROVE TypeOK'
  BY <1>15
  DEF StatementFails, Fail, Fault, InProgress, Progress, HasRow, TypeOK,
     InTransaction, Statements, Answered
<1>16. ASSUME NEW r \in Requests, CommitFails(r) PROVE TypeOK'
  BY <1>16
  DEF CommitFails, Fail, Fault, InProgress, Progress, HasRow, TypeOK, InTransaction,
     Statements, Answered
<1>17. ASSUME NEW r \in Requests, NotifyFails(r) PROVE TypeOK'
  <2>1. row[r].id \in Nat
    BY <1>17, RowUpdates DEF NotifyFails, InProgress, Progress, HasRow
  <2>2. QED
    BY <1>17, <2>1 DEF NotifyFails, Fault, TypeOK, Answered
<1>18. ASSUME Crash PROVE TypeOK'
  BY <1>18
  DEF Crash, Fault, InProgress, Progress, HasRow, TypeOK, InTransaction, Statements,
     Answered
<1>19. ASSUME UNCHANGED vars PROVE TypeOK'
  BY <1>19 DEF vars, reqVars, InProgress, Progress, HasRow, TypeOK, InTransaction,
     Statements, Answered
<1>20. QED
  BY <1>1, <1>2, <1>3, <1>4, <1>5, <1>6, <1>7, <1>8, <1>9, <1>10, <1>11, <1>12,
     <1>13, <1>14, <1>15, <1>16, <1>17, <1>18, <1>19 DEF Next, Handle, NextTarget


\* Every step keeps what the requests have written.
LEMMA ProgressStep == TypeOK /\ InProgress /\ [Next]_vars => InProgress'
<1> SUFFICES ASSUME TypeOK, InProgress, [Next]_vars, NEW q \in Requests PROVE Progress(q)'
  BY DEF InProgress
<1> USE NoRowFact
<1>1. ASSUME NEW r \in Requests, Begin(r) PROVE Progress(q)'
  BY <1>1 DEF Begin, HasFreeConn, TypeOK, InProgress, Progress, HasRow
<1>2. ASSUME NEW r \in Requests, Route(r) PROVE Progress(q)'
  BY <1>2 DEF Route, TypeOK, InProgress, Progress, HasRow
<1>3. ASSUME NEW r \in Requests, NotFound(r) PROVE Progress(q)'
  BY <1>3 DEF NotFound, Fail, TypeOK, InProgress, Progress, HasRow
<1>4. ASSUME NEW r \in Requests, ReadBody(r) PROVE Progress(q)'
  BY <1>4 DEF ReadBody, TypeOK, InProgress, Progress, HasRow
<1>5. ASSUME NEW r \in Requests, BodyFails(r) PROVE Progress(q)'
  BY <1>5 DEF BodyFails, Fail, TypeOK, InProgress, Progress, HasRow
<1>6. ASSUME NEW r \in Requests, InsertWebhookEvent(r) PROVE Progress(q)'
  <2>1. CASE q # r
    BY <1>6, <2>1 DEF InsertWebhookEvent, TypeOK, InProgress, Progress, HasRow
  <2>2. CASE q = r
    <3> DEFINE new == [id |-> lastId + 1, request |-> r, status |-> "future",
                       keyed |-> FALSE, targets |-> {}]
    <3>1. new \in RowType
      BY DEF TypeOK, RowType
    <3>2. row'[r] = new
      BY <1>6 DEF InsertWebhookEvent, TypeOK
    <3>3. QED
      BY <1>6, <2>2, <3>1, <3>2 DEF InsertWebhookEvent, TypeOK, InProgress, Progress, HasRow
  <2>3. QED
    BY <2>1, <2>2
<1>7. ASSUME NEW r \in Requests, SetWebhookIdempotencyKey(r) PROVE Progress(q)'
  <2>1. CASE q # r
    BY <1>7, <2>1 DEF SetWebhookIdempotencyKey, TypeOK, InProgress, Progress, HasRow
  <2>2. CASE q = r
    <3>1. row[r] \in RowType /\ row[r].request = r
      BY <1>7 DEF SetWebhookIdempotencyKey, InProgress, Progress, HasRow
    <3>2. row'[r] = [row[r] EXCEPT !.keyed = TRUE]
      BY <1>7 DEF SetWebhookIdempotencyKey, TypeOK
    <3>4. row'[r] \in RowType /\ row'[r].request = r
      BY <3>1, <3>2, RowUpdates DEF RowType
    <3>5. QED
      BY <1>7, <2>2, <3>1, <3>2, <3>4 DEF SetWebhookIdempotencyKey, TypeOK, InProgress, Progress, HasRow, RowType
  <2>3. QED
    BY <2>1, <2>2
<1>8. ASSUME NEW r \in Requests, InsertTarget(r) PROVE Progress(q)'
  <2>1. CASE q # r
    BY <1>8, <2>1 DEF InsertTarget, TypeOK, InProgress, Progress, HasRow
  <2>2. CASE q = r
    <3>1. row[r] \in RowType /\ row[r].request = r
      BY <1>8 DEF InsertTarget, InProgress, Progress, HasRow
    <3>3. PICK f \in todo[r] :
              /\ row' = [row EXCEPT ![r] = [row[r] EXCEPT !.targets = row[r].targets \cup {f}]]
              /\ todo' = [todo EXCEPT ![r] = todo[r] \ {f}]
              /\ f \in UNION {Config[s] : s \in Services}
      BY <1>8 DEF InsertTarget, TypeOK
    <3>2. row'[r] = [row[r] EXCEPT !.targets = row[r].targets \cup {f}]
      BY <1>8, <3>3 DEF InsertTarget, TypeOK
    <3>4. row'[r] \in RowType /\ row'[r].request = r
      BY <3>1, <3>2, RowUpdates, <3>3 DEF RowType
    <3>5. QED
      BY <1>8, <2>2, <3>1, <3>2, <3>4, <3>3 DEF InsertTarget, TypeOK, InProgress, Progress, HasRow, RowType
  <2>3. QED
    BY <2>1, <2>2
<1>9. ASSUME NEW r \in Requests, AttemptRejected(r) PROVE Progress(q)'
  BY <1>9 DEF AttemptRejected, Fail, TypeOK, InProgress, Progress, HasRow
<1>10. ASSUME NEW r \in Requests, LoopEnds(r) PROVE Progress(q)'
  BY <1>10 DEF LoopEnds, TypeOK, InProgress, Progress, HasRow
<1>11. ASSUME NEW r \in Requests, MarkWebhookAsScheduled(r) PROVE Progress(q)'
  <2>1. CASE q # r
    BY <1>11, <2>1 DEF MarkWebhookAsScheduled, TypeOK, InProgress, Progress, HasRow
  <2>2. CASE q = r
    <3>1. row[r] \in RowType /\ row[r].request = r
      BY <1>11 DEF MarkWebhookAsScheduled, InProgress, Progress, HasRow
    <3>2. row'[r] = [row[r] EXCEPT !.status = "scheduled"]
      BY <1>11 DEF MarkWebhookAsScheduled, TypeOK
    <3>4. row'[r] \in RowType /\ row'[r].request = r
      BY <3>1, <3>2, RowUpdates DEF RowType
    <3>5. QED
      BY <1>11, <2>2, <3>1, <3>2, <3>4 DEF MarkWebhookAsScheduled, TypeOK, InProgress, Progress, HasRow, RowType
  <2>3. QED
    BY <2>1, <2>2
<1>12. ASSUME NEW r \in Requests, Commit(r) PROVE Progress(q)'
  BY <1>12 DEF Commit, TypeOK, InProgress, Progress, HasRow
<1>13. ASSUME NEW r \in Requests, GetConn(r) PROVE Progress(q)'
  BY <1>13 DEF GetConn, HasFreeConn, TypeOK, InProgress, Progress, HasRow
<1>14. ASSUME NEW r \in Requests, Notify(r) PROVE Progress(q)'
  BY <1>14 DEF Notify, TypeOK, InProgress, Progress, HasRow
<1>15. ASSUME NEW r \in Requests, StatementFails(r) PROVE Progress(q)'
  BY <1>15 DEF StatementFails, Fail, Fault, TypeOK, InProgress, Progress, HasRow
<1>16. ASSUME NEW r \in Requests, CommitFails(r) PROVE Progress(q)'
  BY <1>16 DEF CommitFails, Fail, Fault, TypeOK, InProgress, Progress, HasRow
<1>17. ASSUME NEW r \in Requests, NotifyFails(r) PROVE Progress(q)'
  BY <1>17 DEF NotifyFails, Fault, TypeOK, InProgress, Progress, HasRow
<1>18. ASSUME Crash PROVE Progress(q)'
  BY <1>18
  DEF Crash, Fault, TypeOK, InProgress, Progress, HasRow
<1>19. ASSUME UNCHANGED vars PROVE Progress(q)'
  BY <1>19 DEF vars, reqVars, TypeOK, InProgress, Progress, HasRow
<1>20. QED
  BY <1>1, <1>2, <1>3, <1>4, <1>5, <1>6, <1>7, <1>8, <1>9, <1>10, <1>11, <1>12,
     <1>13, <1>14, <1>15, <1>16, <1>17, <1>18, <1>19 DEF Next, Handle, NextTarget


-----------------------------------------------------------------------------
(* The committed rows *)

\* A webhook is committed once its request has got past the commit.
PastCommit == \A x \in db : pc[x.request] \in {"committed", "notify", "ok", "error"}

\* Every step keeps the committed webhooks complete.
LEMMA StoredStep ==
    TypeOK /\ InProgress /\ PastCommit /\ AllOrNothing /\ [Next]_vars
        => PastCommit' /\ AllOrNothing'
<1> DEFINE Stored == PastCommit /\ AllOrNothing
<1> SUFFICES ASSUME TypeOK, InProgress, PastCommit, AllOrNothing, [Next]_vars PROVE Stored'
  OBVIOUS
<1>0. \A x \in db : x.request \in Requests
  BY DEF TypeOK, RowType
<1> USE <1>0
<1>1. ASSUME NEW r \in Requests, Begin(r) PROVE Stored'
  BY <1>1
  DEF Begin, HasFreeConn, TypeOK, PastCommit, AllOrNothing, InProgress, Progress,
     HasRow
<1>2. ASSUME NEW r \in Requests, Route(r) PROVE Stored'
  BY <1>2 DEF Route, TypeOK, PastCommit, AllOrNothing, InProgress, Progress, HasRow
<1>3. ASSUME NEW r \in Requests, NotFound(r) PROVE Stored'
  BY <1>3
  DEF NotFound, Fail, TypeOK, PastCommit, AllOrNothing, InProgress, Progress, HasRow
<1>4. ASSUME NEW r \in Requests, ReadBody(r) PROVE Stored'
  BY <1>4 DEF ReadBody, TypeOK, PastCommit, AllOrNothing, InProgress, Progress, HasRow
<1>5. ASSUME NEW r \in Requests, BodyFails(r) PROVE Stored'
  BY <1>5
  DEF BodyFails, Fail, TypeOK, PastCommit, AllOrNothing, InProgress, Progress,
     HasRow
<1>6. ASSUME NEW r \in Requests, InsertWebhookEvent(r) PROVE Stored'
  BY <1>6
  DEF InsertWebhookEvent, TypeOK, PastCommit, AllOrNothing, InProgress, Progress,
     HasRow
<1>7. ASSUME NEW r \in Requests, SetWebhookIdempotencyKey(r) PROVE Stored'
  BY <1>7
  DEF SetWebhookIdempotencyKey, TypeOK, PastCommit, AllOrNothing, InProgress,
     Progress, HasRow
<1>8. ASSUME NEW r \in Requests, InsertTarget(r) PROVE Stored'
  BY <1>8
  DEF InsertTarget, TypeOK, PastCommit, AllOrNothing, InProgress, Progress, HasRow
<1>9. ASSUME NEW r \in Requests, AttemptRejected(r) PROVE Stored'
  BY <1>9
  DEF AttemptRejected, Fail, TypeOK, PastCommit, AllOrNothing, InProgress, Progress,
     HasRow
<1>10. ASSUME NEW r \in Requests, LoopEnds(r) PROVE Stored'
  BY <1>10 DEF LoopEnds, TypeOK, PastCommit, AllOrNothing, InProgress, Progress, HasRow
<1>11. ASSUME NEW r \in Requests, MarkWebhookAsScheduled(r) PROVE Stored'
  BY <1>11
  DEF MarkWebhookAsScheduled, TypeOK, PastCommit, AllOrNothing, InProgress, Progress,
     HasRow
<1>12. ASSUME NEW r \in Requests, Commit(r) PROVE Stored'
  <2>1. /\ row[r].request = r /\ row[r].keyed /\ row[r].status = "scheduled"
        /\ row[r].targets = Config[service[r]]
        /\ service[r] \in ServicesByPath(RequestPath[r])
    BY <1>12 DEF Commit, InProgress, Progress, HasRow
  <2>2. db' \subseteq db \cup {row[r]}
    BY <1>12 DEF Commit
  <2>3. AllOrNothing'
    BY <2>1, <2>2 DEF AllOrNothing
  <2>4. PastCommit'
    BY <1>12, <2>1, <2>2 DEF Commit, PastCommit, TypeOK
  <2>5. QED
    BY <2>3, <2>4
<1>13. ASSUME NEW r \in Requests, GetConn(r) PROVE Stored'
  BY <1>13
  DEF GetConn, HasFreeConn, TypeOK, PastCommit, AllOrNothing, InProgress, Progress,
     HasRow
<1>14. ASSUME NEW r \in Requests, Notify(r) PROVE Stored'
  BY <1>14 DEF Notify, TypeOK, PastCommit, AllOrNothing, InProgress, Progress, HasRow
<1>15. ASSUME NEW r \in Requests, StatementFails(r) PROVE Stored'
  BY <1>15
  DEF StatementFails, Fail, Fault, TypeOK, PastCommit, AllOrNothing, InProgress,
     Progress, HasRow
<1>16. ASSUME NEW r \in Requests, CommitFails(r) PROVE Stored'
  <2>1. /\ row[r].request = r /\ row[r].keyed /\ row[r].status = "scheduled"
        /\ row[r].targets = Config[service[r]]
        /\ service[r] \in ServicesByPath(RequestPath[r])
    BY <1>16 DEF CommitFails, InProgress, Progress, HasRow
  <2>2. db' \subseteq db \cup {row[r]}
    BY <1>16 DEF CommitFails
  <2>3. AllOrNothing'
    BY <2>1, <2>2 DEF AllOrNothing
  <2>4. PastCommit'
    BY <1>16, <2>1, <2>2 DEF CommitFails, Fail, PastCommit, TypeOK
  <2>5. QED
    BY <2>3, <2>4
<1>17. ASSUME NEW r \in Requests, NotifyFails(r) PROVE Stored'
  BY <1>17
  DEF NotifyFails, Fault, TypeOK, PastCommit, AllOrNothing, InProgress, Progress,
     HasRow
<1>18. ASSUME Crash PROVE Stored'
  BY <1>18
  DEF Crash, Fault, TypeOK, PastCommit, AllOrNothing, InProgress, Progress, HasRow
<1>19. ASSUME UNCHANGED vars PROVE Stored'
  BY <1>19 DEF vars, reqVars, TypeOK, PastCommit, AllOrNothing, InProgress, Progress,
     HasRow
<1>20. QED
  BY <1>1, <1>2, <1>3, <1>4, <1>5, <1>6, <1>7, <1>8, <1>9, <1>10, <1>11, <1>12,
     <1>13, <1>14, <1>15, <1>16, <1>17, <1>18, <1>19 DEF Next, Handle, NextTarget

-----------------------------------------------------------------------------
(* Ids *)

\* The sequence gives every row an id of its own, whether it is committed or not.
Ids ==
    /\ \A x \in db : x.id <= lastId
    /\ \A r \in Requests : pc[r] \in HasRow => row[r].id <= lastId
    /\ \A x, y \in db : x.id = y.id \/ x.request = y.request => x = y
    /\ \A x \in db, r \in Requests : pc[r] \in HasRow /\ x.id = row[r].id => x = row[r]
    /\ \A q, r \in Requests :
          pc[q] \in HasRow /\ pc[r] \in HasRow /\ row[q].id = row[r].id => q = r

\* Every step keeps them apart.
LEMMA IdsStep == TypeOK /\ InProgress /\ PastCommit /\ Ids /\ [Next]_vars => Ids'
<1> SUFFICES ASSUME TypeOK, InProgress, PastCommit, Ids, [Next]_vars PROVE Ids'
  OBVIOUS
<1>0. /\ lastId \in Nat
      /\ \A x \in db : x.request \in Requests /\ x.id \in Nat
      /\ \A r \in Requests : pc[r] \in HasRow => row[r].id \in Nat /\ row[r].request = r
  BY DEF TypeOK, RowType, InProgress, Progress
<1> USE <1>0
<1>1. ASSUME NEW r \in Requests, Begin(r) PROVE Ids'
  BY <1>1 DEF Begin, HasFreeConn, TypeOK, PastCommit, Ids, InProgress, Progress, HasRow
<1>2. ASSUME NEW r \in Requests, Route(r) PROVE Ids'
  BY <1>2 DEF Route, TypeOK, PastCommit, Ids, InProgress, Progress, HasRow
<1>3. ASSUME NEW r \in Requests, NotFound(r) PROVE Ids'
  BY <1>3 DEF NotFound, Fail, TypeOK, PastCommit, Ids, InProgress, Progress, HasRow
<1>4. ASSUME NEW r \in Requests, ReadBody(r) PROVE Ids'
  BY <1>4 DEF ReadBody, TypeOK, PastCommit, Ids, InProgress, Progress, HasRow
<1>5. ASSUME NEW r \in Requests, BodyFails(r) PROVE Ids'
  BY <1>5 DEF BodyFails, Fail, TypeOK, PastCommit, Ids, InProgress, Progress, HasRow
<1>6. ASSUME NEW r \in Requests, InsertWebhookEvent(r) PROVE Ids'
  BY <1>6 DEF InsertWebhookEvent, TypeOK, PastCommit, Ids, InProgress, Progress, HasRow
<1>7. ASSUME NEW r \in Requests, SetWebhookIdempotencyKey(r) PROVE Ids'
  BY <1>7
  DEF SetWebhookIdempotencyKey, TypeOK, PastCommit, Ids, InProgress, Progress,
     HasRow
<1>8. ASSUME NEW r \in Requests, InsertTarget(r) PROVE Ids'
  BY <1>8 DEF InsertTarget, TypeOK, PastCommit, Ids, InProgress, Progress, HasRow
<1>9. ASSUME NEW r \in Requests, AttemptRejected(r) PROVE Ids'
  BY <1>9
  DEF AttemptRejected, Fail, TypeOK, PastCommit, Ids, InProgress, Progress, HasRow
<1>10. ASSUME NEW r \in Requests, LoopEnds(r) PROVE Ids'
  BY <1>10 DEF LoopEnds, TypeOK, PastCommit, Ids, InProgress, Progress, HasRow
<1>11. ASSUME NEW r \in Requests, MarkWebhookAsScheduled(r) PROVE Ids'
  BY <1>11
  DEF MarkWebhookAsScheduled, TypeOK, PastCommit, Ids, InProgress, Progress, HasRow
<1>12. ASSUME NEW r \in Requests, Commit(r) PROVE Ids'
  BY <1>12 DEF Commit, TypeOK, PastCommit, Ids, InProgress, Progress, HasRow
<1>13. ASSUME NEW r \in Requests, GetConn(r) PROVE Ids'
  BY <1>13
  DEF GetConn, HasFreeConn, TypeOK, PastCommit, Ids, InProgress, Progress, HasRow
<1>14. ASSUME NEW r \in Requests, Notify(r) PROVE Ids'
  BY <1>14 DEF Notify, TypeOK, PastCommit, Ids, InProgress, Progress, HasRow
<1>15. ASSUME NEW r \in Requests, StatementFails(r) PROVE Ids'
  BY <1>15
  DEF StatementFails, Fail, Fault, TypeOK, PastCommit, Ids, InProgress, Progress,
     HasRow
<1>16. ASSUME NEW r \in Requests, CommitFails(r) PROVE Ids'
  BY <1>16
  DEF CommitFails, Fail, Fault, TypeOK, PastCommit, Ids, InProgress, Progress,
     HasRow
<1>17. ASSUME NEW r \in Requests, NotifyFails(r) PROVE Ids'
  BY <1>17 DEF NotifyFails, Fault, TypeOK, PastCommit, Ids, InProgress, Progress, HasRow
<1>18. ASSUME Crash PROVE Ids'
  BY <1>18
  DEF Crash, Fault, TypeOK, PastCommit, Ids, InProgress, Progress, HasRow
<1>19. ASSUME UNCHANGED vars PROVE Ids'
  BY <1>19 DEF vars, reqVars, TypeOK, PastCommit, Ids, InProgress, Progress, HasRow
<1>20. QED
  BY <1>1, <1>2, <1>3, <1>4, <1>5, <1>6, <1>7, <1>8, <1>9, <1>10, <1>11, <1>12,
     <1>13, <1>14, <1>15, <1>16, <1>17, <1>18, <1>19 DEF Next, Handle, NextTarget

-----------------------------------------------------------------------------
(* Notifications and connections *)

\* Every step keeps the notified webhooks visible.
LEMMA NotifiedStep ==
    TypeOK /\ InProgress /\ NotifiedIsVisible /\ [Next]_vars => NotifiedIsVisible'
<1> SUFFICES ASSUME TypeOK, InProgress, NotifiedIsVisible, [Next]_vars
             PROVE  NotifiedIsVisible'
  OBVIOUS
<1>1. ASSUME NEW r \in Requests, Begin(r) PROVE NotifiedIsVisible'
  BY <1>1
  DEF Begin, HasFreeConn, TypeOK, NotifiedIsVisible, InProgress, Progress, HasRow
<1>2. ASSUME NEW r \in Requests, Route(r) PROVE NotifiedIsVisible'
  BY <1>2 DEF Route, TypeOK, NotifiedIsVisible, InProgress, Progress, HasRow
<1>3. ASSUME NEW r \in Requests, NotFound(r) PROVE NotifiedIsVisible'
  BY <1>3 DEF NotFound, Fail, TypeOK, NotifiedIsVisible, InProgress, Progress, HasRow
<1>4. ASSUME NEW r \in Requests, ReadBody(r) PROVE NotifiedIsVisible'
  BY <1>4 DEF ReadBody, TypeOK, NotifiedIsVisible, InProgress, Progress, HasRow
<1>5. ASSUME NEW r \in Requests, BodyFails(r) PROVE NotifiedIsVisible'
  BY <1>5 DEF BodyFails, Fail, TypeOK, NotifiedIsVisible, InProgress, Progress, HasRow
<1>6. ASSUME NEW r \in Requests, InsertWebhookEvent(r) PROVE NotifiedIsVisible'
  BY <1>6
  DEF InsertWebhookEvent, TypeOK, NotifiedIsVisible, InProgress, Progress, HasRow
<1>7. ASSUME NEW r \in Requests, SetWebhookIdempotencyKey(r) PROVE NotifiedIsVisible'
  BY <1>7
  DEF SetWebhookIdempotencyKey, TypeOK, NotifiedIsVisible, InProgress, Progress,
     HasRow
<1>8. ASSUME NEW r \in Requests, InsertTarget(r) PROVE NotifiedIsVisible'
  BY <1>8 DEF InsertTarget, TypeOK, NotifiedIsVisible, InProgress, Progress, HasRow
<1>9. ASSUME NEW r \in Requests, AttemptRejected(r) PROVE NotifiedIsVisible'
  BY <1>9
  DEF AttemptRejected, Fail, TypeOK, NotifiedIsVisible, InProgress, Progress, HasRow
<1>10. ASSUME NEW r \in Requests, LoopEnds(r) PROVE NotifiedIsVisible'
  BY <1>10 DEF LoopEnds, TypeOK, NotifiedIsVisible, InProgress, Progress, HasRow
<1>11. ASSUME NEW r \in Requests, MarkWebhookAsScheduled(r) PROVE NotifiedIsVisible'
  BY <1>11
  DEF MarkWebhookAsScheduled, TypeOK, NotifiedIsVisible, InProgress, Progress,
     HasRow
<1>12. ASSUME NEW r \in Requests, Commit(r) PROVE NotifiedIsVisible'
  BY <1>12 DEF Commit, TypeOK, NotifiedIsVisible, InProgress, Progress, HasRow
<1>13. ASSUME NEW r \in Requests, GetConn(r) PROVE NotifiedIsVisible'
  BY <1>13
  DEF GetConn, HasFreeConn, TypeOK, NotifiedIsVisible, InProgress, Progress, HasRow
<1>14. ASSUME NEW r \in Requests, Notify(r) PROVE NotifiedIsVisible'
  BY <1>14 DEF Notify, TypeOK, NotifiedIsVisible, InProgress, Progress, HasRow
<1>15. ASSUME NEW r \in Requests, StatementFails(r) PROVE NotifiedIsVisible'
  BY <1>15
  DEF StatementFails, Fail, Fault, TypeOK, NotifiedIsVisible, InProgress, Progress,
     HasRow
<1>16. ASSUME NEW r \in Requests, CommitFails(r) PROVE NotifiedIsVisible'
  BY <1>16
  DEF CommitFails, Fail, Fault, TypeOK, NotifiedIsVisible, InProgress, Progress,
     HasRow
<1>17. ASSUME NEW r \in Requests, NotifyFails(r) PROVE NotifiedIsVisible'
  BY <1>17
  DEF NotifyFails, Fault, TypeOK, NotifiedIsVisible, InProgress, Progress, HasRow
<1>18. ASSUME Crash PROVE NotifiedIsVisible'
  BY <1>18
  DEF Crash, Fault, TypeOK, NotifiedIsVisible, InProgress, Progress, HasRow
<1>19. ASSUME UNCHANGED vars PROVE NotifiedIsVisible'
  BY <1>19 DEF vars, reqVars, TypeOK, NotifiedIsVisible, InProgress, Progress,
     HasRow
<1>20. QED
  BY <1>1, <1>2, <1>3, <1>4, <1>5, <1>6, <1>7, <1>8, <1>9, <1>10, <1>11, <1>12,
     <1>13, <1>14, <1>15, <1>16, <1>17, <1>18, <1>19 DEF Next, Handle, NextTarget

\* The requests that are at a place where the code holds a connection.
Holding == {r \in Requests : pc[r] \in InTransaction \cup {"notify"}}

\* A connection is held at these places and nowhere else.
LEMMA HeldStep == TypeOK /\ held = Holding /\ [Next]_vars => held' = Holding'
<1> SUFFICES ASSUME TypeOK, held = Holding, [Next]_vars PROVE (held = Holding)'
  OBVIOUS
<1>1. ASSUME NEW r \in Requests, Begin(r) PROVE (held = Holding)'
  BY <1>1 DEF Begin, HasFreeConn, TypeOK, Holding, InTransaction, Statements, Answered
<1>2. ASSUME NEW r \in Requests, Route(r) PROVE (held = Holding)'
  BY <1>2 DEF Route, TypeOK, Holding, InTransaction, Statements, Answered
<1>3. ASSUME NEW r \in Requests, NotFound(r) PROVE (held = Holding)'
  BY <1>3 DEF NotFound, Fail, TypeOK, Holding, InTransaction, Statements, Answered
<1>4. ASSUME NEW r \in Requests, ReadBody(r) PROVE (held = Holding)'
  BY <1>4 DEF ReadBody, TypeOK, Holding, InTransaction, Statements, Answered
<1>5. ASSUME NEW r \in Requests, BodyFails(r) PROVE (held = Holding)'
  BY <1>5 DEF BodyFails, Fail, TypeOK, Holding, InTransaction, Statements, Answered
<1>6. ASSUME NEW r \in Requests, InsertWebhookEvent(r) PROVE (held = Holding)'
  BY <1>6 DEF InsertWebhookEvent, TypeOK, Holding, InTransaction, Statements, Answered
<1>7. ASSUME NEW r \in Requests, SetWebhookIdempotencyKey(r) PROVE (held = Holding)'
  BY <1>7
  DEF SetWebhookIdempotencyKey, TypeOK, Holding, InTransaction, Statements, Answered
<1>8. ASSUME NEW r \in Requests, InsertTarget(r) PROVE (held = Holding)'
  BY <1>8 DEF InsertTarget, TypeOK, Holding, InTransaction, Statements, Answered
<1>9. ASSUME NEW r \in Requests, AttemptRejected(r) PROVE (held = Holding)'
  BY <1>9
  DEF AttemptRejected, Fail, TypeOK, Holding, InTransaction, Statements, Answered
<1>10. ASSUME NEW r \in Requests, LoopEnds(r) PROVE (held = Holding)'
  BY <1>10 DEF LoopEnds, TypeOK, Holding, InTransaction, Statements, Answered
<1>11. ASSUME NEW r \in Requests, MarkWebhookAsScheduled(r) PROVE (held = Holding)'
  BY <1>11
  DEF MarkWebhookAsScheduled, TypeOK, Holding, InTransaction, Statements, Answered
<1>12. ASSUME NEW r \in Requests, Commit(r) PROVE (held = Holding)'
  BY <1>12 DEF Commit, TypeOK, Holding, InTransaction, Statements, Answered
<1>13. ASSUME NEW r \in Requests, GetConn(r) PROVE (held = Holding)'
  BY <1>13
  DEF GetConn, HasFreeConn, TypeOK, Holding, InTransaction, Statements, Answered
<1>14. ASSUME NEW r \in Requests, Notify(r) PROVE (held = Holding)'
  BY <1>14 DEF Notify, TypeOK, Holding, InTransaction, Statements, Answered
<1>15. ASSUME NEW r \in Requests, StatementFails(r) PROVE (held = Holding)'
  BY <1>15
  DEF StatementFails, Fail, Fault, TypeOK, Holding, InTransaction, Statements,
     Answered
<1>16. ASSUME NEW r \in Requests, CommitFails(r) PROVE (held = Holding)'
  BY <1>16
  DEF CommitFails, Fail, Fault, TypeOK, Holding, InTransaction, Statements, Answered
<1>17. ASSUME NEW r \in Requests, NotifyFails(r) PROVE (held = Holding)'
  BY <1>17 DEF NotifyFails, Fault, TypeOK, Holding, InTransaction, Statements, Answered
<1>18. ASSUME Crash PROVE (held = Holding)'
  BY <1>18
  DEF Crash, Fault, TypeOK, Holding, InTransaction, Statements, Answered
<1>19. ASSUME UNCHANGED vars PROVE (held = Holding)'
  BY <1>19 DEF vars, reqVars, TypeOK, Holding, InTransaction, Statements, Answered
<1>20. QED
  BY <1>1, <1>2, <1>3, <1>4, <1>5, <1>6, <1>7, <1>8, <1>9, <1>10, <1>11, <1>12,
     <1>13, <1>14, <1>15, <1>16, <1>17, <1>18, <1>19 DEF Next, Handle, NextTarget

\* The pool's bound: held is finite and no larger than the pool.
Within == IsFiniteSet(held) /\ Cardinality(held) <= MaxConns

\* A connection is taken only when one is free.
LEMMA WithinStep == Within /\ [Next]_vars => Within'
<1> SUFFICES ASSUME Within, [Next]_vars PROVE Within'
  OBVIOUS
<1> USE PoolAssumption
<1>a. \A r : Cardinality(held \ {r}) <= MaxConns /\ IsFiniteSet(held \ {r})
  <2>1. ASSUME NEW r, r \in held
        PROVE  Cardinality(held \ {r}) <= MaxConns /\ IsFiniteSet(held \ {r})
    <3>1. /\ IsFiniteSet(held \ {r})
          /\ Cardinality(held \ {r}) = Cardinality(held) - 1
      BY <2>1, FS_RemoveElement DEF Within
    <3>2. Cardinality(held) \in Nat
      BY FS_CardinalityType DEF Within
    <3>3. QED
      BY <3>1, <3>2 DEF Within
  <2>2. ASSUME NEW r, r \notin held PROVE held \ {r} = held
    BY <2>2
  <2>3. QED
    BY <2>1, <2>2 DEF Within
<1>b. \A r : Cardinality(held) < MaxConns =>
                Cardinality(held \cup {r}) <= MaxConns /\ IsFiniteSet(held \cup {r})
  BY FS_AddElement, FS_CardinalityType DEF Within
<1>c. Cardinality({}) <= MaxConns /\ IsFiniteSet({})
  BY FS_EmptySet
<1> USE <1>a, <1>b, <1>c
<1>1. ASSUME NEW r \in Requests, Begin(r) PROVE Within'
  BY <1>1 DEF Begin, HasFreeConn, Within
<1>2. ASSUME NEW r \in Requests, Route(r) PROVE Within'
  BY <1>2 DEF Route, Within
<1>3. ASSUME NEW r \in Requests, NotFound(r) PROVE Within'
  BY <1>3 DEF NotFound, Fail, Within
<1>4. ASSUME NEW r \in Requests, ReadBody(r) PROVE Within'
  BY <1>4 DEF ReadBody, Within
<1>5. ASSUME NEW r \in Requests, BodyFails(r) PROVE Within'
  BY <1>5 DEF BodyFails, Fail, Within
<1>6. ASSUME NEW r \in Requests, InsertWebhookEvent(r) PROVE Within'
  BY <1>6 DEF InsertWebhookEvent, Within
<1>7. ASSUME NEW r \in Requests, SetWebhookIdempotencyKey(r) PROVE Within'
  BY <1>7 DEF SetWebhookIdempotencyKey, Within
<1>8. ASSUME NEW r \in Requests, InsertTarget(r) PROVE Within'
  BY <1>8 DEF InsertTarget, Within
<1>9. ASSUME NEW r \in Requests, AttemptRejected(r) PROVE Within'
  BY <1>9 DEF AttemptRejected, Fail, Within
<1>10. ASSUME NEW r \in Requests, LoopEnds(r) PROVE Within'
  BY <1>10 DEF LoopEnds, Within
<1>11. ASSUME NEW r \in Requests, MarkWebhookAsScheduled(r) PROVE Within'
  BY <1>11 DEF MarkWebhookAsScheduled, Within
<1>12. ASSUME NEW r \in Requests, Commit(r) PROVE Within'
  BY <1>12 DEF Commit, Within
<1>13. ASSUME NEW r \in Requests, GetConn(r) PROVE Within'
  BY <1>13 DEF GetConn, HasFreeConn, Within
<1>14. ASSUME NEW r \in Requests, Notify(r) PROVE Within'
  BY <1>14 DEF Notify, Within
<1>15. ASSUME NEW r \in Requests, StatementFails(r) PROVE Within'
  BY <1>15 DEF StatementFails, Fail, Fault, Within
<1>16. ASSUME NEW r \in Requests, CommitFails(r) PROVE Within'
  BY <1>16 DEF CommitFails, Fail, Fault, Within
<1>17. ASSUME NEW r \in Requests, NotifyFails(r) PROVE Within'
  BY <1>17 DEF NotifyFails, Fault, Within
<1>18. ASSUME Crash PROVE Within'
  BY <1>18
  DEF Crash, Fault, Within
<1>19. ASSUME UNCHANGED vars PROVE Within'
  BY <1>19 DEF vars, reqVars, Within
<1>20. QED
  BY <1>1, <1>2, <1>3, <1>4, <1>5, <1>6, <1>7, <1>8, <1>9, <1>10, <1>11, <1>12,
     <1>13, <1>14, <1>15, <1>16, <1>17, <1>18, <1>19 DEF Next, Handle, NextTarget

-----------------------------------------------------------------------------
(* The theorems *)

\* The inductive invariant.
Inv ==
    /\ TypeOK
    /\ InProgress
    /\ PastCommit
    /\ AllOrNothing
    /\ Ids
    /\ NotifiedIsVisible
    /\ held = Holding
    /\ Within

\* It holds in every reachable state.
LEMMA Invariance == Spec => []Inv
<1>1. Init => Inv
  BY FS_EmptySet, PoolAssumption, BoundAssumption
  DEF Init, Inv, TypeOK, InProgress, Progress, HasRow, PastCommit, AllOrNothing, Ids,
      NotifiedIsVisible, Holding, Within, InTransaction, Statements
<1>2. Inv /\ [Next]_vars => Inv'
  BY TypeStep, ProgressStep, StoredStep, IdsStep, NotifiedStep, HeldStep, WithinStep DEF Inv
<1>3. QED
  BY <1>1, <1>2, PTL DEF Spec

\* Type correctness: in every reachable state each variable has its type.
THEOREM TypeCorrect == Spec => []TypeOK
<1>1. Inv => TypeOK
  BY DEF Inv
<1>2. QED
  BY <1>1, Invariance, PTL

\* A webhook is visible whole or not at all, wherever a statement or the commit fails
\* and whenever the webserver dies.
THEOREM VisibleWhole == Spec => []AllOrNothing
<1>1. Inv => AllOrNothing
  BY DEF Inv
<1>2. QED
  BY <1>1, Invariance, PTL

\* No two webhooks, committed or not, share an id, and no request is stored twice.
THEOREM IdsAreUnique == Spec => []UniqueIds
<1>1. ASSUME Inv PROVE UniqueIds
  <2> USE <1>1 DEF Inv
  <2>1. ASSUME NEW x \in Rows PROVE x \in db \/ \E r \in Requests : x = row[r] /\ pc[r] \in HasRow
    BY DEF Rows, InProgress, Progress
  <2>2. ASSUME NEW x \in db, NEW r \in Requests, pc[r] \in HasRow, x.request = row[r].request
        PROVE  x = row[r]
    <3>1. x.request = r
      BY <2>2 DEF InProgress, Progress
    <3>2. pc[r] \in {"committed", "notify", "ok"}
      BY <2>2, <3>1 DEF PastCommit, HasRow
    <3>3. row[r] \in db
      BY <3>2 DEF InProgress, Progress
    <3>4. QED
      BY <2>2, <3>3 DEF Ids
  <2>3. ASSUME NEW q \in Requests, NEW r \in Requests, pc[q] \in HasRow, pc[r] \in HasRow,
               row[q].request = row[r].request
        PROVE  q = r
    BY <2>3 DEF InProgress, Progress
  <2>4. QED
    BY <2>1, <2>2, <2>3 DEF UniqueIds, Ids
<1>2. QED
  BY <1>1, Invariance, PTL

\* The workers are notified of nothing that they cannot see yet.
THEOREM NotifiedAfterCommit == Spec => []NotifiedIsVisible
<1>1. Inv => NotifiedIsVisible
  BY DEF Inv
<1>2. QED
  BY <1>1, Invariance, PTL

\* Every way out of the handler gives the connection back, and the pool is never
\* overdrawn.
THEOREM NoConnIsLeaked == Spec => []ConnsBalanced
<1>1. Inv => ConnsBalanced
  BY DEF Inv, ConnsBalanced, Holding, Within
<1>2. QED
  BY <1>1, Invariance, PTL

-----------------------------------------------------------------------------
(* The listener implements the log *)

\* A request that goes on within the handler is not seen from outside.
LEMMA GoesOn ==
    ASSUME TypeOK, NEW r \in Requests, NEW p,
           pc[r] \notin Answered, p \notin Answered,
           pc' = [pc EXCEPT ![r] = p], db' = db
    PROVE  UNCHANGED <<LoggedRows, Answer>>
BY DEF TypeOK, LoggedRows, Answer

\* A request that fails before its commit is answered with an error.
LEMMA FailsUnlogged ==
    ASSUME TypeOK, NEW r \in Requests, pc[r] \notin Answered,
           pc' = [pc EXCEPT ![r] = "error"], db' = db
    PROVE  Log!AnswerError
<1>1. {r} \in SUBSET {q \in Requests : Answer[q] = "none"}
  BY DEF Answer
<1>2. Answer' = [q \in Requests |-> IF q \in {r} THEN "error" ELSE Answer[q]]
  BY DEF TypeOK, Answer, Answered
<1>3. LoggedRows' = LoggedRows
  BY DEF LoggedRows
<1>4. QED
  BY <1>1, <1>2, <1>3 DEF Log!AnswerError

\* A commit puts the webhook into the log, with the forwarders of its service.
LEMMA CommitIsLogged ==
    ASSUME Inv, NEW r \in Requests, pc[r] = "commit", db' = db \cup {row[r]},
           Answer' \in {Answer, [Answer EXCEPT ![r] = "error"]}
    PROVE  Log!Accept(r)
<1> USE DEF Inv
<1>1. /\ row[r].request = r /\ row[r].targets = Config[service[r]]
      /\ service[r] \in ServicesByPath(RequestPath[r])
  BY DEF InProgress, Progress, HasRow
<1>2. ~Log!Logged(r)
  BY DEF Log!Logged, LoggedRows, PastCommit
<1>3. Answer[r] = "none"
  BY DEF Answer, Answered
<1>4. LoggedRows' = LoggedRows \cup {Log!Entry(r, service[r])}
  BY <1>1 DEF LoggedRows, Log!Entry
<1>5. QED
  BY <1>1, <1>2, <1>3, <1>4 DEF Log!Accept

\* The answer "ok" is given for a webhook in the log.
LEMMA OkIsLogged ==
    ASSUME Inv, NEW r \in Requests, pc[r] \in {"committed", "notify"},
           pc' = [pc EXCEPT ![r] = "ok"], db' = db
    PROVE  Log!AnswerOk(r)
<1> USE DEF Inv
<1>1. row[r] \in db /\ row[r].request = r
  BY DEF InProgress, Progress, HasRow
<1>2. Log!Logged(r)
  <2> DEFINE e == [request |-> row[r].request, forwarders |-> row[r].targets]
  <2>1. e \in LoggedRows
    BY <1>1 DEF LoggedRows
  <2>2. e.request = r
    BY <1>1
  <2>3. QED
    BY <2>1, <2>2 DEF Log!Logged
<1>3. Answer[r] = "none" /\ Answer' = [Answer EXCEPT ![r] = "ok"]
  BY DEF TypeOK, Answer, Answered
<1>4. LoggedRows' = LoggedRows
  BY DEF LoggedRows
<1>5. QED
  BY <1>2, <1>3, <1>4 DEF Log!AnswerOk

\* Every step of the listener is a step of the log or leaves it alone.
LEMMA LogStep == Inv /\ [Next]_vars => [Log!Next]_<<LoggedRows, Answer>>
<1> DEFINE Step == [Log!Next]_<<LoggedRows, Answer>>
<1> SUFFICES ASSUME Inv, [Next]_vars PROVE Step
  OBVIOUS
<1> USE DEF Inv
<1>1. ASSUME NEW r \in Requests, Begin(r) PROVE Step
  BY <1>1, GoesOn DEF Begin, Answered
<1>2. ASSUME NEW r \in Requests, Route(r) PROVE Step
  BY <1>2, GoesOn DEF Route, Answered
<1>3. ASSUME NEW r \in Requests, NotFound(r) PROVE Step
  BY <1>3, FailsUnlogged DEF NotFound, Fail, Answered, Log!Next
<1>4. ASSUME NEW r \in Requests, ReadBody(r) PROVE Step
  BY <1>4, GoesOn DEF ReadBody, Answered
<1>5. ASSUME NEW r \in Requests, BodyFails(r) PROVE Step
  BY <1>5, FailsUnlogged DEF BodyFails, Fail, Answered, Log!Next
<1>6. ASSUME NEW r \in Requests, InsertWebhookEvent(r) PROVE Step
  BY <1>6, GoesOn DEF InsertWebhookEvent, Answered
<1>7. ASSUME NEW r \in Requests, SetWebhookIdempotencyKey(r) PROVE Step
  BY <1>7, GoesOn DEF SetWebhookIdempotencyKey, Answered
<1>8. ASSUME NEW r \in Requests, InsertTarget(r) PROVE Step
  BY <1>8 DEF InsertTarget, LoggedRows, Answer
<1>9. ASSUME NEW r \in Requests, AttemptRejected(r) PROVE Step
  BY <1>9, FailsUnlogged DEF AttemptRejected, Fail, Answered, Log!Next
<1>10. ASSUME NEW r \in Requests, LoopEnds(r) PROVE Step
  BY <1>10, GoesOn DEF LoopEnds, Answered
<1>11. ASSUME NEW r \in Requests, MarkWebhookAsScheduled(r) PROVE Step
  BY <1>11, GoesOn DEF MarkWebhookAsScheduled, Answered
<1>12. ASSUME NEW r \in Requests, Commit(r) PROVE Step
  <2>1. Answer' = Answer
    BY <1>12 DEF Commit, TypeOK, Answer, Answered
  <2>2. QED
    BY <1>12, <2>1, CommitIsLogged DEF Commit, Log!Next
<1>13. ASSUME NEW r \in Requests, GetConn(r) PROVE Step
  BY <1>13, GoesOn DEF GetConn, Answered
<1>14. ASSUME NEW r \in Requests, Notify(r) PROVE Step
  BY <1>14, OkIsLogged DEF Notify, Log!Next
<1>15. ASSUME NEW r \in Requests, StatementFails(r) PROVE Step
  BY <1>15, FailsUnlogged DEF StatementFails, Fail, Answered, Statements, Log!Next
<1>16. ASSUME NEW r \in Requests, CommitFails(r) PROVE Step
  <2>1. CASE db' = db
    BY <1>16, <2>1, FailsUnlogged DEF CommitFails, Fail, Answered, Log!Next
  <2>2. CASE db' = db \cup {row[r]}
    <3>1. Answer' = [Answer EXCEPT ![r] = "error"]
      BY <1>16 DEF CommitFails, Fail, TypeOK, Answer, Answered
    <3>2. QED
      BY <1>16, <2>2, <3>1, CommitIsLogged DEF CommitFails, Log!Next
  <2>3. QED
    BY <1>16, <2>1, <2>2 DEF CommitFails
<1>17. ASSUME NEW r \in Requests, NotifyFails(r) PROVE Step
  BY <1>17, OkIsLogged DEF NotifyFails, Log!Next
<1>18. ASSUME Crash PROVE Step
  <2> DEFINE cut == {r \in Requests : Answer[r] = "none"}
  <2>1. Answer' = [r \in Requests |-> IF r \in cut THEN "error" ELSE Answer[r]]
    BY <1>18 DEF Crash, TypeOK, Answer, Answered
  <2>2. LoggedRows' = LoggedRows
    BY <1>18 DEF Crash, LoggedRows
  <2>3. QED
    BY <2>1, <2>2 DEF Log!AnswerError, Log!Next
<1>19. ASSUME UNCHANGED vars PROVE Step
  BY <1>19 DEF vars, reqVars, LoggedRows, Answer
<1>20. QED
  BY <1>1, <1>2, <1>3, <1>4, <1>5, <1>6, <1>7, <1>8, <1>9, <1>10, <1>11, <1>12,
     <1>13, <1>14, <1>15, <1>16, <1>17, <1>18, <1>19 DEF Next, Handle, NextTarget

\* The listener implements the abstract log: a webhook is accepted in one step, whole,
\* and the sender is told "ok" only of what is in the tables.
THEOREM ListenerIsALog == Spec => ImplementsLog
<1>1. Init => Log!Init
  BY DEF Init, Log!Init, LoggedRows, Answer, Answered
<1>2. QED
  BY <1>1, LogStep, Invariance, PTL DEF Spec, ImplementsLog, Log!Spec
=============================================================================
