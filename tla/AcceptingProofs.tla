-------------------------- MODULE AcceptingProofs --------------------------
(***************************************************************************)
(* The listener implements the webservers of Delivery, for any number of   *)
(* requests, any configuration, pool and number of faults.                 *)
(***************************************************************************)
EXTENDS Accepting, IngestProofs

-----------------------------------------------------------------------------
(* What it takes besides the invariant of the listener *)

\* A request that has inserted a target has got the attempt past the schema.
PastSchema == \A r \in Requests : pc[r] \in HasRow /\ row[r].targets # {} => HashDefault

\* A webhook is notified in the last step of its request.
NotifiedLast == \A x \in db : x.id \in sent => pc[x.request] \in Answered

Extra == PastSchema /\ NotifiedLast

\* Every step keeps the attempts within the schema.
LEMMA SchemaStep == TypeOK /\ InProgress /\ PastSchema /\ [Next]_vars => PastSchema'
<1> SUFFICES ASSUME TypeOK, InProgress, PastSchema, [Next]_vars, NEW q \in Requests,
                    pc'[q] \in HasRow, row'[q].targets # {}
             PROVE  HashDefault
  BY DEF PastSchema
<1>1. CASE row'[q] = row[q] /\ pc[q] \in HasRow
  BY <1>1 DEF PastSchema
<1>2. ASSUME NEW r \in Requests, InsertWebhookEvent(r) PROVE HashDefault
  <2>1. q # r
    BY <1>2 DEF InsertWebhookEvent, TypeOK
  <2>2. QED
    BY <1>1, <1>2, <2>1 DEF InsertWebhookEvent, TypeOK
<1>3. ASSUME NEW r \in Requests, SetWebhookIdempotencyKey(r) PROVE HashDefault
  <2>1. q = r => row[q] \in RowType /\ row'[q] = [row[q] EXCEPT !.keyed = TRUE]
    BY <1>3 DEF SetWebhookIdempotencyKey, TypeOK, InProgress, Progress, HasRow
  <2>2. q = r => row'[q].targets = row[q].targets /\ pc[q] \in HasRow
    BY <1>3, <2>1 DEF SetWebhookIdempotencyKey, RowType, HasRow
  <2>3. q # r => row'[q] = row[q] /\ pc'[q] = pc[q]
    BY <1>3 DEF SetWebhookIdempotencyKey, TypeOK
  <2>4. QED
    BY <2>2, <2>3 DEF PastSchema
<1>4. ASSUME NEW r \in Requests, NextTarget(r) PROVE HashDefault
  <2>1. CASE HashDefault
    BY <2>1
  <2>2. CASE ~HashDefault
    <3>1. AttemptRejected(r)
      BY <1>4, <2>2 DEF NextTarget
    <3>2. pc' = [pc EXCEPT ![r] = "error"] /\ row' = [row EXCEPT ![r] = NoRow]
      BY <3>1 DEF AttemptRejected, Fail
    <3>3. q # r
      BY <3>2 DEF TypeOK, HasRow
    <3>4. QED
      BY <1>1, <3>2, <3>3 DEF TypeOK
  <2>3. QED
    BY <2>1, <2>2
<1>5. ASSUME NEW r \in Requests, MarkWebhookAsScheduled(r) PROVE HashDefault
  <2>1. q = r => row[q] \in RowType /\ row'[q] = [row[q] EXCEPT !.status = "scheduled"]
    BY <1>5 DEF MarkWebhookAsScheduled, TypeOK, InProgress, Progress, HasRow
  <2>2. q = r => row'[q].targets = row[q].targets /\ pc[q] \in HasRow
    BY <1>5, <2>1 DEF MarkWebhookAsScheduled, RowType, HasRow
  <2>3. q # r => row'[q] = row[q] /\ pc'[q] = pc[q]
    BY <1>5 DEF MarkWebhookAsScheduled, TypeOK
  <2>4. QED
    BY <2>2, <2>3 DEF PastSchema
<1>6. ASSUME NEW r \in Requests,
             \/ Begin(r) \/ Route(r) \/ ReadBody(r) \/ LoopEnds(r)
             \/ Commit(r) \/ GetConn(r) \/ Notify(r) \/ NotifyFails(r)
      PROVE  HashDefault
  BY <1>1, <1>6 DEF Begin, Route, ReadBody, LoopEnds, Commit, GetConn, Notify, NotifyFails,
                    TypeOK, HasRow
<1>7. ASSUME NEW r \in Requests, Fail(r) PROVE HashDefault
  <2>1. q # r
    BY <1>7 DEF Fail, TypeOK, HasRow
  <2>2. QED
    BY <1>1, <1>7, <2>1 DEF Fail, TypeOK
<1>8. CASE Crash
  BY <1>1, <1>8 DEF Crash, Answered, HasRow
<1>9. CASE UNCHANGED vars
  BY <1>1, <1>9 DEF vars, reqVars
<1>10. QED
  BY <1>2, <1>3, <1>4, <1>5, <1>6, <1>7, <1>8, <1>9
  DEF Next, Handle, NotFound, BodyFails, StatementFails, CommitFails

\* Every step keeps the notification last: a request that commits has an id that nobody
\* was told of.
LEMMA NotifiedLastStep == Inv /\ NotifiedLast /\ [Next]_vars => NotifiedLast'
<1> SUFFICES ASSUME Inv, NotifiedLast, [Next]_vars,
                    NEW x \in db', x.id \in sent'
             PROVE  pc'[x.request] \in Answered
  BY DEF NotifiedLast
<1> USE DEF Inv
<1>0. /\ \A y \in db : y.request \in Requests
      /\ \A r \in Requests : pc[r] \in HasRow => row[r].request = r
  BY DEF TypeOK, RowType, InProgress, Progress
<1>1. \A r \in Requests : pc[r] \in Answered => pc'[r] = pc[r]
  BY DEF Next, Handle, Begin, Route, NotFound, ReadBody, InsertWebhookEvent,
         SetWebhookIdempotencyKey, NextTarget, InsertTarget, AttemptRejected, LoopEnds,
         MarkWebhookAsScheduled, Commit, GetConn, Notify, BodyFails, StatementFails,
         CommitFails, NotifyFails, Crash, Fail, vars, reqVars, TypeOK, Answered, Statements
<1>2. CASE x \in db /\ x.id \in sent
  BY <1>0, <1>1, <1>2 DEF NotifiedLast
<1>3. ASSUME NEW r \in Requests, x = row[r], pc[r] = "commit" PROVE x.id \notin sent
  <2>1. SUFFICES ASSUME x.id \in sent PROVE FALSE
    OBVIOUS
  <2>2. PICK y \in db : y.id = x.id
    BY <2>1 DEF NotifiedIsVisible
  <2>3. y = row[r] /\ y.request = r
    BY <1>0, <1>3, <2>2 DEF Ids, HasRow
  <2>4. QED
    BY <1>3, <2>2, <2>3 DEF PastCommit
<1>4. ASSUME NEW r \in Requests, Commit(r) PROVE pc'[x.request] \in Answered
  BY <1>2, <1>3, <1>4 DEF Commit
<1>5. ASSUME NEW r \in Requests, CommitFails(r) PROVE pc'[x.request] \in Answered
  BY <1>2, <1>3, <1>5 DEF CommitFails
<1>6. ASSUME NEW r \in Requests, pc[r] = "notify", pc' = [pc EXCEPT ![r] = "ok"],
             db' = db, sent' \in {sent, sent \cup {row[r].id}}
      PROVE  pc'[x.request] \in Answered
  <2>1. CASE x.id = row[r].id
    <3>1. x = row[r] /\ x.request = r
      BY <1>0, <1>6, <2>1 DEF Ids, HasRow
    <3>2. QED
      BY <1>6, <3>1 DEF TypeOK, Answered
  <2>2. CASE x.id # row[r].id
    BY <1>2, <1>6, <2>2
  <2>3. QED
    BY <2>1, <2>2
<1>7. CASE db' = db /\ sent' = sent
  BY <1>2, <1>7
<1>8. QED
  BY <1>4, <1>5, <1>6, <1>7
  DEF Next, Handle, Begin, Route, NotFound, ReadBody, InsertWebhookEvent,
      SetWebhookIdempotencyKey, NextTarget, InsertTarget, AttemptRejected, LoopEnds,
      MarkWebhookAsScheduled, GetConn, Notify, BodyFails, StatementFails,
      NotifyFails, Crash, vars, reqVars

\* Both hold in every reachable state.
LEMMA ExtraInvariance == Spec => []Extra
<1>1. Init => Extra
  BY DEF Init, Extra, PastSchema, NotifiedLast, HasRow
<1>2. Inv /\ Extra /\ [Next]_vars => Extra'
  BY SchemaStep, NotifiedLastStep DEF Inv, Extra
<1>3. QED
  BY <1>1, <1>2, Invariance, PTL DEF Spec

-----------------------------------------------------------------------------
(* The tables as the workers read them *)

\* The row of a request is the only one it has.
LEMMA OnlyRow ==
    ASSUME NEW D, NEW x \in D, \A y \in D : y.request = x.request => y = x
    PROVE  (CHOOSE y \in D : y.request = x.request) = x
<1>1. \E y \in D : y.request = x.request
  OBVIOUS
<1>2. QED
  BY <1>1

\* A committed row is what is found of its request.
LEMMA FoundRow ==
    ASSUME Inv, NEW x \in db
    PROVE  x.request \in Requests /\ Visible(x.request) /\ RowOf(x.request) = x
<1>1. \A y \in db : y.request = x.request => y = x
  BY DEF Inv, Ids
<1>2. QED
  BY <1>1, OnlyRow DEF Visible, RowOf, Inv, TypeOK, RowType

\* A step that leaves the tables and the channel alone is not seen by the workers, the
\* service of a request included that is not committed yet.
LEMMA Unseen ==
    ASSUME db' = db, sent' = sent, \A r \in Requests : Visible(r) => service'[r] = service[r]
    PROVE  UNCHANGED Webservers!vars
<1>1. \A r \in Requests : Visible(r)' = Visible(r) /\ RowOf(r)' = RowOf(r)
  BY DEF Visible, RowOf
<1>2. WebhookStatus' = WebhookStatus
  BY <1>1 DEF WebhookStatus
<1>3. AttemptStatus' = AttemptStatus
  BY <1>1 DEF AttemptStatus
<1>4. Unnotified' = Unnotified
  BY <1>1 DEF Unnotified
<1>5. Received' = Received
  BY <1>1 DEF Received
<1>6. QED
  BY <1>2, <1>3, <1>4, <1>5
  DEF Webservers!vars, Webservers!dbVars, Webservers!channelVars, Webservers!workerVars,
      Webservers!historyVars

\* A commit stores the webhook and the first attempts of its service, and nobody knows.
LEMMA CommitHandles ==
    ASSUME Inv, Extra, NEW r \in Requests, pc[r] = "commit",
           db' = db \cup {row[r]}, UNCHANGED <<sent, service>>
    PROVE  Webservers!HandleEvent(r, service[r]) /\ service[r] \in Services
<1> DEFINE x == row[r]
<1> USE DEF Inv
<1>1. /\ x \in RowType /\ x.request = r /\ x.status = "scheduled"
      /\ x.targets = Config[service[r]] /\ service[r] \in Services
  BY Routing DEF InProgress, Progress, HasRow
<1>2. ~Visible(r)
  BY DEF Visible, PastCommit
<1>3. x.id \notin sent
  <2>1. SUFFICES ASSUME x.id \in sent PROVE FALSE
    OBVIOUS
  <2>2. PICK y \in db : y.id = x.id
    BY <2>1 DEF NotifiedIsVisible
  <2>3. y.request = r
    BY <1>1, <2>2 DEF Ids, HasRow
  <2>4. QED
    BY <1>2, <2>2, <2>3 DEF Visible
<1>4. Config[service[r]] = {} \/ HashDefault
  BY <1>1 DEF Extra, PastSchema, HasRow
<1>5. Visible(r)' /\ RowOf(r)' = x
  <2>1. \A y \in db' : y.request = x.request => y = x
    BY <1>1, <1>2 DEF Visible
  <2>2. x \in db'
    OBVIOUS
  <2>3. (CHOOSE y \in db' : y.request = x.request) = x
    BY <2>1, <2>2, OnlyRow
  <2>4. QED
    BY <1>1, <2>2, <2>3 DEF Visible, RowOf
<1>6. \A q \in Requests \ {r} : Visible(q)' = Visible(q)
  BY <1>1 DEF Visible
<1>7. ASSUME NEW q \in Requests \ {r}, Visible(q) PROVE RowOf(q)' = RowOf(q)
  <2>1. PICK y \in db : y.request = q
    BY <1>7 DEF Visible
  <2>2. RowOf(q) = y
    BY <2>1, FoundRow
  <2>3. \A z \in db' : z.request = y.request => z = y
    BY <1>1, <1>7, <2>1 DEF Ids
  <2>4. (CHOOSE z \in db' : z.request = y.request) = y
    BY <2>1, <2>3, OnlyRow
  <2>5. QED
    BY <2>1, <2>2, <2>4 DEF RowOf
<1>8. WebhookStatus' = [WebhookStatus EXCEPT ![r] = "scheduled"] /\ WebhookStatus[r] = "absent"
  BY <1>1, <1>2, <1>5, <1>6, <1>7 DEF WebhookStatus
<1>9. AttemptStatus' = [a \in Webservers!AttemptId |->
                            IF a \in Webservers!FirstAttempts(r, service[r])
                              THEN "scheduled" ELSE AttemptStatus[a]]
  <2>1. Webservers!AttemptId = Requests \X AllForwarders \X (1..1)
    BY DEF Webservers!AttemptId, Webservers!MaxAttempts
  <2>2. ASSUME NEW q \in Requests, NEW f \in AllForwarders
        PROVE  AttemptStatus'[<<q, f, 1>>] = IF q = r /\ f \in Config[service[r]]
                                               THEN "scheduled" ELSE AttemptStatus[<<q, f, 1>>]
    BY <1>1, <1>2, <1>5, <1>6, <1>7 DEF AttemptStatus
  <2>3. \A q \in Requests, f \in AllForwarders :
            <<q, f, 1>> \in Webservers!FirstAttempts(r, service[r])
                <=> q = r /\ f \in Config[service[r]]
    BY DEF Webservers!FirstAttempts
  <2>4. ASSUME NEW a \in Requests \X AllForwarders \X (1..1)
        PROVE  /\ a[1] \in Requests /\ a[2] \in AllForwarders
               /\ a = <<a[1], a[2], 1>>
    OBVIOUS
  <2>5. \A a \in Requests \X AllForwarders \X (1..1) :
            AttemptStatus'[a] = IF a \in Webservers!FirstAttempts(r, service[r])
                                  THEN "scheduled" ELSE AttemptStatus[a]
    BY <2>2, <2>3, <2>4
  <2>6. AttemptStatus' = [a \in Requests \X AllForwarders \X (1..1) |-> AttemptStatus'[a]]
    BY DEF AttemptStatus
  <2>7. QED
    BY <2>1, <2>5, <2>6
<1>10. Unnotified' = Unnotified \cup {r}
  BY <1>1, <1>3, <1>5, <1>6, <1>7 DEF Unnotified
<1>11. Received' = Received \cup {<<r, service[r]>>}
  BY <1>5, <1>6 DEF Received
<1>12. QED
  BY <1>1, <1>4, <1>8, <1>9, <1>10, <1>11 DEF Webservers!HandleEvent, Webservers!workerVars

\* A notification is sent for a webhook that nobody was told of, and no other.
LEMMA NotifyTells ==
    ASSUME Inv, Extra, NEW r \in Requests, pc[r] = "notify",
           sent' = sent \cup {row[r].id}, UNCHANGED <<db, service>>
    PROVE  Webservers!Notify(r)
<1> USE DEF Inv
<1>1. row[r] \in db /\ row[r].request = r
  BY DEF InProgress, Progress, HasRow
<1>2. Visible(r) /\ RowOf(r) = row[r]
  BY <1>1, FoundRow
<1>3. row[r].id \notin sent
  BY <1>1 DEF Extra, NotifiedLast, Answered
<1>4. \A q \in Requests : Visible(q)' = Visible(q) /\ RowOf(q)' = RowOf(q)
  BY DEF Visible, RowOf
<1>5. ASSUME NEW q \in Requests, Visible(q), q # r PROVE RowOf(q).id # row[r].id
  <2>1. PICK y \in db : y.request = q
    BY <1>5 DEF Visible
  <2>2. RowOf(q) = y
    BY <2>1, FoundRow
  <2>3. QED
    BY <1>1, <1>5, <2>1, <2>2 DEF Ids
<1>6. r \in Unnotified /\ Unnotified' = Unnotified \ {r}
  BY <1>2, <1>3, <1>4, <1>5 DEF Unnotified
<1>7. WebhookStatus' = WebhookStatus
  BY <1>4 DEF WebhookStatus
<1>8. AttemptStatus' = AttemptStatus
  BY <1>4 DEF AttemptStatus
<1>9. Received' = Received
  BY <1>4 DEF Received
<1>10. QED
  BY <1>6, <1>7, <1>8, <1>9
  DEF Webservers!Notify, Webservers!dbVars, Webservers!workerVars, Webservers!historyVars

-----------------------------------------------------------------------------
(* The listener implements the webservers *)

\* Every step of the listener is one of the webservers or is not seen by the workers.
LEMMA WebserverStep ==
    Inv /\ Extra /\ [Next]_vars => [Webservers!Next]_(Webservers!vars)
<1> DEFINE Step == [Webservers!Next]_(Webservers!vars)
<1> SUFFICES ASSUME Inv, Extra, [Next]_vars PROVE Step
  OBVIOUS
<1>1. CASE UNCHANGED <<db, sent, service>>
  BY <1>1, Unseen
<1>2. ASSUME NEW r \in Requests, Route(r) PROVE Step
  <2>1. ~Visible(r)
    BY <1>2 DEF Route, Inv, PastCommit, Visible
  <2>2. \A q \in Requests : Visible(q) => service'[q] = service[q]
    BY <1>2, <2>1 DEF Route, Inv, TypeOK
  <2>3. QED
    BY <1>2, <2>2, Unseen DEF Route
<1>3. ASSUME NEW r \in Requests, Commit(r) \/ CommitFails(r) PROVE Step
  <2>1. pc[r] = "commit" /\ UNCHANGED <<sent, service>> /\ db' \in {db, db \cup {row[r]}}
    BY <1>3 DEF Commit, CommitFails
  <2>2. CASE db' = db
    BY <1>1, <2>1, <2>2
  <2>3. CASE db' = db \cup {row[r]}
    BY <2>1, <2>3, CommitHandles DEF Webservers!Next
  <2>4. QED
    BY <2>1, <2>2, <2>3
<1>4. ASSUME NEW r \in Requests, Notify(r) \/ NotifyFails(r) PROVE Step
  <2>1. UNCHANGED <<db, service>>
    BY <1>4 DEF Notify, NotifyFails
  <2>2. CASE sent' = sent
    BY <1>1, <2>1, <2>2
  <2>3. CASE pc[r] = "notify" /\ sent' = sent \cup {row[r].id}
    BY <2>1, <2>3, NotifyTells DEF Webservers!Next
  <2>4. QED
    BY <1>4, <2>2, <2>3 DEF Notify, NotifyFails
<1>5. QED
  BY <1>1, <1>2, <1>3, <1>4
  DEF Next, Handle, Begin, NotFound, ReadBody, InsertWebhookEvent, SetWebhookIdempotencyKey,
      NextTarget, InsertTarget, AttemptRejected, LoopEnds, MarkWebhookAsScheduled, GetConn,
      BodyFails, StatementFails, Crash, vars, reqVars

\* At first there is nothing in the tables.
LEMMA WebserverInit == Init => Webservers!Init
BY DEF Init, Webservers!Init, Webservers!AttemptId, Webservers!MaxAttempts, WebhookStatus,
       AttemptStatus, Unnotified, Received, Visible

\* The listener, statement by statement, with its pool, rollbacks and crashes, does
\* nothing that the webservers of Delivery do not: of HandleEvent, Delivery assumes what
\* the statements of HandleEvent give.
THEOREM ListenerIsWebservers == Spec => ImplementsWebservers
BY WebserverInit, WebserverStep, Invariance, ExtraInvariance, PTL
DEF Spec, ImplementsWebservers, Webservers!Spec
=============================================================================
