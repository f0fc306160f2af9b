--------------------------- MODULE DeliveryProofs ---------------------------
(***************************************************************************)
(* What Delivery keeps true for every configuration, every number of       *)
(* webhooks, forwarders and workers and every bound on the faults.         *)
(***************************************************************************)
EXTENDS Delivery, TLAPS, FiniteSetTheorems, WellFoundedInduction

-----------------------------------------------------------------------------
(* Attempts and targets *)

\* An attempt has a target and a webhook, and its number tells it from the other
\* attempts of its target.
LEMMA AttemptFacts ==
    /\ NoAttempt \notin AttemptId
    /\ \A a \in AttemptId : TargetOf(a) \in Target /\ WebhookOf(a) \in Webhooks
    /\ \A a, b \in AttemptId : TargetOf(a) = TargetOf(b) => WebhookOf(a) = WebhookOf(b)
    /\ \A a, b \in AttemptId : TargetOf(a) = TargetOf(b) /\ a[3] = b[3] => a = b
<1>1. \A a \in AttemptId : /\ a = <<a[1], a[2], a[3]>>
                           /\ a[1] \in Webhooks
                           /\ a[2] \in Forwarders
  BY DEF AttemptId
<1>2. \A a, b \in AttemptId : TargetOf(a) = TargetOf(b) => a[1] = b[1] /\ a[2] = b[2]
  BY DEF TargetOf
<1>3. \A a \in AttemptId : TargetOf(a) \in Target /\ WebhookOf(a) \in Webhooks
  BY <1>1 DEF TargetOf, WebhookOf, Target
<1>4. \A a, b \in AttemptId : TargetOf(a) = TargetOf(b) /\ a[3] = b[3] => a = b
  BY <1>1, <1>2
<1>5. QED
  BY <1>2, <1>3, <1>4, NoAttemptAssumption DEF WebhookOf

\* Every target has a first attempt in the table's key space.
LEMMA TargetFacts ==
    \A t \in Target : <<t[1], t[2], 1>> \in AttemptId /\ TargetOf(<<t[1], t[2], 1>>) = t
BY BoundAssumption DEF Target, AttemptId, TargetOf, MaxAttempts

\* The first attempts of an accepted webhook are attempts of that webhook, one per
\* target.
LEMMA FirstAttemptFacts ==
    ASSUME NEW h \in Webhooks, NEW s \in Services
    PROVE  /\ FirstAttempts(h, s) \subseteq AttemptId
           /\ \A a \in FirstAttempts(h, s) : WebhookOf(a) = h /\ a[3] = 1
<1>1. Config[s] \subseteq Forwarders
  BY ConfigAssumption
<1>2. 1 \in 1..MaxAttempts
  BY BoundAssumption DEF MaxAttempts
<1>3. QED
  BY <1>1, <1>2 DEF FirstAttempts, AttemptId, WebhookOf

-----------------------------------------------------------------------------
(* Types *)

\* The initial state is well typed.
LEMMA TypeInit == Init => TypeOK
BY BoundAssumption, NoAttemptAssumption DEF Init, TypeOK

\* Every step keeps the types.
LEMMA TypeStep == TypeOK /\ [Next]_vars => TypeOK'
<1> SUFFICES ASSUME TypeOK, [Next]_vars PROVE TypeOK'
  OBVIOUS
<1> USE AttemptFacts, BoundAssumption
<1>1. ASSUME NEW h \in Webhooks, NEW s \in Services, HandleEvent(h, s) PROVE TypeOK'
  BY <1>1, FirstAttemptFacts DEF HandleEvent, TypeOK, workerVars
<1>2. ASSUME NEW h \in Webhooks, Notify(h) PROVE TypeOK'
  BY <1>2 DEF Notify, TypeOK, dbVars, workerVars, historyVars
<1>3. ASSUME NEW h \in Webhooks, NotifyLost(h) PROVE TypeOK'
  BY <1>3 DEF NotifyLost, Fault, TypeOK, dbVars, workerVars, historyVars
<1>4. ASSUME NEW a \in AttemptId, BecomeDue(a) PROVE TypeOK'
  BY <1>4 DEF BecomeDue, TypeOK, channelVars, workerVars, historyVars
<1>5. ASSUME NEW w \in Workers, Listen(w) PROVE TypeOK'
  BY <1>5 DEF Listen, TypeOK, dbVars, workerVars, historyVars
<1>6. ASSUME NEW w \in Workers, ListenerLost(w) PROVE TypeOK'
  BY <1>6 DEF ListenerLost, Fault, TypeOK, dbVars, workerVars, historyVars
<1>7. ASSUME NEW w \in Workers, TickerFires(w) PROVE TypeOK'
  BY <1>7 DEF TickerFires, Fetch, GoTo, DueAttempts, TypeOK, dbVars, channelVars, historyVars
<1>8. ASSUME NEW w \in Workers, NotificationArrives(w) PROVE TypeOK'
  BY <1>8 DEF NotificationArrives, Fetch, GoTo, DueAttempts, TypeOK, dbVars, historyVars
<1>9. ASSUME NEW w \in Workers, FetchFails(w) PROVE TypeOK'
  BY <1>9 DEF FetchFails, Fault, TypeOK, dbVars, workerVars, historyVars
<1>10. ASSUME NEW w \in Workers, Skip(w) PROVE TypeOK'
  BY <1>10 DEF Skip, Take, TypeOK, dbVars, channelVars, historyVars
<1>11. ASSUME NEW w \in Workers, Forward(w) PROVE TypeOK'
  BY <1>11 DEF Forward, Take, GoTo, TypeOK, dbVars, channelVars
<1>12. ASSUME NEW w \in Workers, ForwardFails(w) PROVE TypeOK'
  BY <1>12 DEF ForwardFails, Fault, Take, GoTo, TypeOK, dbVars, channelVars
<1>13. ASSUME NEW w \in Workers, CommitDelivery(w) PROVE TypeOK'
  BY <1>13 DEF CommitDelivery, RecordSuccess, GoTo, TypeOK, channelVars, historyVars
<1>14. ASSUME NEW w \in Workers, CommitFails(w) PROVE TypeOK'
  BY <1>14 DEF CommitFails, RecordSuccess, Fault, GoTo, TypeOK, channelVars, historyVars
<1>15. ASSUME NEW w \in Workers, MarkFailed(w) PROVE TypeOK'
  BY <1>15 DEF MarkFailed, GoTo, TypeOK, channelVars, historyVars
<1>16. ASSUME NEW w \in Workers, MarkFailedFails(w) PROVE TypeOK'
  BY <1>16 DEF MarkFailedFails, Fault, GoTo, TypeOK, channelVars
<1>17. ASSUME NEW w \in Workers, Schedule(w) PROVE TypeOK'
  BY <1>17 DEF Schedule, GoTo, TypeOK, channelVars, historyVars
<1>18. ASSUME NEW w \in Workers, ScheduleFails(w) PROVE TypeOK'
  BY <1>18 DEF ScheduleFails, Fault, GoTo, TypeOK, dbVars, channelVars
<1>19. ASSUME NEW w \in Workers, FinishBatch(w) PROVE TypeOK'
  BY <1>19 DEF FinishBatch, GoTo, TypeOK, dbVars, channelVars, historyVars
<1>20. ASSUME NEW w \in Workers, Crash(w) PROVE TypeOK'
  BY <1>20 DEF Crash, Fault, GoTo, TypeOK, dbVars
<1>21. ASSUME NEW w \in Workers, Restart(w) PROVE TypeOK'
  BY <1>21 DEF Restart, GoTo, TypeOK, dbVars, channelVars, historyVars
<1>22. ASSUME UNCHANGED vars PROVE TypeOK'
  BY <1>22 DEF TypeOK, vars, dbVars, channelVars, workerVars, historyVars
<1>23. QED
  BY <1>1, <1>2, <1>3, <1>4, <1>5, <1>6, <1>7, <1>8, <1>9, <1>10, <1>11, <1>12, <1>13,
     <1>14, <1>15, <1>16, <1>17, <1>18, <1>19, <1>20, <1>21, <1>22
  DEF Next, Progress, Failure

\* Type correctness: in every reachable state each variable has its type and a
\* worker has a row in hand exactly while it delivers or reschedules one.
THEOREM TypeCorrect == Spec => []TypeOK
BY TypeInit, TypeStep, PTL DEF Spec
-----------------------------------------------------------------------------
(* The steps that leave the rows alone *)

\* Notifications, clocks and connections neither write a table nor move a worker to
\* or from a row: they cannot disturb the invariants below.
LEMMA QuietSteps ==
    ASSUME \/ \E h \in Webhooks : Notify(h) \/ NotifyLost(h)
           \/ \E a \in AttemptId : BecomeDue(a)
           \/ \E w \in Workers : Listen(w) \/ ListenerLost(w) \/ FetchFails(w)
           \/ UNCHANGED vars
    PROVE  /\ UNCHANGED <<webhook, attempts, pc, batch, cur, reached, abandoned>>
           /\ faults' = faults \/ faults' = faults + 1
BY DEF Notify, NotifyLost, BecomeDue, Listen, ListenerLost, FetchFails, Fault, vars,
       dbVars, channelVars, workerVars, historyVars

-----------------------------------------------------------------------------
(* Rows *)

\* A worker only ever holds rows that exist, and a webhook that was not accepted
\* has none.
RowsExist ==
    /\ \A w \in Workers : \A a \in batch[w] : attempts[a] # "absent"
    /\ \A w \in Workers : cur[w] # NoAttempt => attempts[cur[w]] # "absent"
    /\ \A a \in AttemptId : webhook[WebhookOf(a)] = "absent" => attempts[a] = "absent"

\* Every step keeps it.
LEMMA RowsStep == TypeOK /\ RowsExist /\ [Next]_vars => RowsExist'
<1> SUFFICES ASSUME TypeOK, RowsExist, [Next]_vars PROVE RowsExist'
  OBVIOUS
<1> USE AttemptFacts
<1>1. ASSUME NEW h \in Webhooks, NEW s \in Services, HandleEvent(h, s) PROVE RowsExist'
  BY <1>1, FirstAttemptFacts DEF HandleEvent, workerVars, TypeOK, RowsExist
<1>2. ASSUME NEW w \in Workers, TickerFires(w) PROVE RowsExist'
  BY <1>2
  DEF TickerFires, Fetch, GoTo, DueAttempts, dbVars, channelVars, historyVars,
     TypeOK, RowsExist
<1>3. ASSUME NEW w \in Workers, NotificationArrives(w) PROVE RowsExist'
  BY <1>3
  DEF NotificationArrives, Fetch, GoTo, DueAttempts, dbVars, historyVars,
     TypeOK, RowsExist
<1>4. ASSUME NEW w \in Workers, Skip(w) PROVE RowsExist'
  BY <1>4 DEF Skip, Take, dbVars, historyVars, TypeOK, RowsExist
<1>5. ASSUME NEW w \in Workers, Forward(w) PROVE RowsExist'
  BY <1>5 DEF Forward, Take, GoTo, dbVars, TypeOK, RowsExist
<1>6. ASSUME NEW w \in Workers, ForwardFails(w) PROVE RowsExist'
  BY <1>6 DEF ForwardFails, Fault, Take, GoTo, dbVars, TypeOK, RowsExist
<1>7. ASSUME NEW w \in Workers, CommitDelivery(w) PROVE RowsExist'
  BY <1>7 DEF CommitDelivery, RecordSuccess, GoTo, historyVars, TypeOK, RowsExist
<1>8. ASSUME NEW w \in Workers, CommitFails(w) PROVE RowsExist'
  BY <1>8 DEF CommitFails, Fault, RecordSuccess, GoTo, historyVars, TypeOK, RowsExist
<1>9. ASSUME NEW w \in Workers, MarkFailed(w) PROVE RowsExist'
  BY <1>9 DEF MarkFailed, GoTo, historyVars, TypeOK, RowsExist
<1>10. ASSUME NEW w \in Workers, MarkFailedFails(w) PROVE RowsExist'
  BY <1>10 DEF MarkFailedFails, Fault, GoTo, TypeOK, RowsExist
<1>11. ASSUME NEW w \in Workers, Schedule(w) PROVE RowsExist'
  BY <1>11 DEF Schedule, IsNextAttempt, GoTo, historyVars, TypeOK, RowsExist
<1>12. ASSUME NEW w \in Workers, ScheduleFails(w) PROVE RowsExist'
  BY <1>12 DEF ScheduleFails, Fault, GoTo, dbVars, TypeOK, RowsExist
<1>13. ASSUME NEW w \in Workers, FinishBatch(w) PROVE RowsExist'
  BY <1>13 DEF FinishBatch, GoTo, dbVars, historyVars, TypeOK, RowsExist
<1>14. ASSUME NEW w \in Workers, Crash(w) PROVE RowsExist'
  BY <1>14 DEF Crash, Fault, GoTo, dbVars, TypeOK, RowsExist
<1>15. ASSUME NEW w \in Workers, Restart(w) PROVE RowsExist'
  BY <1>15 DEF Restart, GoTo, dbVars, historyVars, TypeOK, RowsExist
<1>16. ASSUME UNCHANGED <<webhook, attempts, pc, batch, cur, reached, abandoned>> PROVE RowsExist'
  BY <1>16 DEF RowsExist
<1>17. QED
  BY <1>1, <1>2, <1>3, <1>4, <1>5, <1>6, <1>7, <1>8, <1>9, <1>10, <1>11, <1>12,
     <1>13, <1>14, <1>15, <1>16, QuietSteps
  DEF Next, Progress, Failure

\* In every reachable state.
LEMMA RowsInvariant == Spec => []RowsExist
<1>1. Init => RowsExist
  BY DEF Init, RowsExist
<1>2. QED
  BY <1>1, RowsStep, TypeCorrect, PTL DEF Spec

-----------------------------------------------------------------------------
(* Safety with any number of workers *)

\* A worker that is about to record a success has got through to the receiver.
CommitIsBacked == \A w \in Workers : pc[w] = "commit" => cur[w] \in reached

\* Every step keeps the backing of successes.
LEMMA SuccessStep ==
    TypeOK /\ CommitIsBacked /\ NoPhantomSuccess /\ [Next]_vars
        => CommitIsBacked' /\ NoPhantomSuccess'
<1> DEFINE Backed == CommitIsBacked /\ NoPhantomSuccess
<1> SUFFICES ASSUME TypeOK, CommitIsBacked, NoPhantomSuccess, [Next]_vars PROVE Backed'
  OBVIOUS
<1> USE AttemptFacts
<1>1. ASSUME NEW h \in Webhooks, NEW s \in Services, HandleEvent(h, s) PROVE Backed'
  BY <1>1, FirstAttemptFacts
  DEF HandleEvent, workerVars, TypeOK, CommitIsBacked, NoPhantomSuccess
<1>2. ASSUME NEW w \in Workers, TickerFires(w) PROVE Backed'
  BY <1>2
  DEF TickerFires, Fetch, GoTo, DueAttempts, dbVars, channelVars, historyVars,
     TypeOK, CommitIsBacked, NoPhantomSuccess
<1>3. ASSUME NEW w \in Workers, NotificationArrives(w) PROVE Backed'
  BY <1>3
  DEF NotificationArrives, Fetch, GoTo, DueAttempts, dbVars, historyVars,
     TypeOK, CommitIsBacked, NoPhantomSuccess
<1>4. ASSUME NEW w \in Workers, Skip(w) PROVE Backed'
  BY <1>4 DEF Skip, Take, dbVars, historyVars, TypeOK, CommitIsBacked, NoPhantomSuccess
<1>5. ASSUME NEW w \in Workers, Forward(w) PROVE Backed'
  BY <1>5 DEF Forward, Take, GoTo, dbVars, TypeOK, CommitIsBacked, NoPhantomSuccess
<1>6. ASSUME NEW w \in Workers, ForwardFails(w) PROVE Backed'
  BY <1>6
  DEF ForwardFails, Fault, Take, GoTo, dbVars, TypeOK, CommitIsBacked,
     NoPhantomSuccess
<1>7. ASSUME NEW w \in Workers, CommitDelivery(w) PROVE Backed'
  BY <1>7
  DEF CommitDelivery, RecordSuccess, GoTo, historyVars, TypeOK, CommitIsBacked,
     NoPhantomSuccess
<1>8. ASSUME NEW w \in Workers, CommitFails(w) PROVE Backed'
  BY <1>8
  DEF CommitFails, Fault, RecordSuccess, GoTo, historyVars, TypeOK,
     CommitIsBacked, NoPhantomSuccess
<1>9. ASSUME NEW w \in Workers, MarkFailed(w) PROVE Backed'
  BY <1>9 DEF MarkFailed, GoTo, historyVars, TypeOK, CommitIsBacked, NoPhantomSuccess
<1>10. ASSUME NEW w \in Workers, MarkFailedFails(w) PROVE Backed'
  BY <1>10 DEF MarkFailedFails, Fault, GoTo, TypeOK, CommitIsBacked, NoPhantomSuccess
<1>11. ASSUME NEW w \in Workers, Schedule(w) PROVE Backed'
  BY <1>11
  DEF Schedule, IsNextAttempt, GoTo, historyVars, TypeOK, CommitIsBacked,
     NoPhantomSuccess
<1>12. ASSUME NEW w \in Workers, ScheduleFails(w) PROVE Backed'
  BY <1>12
  DEF ScheduleFails, Fault, GoTo, dbVars, TypeOK, CommitIsBacked,
     NoPhantomSuccess
<1>13. ASSUME NEW w \in Workers, FinishBatch(w) PROVE Backed'
  BY <1>13
  DEF FinishBatch, GoTo, dbVars, historyVars, TypeOK, CommitIsBacked,
     NoPhantomSuccess
<1>14. ASSUME NEW w \in Workers, Crash(w) PROVE Backed'
  BY <1>14 DEF Crash, Fault, GoTo, dbVars, TypeOK, CommitIsBacked, NoPhantomSuccess
<1>15. ASSUME NEW w \in Workers, Restart(w) PROVE Backed'
  BY <1>15
  DEF Restart, GoTo, dbVars, historyVars, TypeOK, CommitIsBacked,
     NoPhantomSuccess
<1>16. ASSUME UNCHANGED <<webhook, attempts, pc, batch, cur, reached, abandoned>> PROVE Backed'
  BY <1>16 DEF CommitIsBacked, NoPhantomSuccess
<1>17. QED
  BY <1>1, <1>2, <1>3, <1>4, <1>5, <1>6, <1>7, <1>8, <1>9, <1>10, <1>11, <1>12,
     <1>13, <1>14, <1>15, <1>16, QuietSteps
  DEF Next, Progress, Failure

\* No interleaving of workers, failed commits and crashes makes up a success.
THEOREM SuccessIsReal == Spec => []NoPhantomSuccess
<1>1. Init => CommitIsBacked /\ NoPhantomSuccess
  BY DEF Init, CommitIsBacked, NoPhantomSuccess
<1>2. QED
  BY <1>1, SuccessStep, TypeCorrect, PTL DEF Spec

\* What LossWindow says of a target that was created.
Kept(t) ==
    \/ \E a \in AttemptId : TargetOf(a) = t /\ attempts[a] \in {"scheduled", "success"}
    \/ \E w \in Workers : pc[w] = "schedule" /\ TargetOf(cur[w]) = t
    \/ t \in abandoned

\* Every step keeps the targets in sight, except for the window of rescheduleEvent.
LEMMA LossStep == TypeOK /\ LossWindow /\ [Next]_vars => LossWindow'
<1> SUFFICES ASSUME TypeOK, LossWindow, [Next]_vars, NEW t \in Target, Created(t)'
             PROVE  Kept(t)'
  BY DEF LossWindow, Kept
<1> USE AttemptFacts, TargetFacts
<1>a. Created(t) => Kept(t)
  BY DEF LossWindow, Kept
<1> DEFINE first == <<t[1], t[2], 1>>
<1>b. first \in AttemptId /\ TargetOf(first) = t
  OBVIOUS
<1> USE <1>a, <1>b
<1>1. ASSUME NEW h \in Webhooks, NEW s \in Services, HandleEvent(h, s) PROVE Kept(t)'
  BY <1>1, FirstAttemptFacts DEF HandleEvent, workerVars, TypeOK, Kept, Created
<1>2. ASSUME NEW w \in Workers, TickerFires(w) PROVE Kept(t)'
  BY <1>2
  DEF TickerFires, Fetch, GoTo, DueAttempts, dbVars, channelVars, historyVars,
     TypeOK, Kept, Created
<1>3. ASSUME NEW w \in Workers, NotificationArrives(w) PROVE Kept(t)'
  BY <1>3
  DEF NotificationArrives, Fetch, GoTo, DueAttempts, dbVars, historyVars,
     TypeOK, Kept, Created
<1>4. ASSUME NEW w \in Workers, Skip(w) PROVE Kept(t)'
  BY <1>4 DEF Skip, Take, dbVars, historyVars, TypeOK, Kept, Created
<1>5. ASSUME NEW w \in Workers, Forward(w) PROVE Kept(t)'
  BY <1>5 DEF Forward, Take, GoTo, dbVars, TypeOK, Kept, Created
<1>6. ASSUME NEW w \in Workers, ForwardFails(w) PROVE Kept(t)'
  BY <1>6 DEF ForwardFails, Fault, Take, GoTo, dbVars, TypeOK, Kept, Created
<1>7. ASSUME NEW w \in Workers, CommitDelivery(w) PROVE Kept(t)'
  BY <1>7 DEF CommitDelivery, RecordSuccess, GoTo, historyVars, TypeOK, Kept, Created
<1>8. ASSUME NEW w \in Workers, CommitFails(w) PROVE Kept(t)'
  BY <1>8 DEF CommitFails, Fault, RecordSuccess, GoTo, historyVars, TypeOK, Kept, Created
<1>9. ASSUME NEW w \in Workers, MarkFailed(w) PROVE Kept(t)'
  BY <1>9 DEF MarkFailed, GoTo, historyVars, TypeOK, Kept, Created
<1>10. ASSUME NEW w \in Workers, MarkFailedFails(w) PROVE Kept(t)'
  BY <1>10 DEF MarkFailedFails, Fault, GoTo, TypeOK, Kept, Created
<1>11. ASSUME NEW w \in Workers, Schedule(w) PROVE Kept(t)'
  BY <1>11 DEF Schedule, IsNextAttempt, GoTo, historyVars, TypeOK, Kept, Created
<1>12. ASSUME NEW w \in Workers, ScheduleFails(w) PROVE Kept(t)'
  BY <1>12 DEF ScheduleFails, Fault, GoTo, dbVars, TypeOK, Kept, Created
<1>13. ASSUME NEW w \in Workers, FinishBatch(w) PROVE Kept(t)'
  BY <1>13 DEF FinishBatch, GoTo, dbVars, historyVars, TypeOK, Kept, Created
<1>14. ASSUME NEW w \in Workers, Crash(w) PROVE Kept(t)'
  BY <1>14 DEF Crash, Fault, GoTo, dbVars, TypeOK, Kept, Created
<1>15. ASSUME NEW w \in Workers, Restart(w) PROVE Kept(t)'
  BY <1>15 DEF Restart, GoTo, dbVars, historyVars, TypeOK, Kept, Created
<1>16. ASSUME UNCHANGED <<webhook, attempts, pc, batch, cur, reached, abandoned>> PROVE Kept(t)'
  BY <1>16 DEF Kept, Created
<1>17. QED
  BY <1>1, <1>2, <1>3, <1>4, <1>5, <1>6, <1>7, <1>8, <1>9, <1>10, <1>11, <1>12,
     <1>13, <1>14, <1>15, <1>16, QuietSteps
  DEF Next, Progress, Failure

\* A target is lost nowhere but between the two statements of rescheduleEvent.
THEOREM NothingElseIsLost == Spec => []LossWindow
<1>1. Init => LossWindow
  BY TargetFacts DEF Init, LossWindow, Created
<1>2. QED
  BY <1>1, LossStep, TypeCorrect, PTL DEF Spec

\* Every step keeps settled attempts settled.
LEMMA SettledStep == TypeOK /\ RowsExist /\ [Next]_vars => [NothingIsReopened]_vars
<1> SUFFICES ASSUME TypeOK, RowsExist, [Next]_vars PROVE NothingIsReopened
  OBVIOUS
<1> USE AttemptFacts
<1>1. ASSUME NEW h \in Webhooks, NEW s \in Services, HandleEvent(h, s) PROVE NothingIsReopened
  BY <1>1, FirstAttemptFacts
  DEF HandleEvent, workerVars, TypeOK, RowsExist, NothingIsReopened
<1>2. ASSUME NEW w \in Workers, TickerFires(w) PROVE NothingIsReopened
  BY <1>2
  DEF TickerFires, Fetch, GoTo, DueAttempts, dbVars, channelVars, historyVars,
     TypeOK, RowsExist, NothingIsReopened
<1>3. ASSUME NEW w \in Workers, NotificationArrives(w) PROVE NothingIsReopened
  BY <1>3
  DEF NotificationArrives, Fetch, GoTo, DueAttempts, dbVars, historyVars,
     TypeOK, RowsExist, NothingIsReopened
<1>4. ASSUME NEW w \in Workers, Skip(w) PROVE NothingIsReopened
  BY <1>4 DEF Skip, Take, dbVars, historyVars, TypeOK, RowsExist, NothingIsReopened
<1>5. ASSUME NEW w \in Workers, Forward(w) PROVE NothingIsReopened
  BY <1>5 DEF Forward, Take, GoTo, dbVars, TypeOK, RowsExist, NothingIsReopened
<1>6. ASSUME NEW w \in Workers, ForwardFails(w) PROVE NothingIsReopened
  BY <1>6
  DEF ForwardFails, Fault, Take, GoTo, dbVars, TypeOK, RowsExist,
     NothingIsReopened
<1>7. ASSUME NEW w \in Workers, CommitDelivery(w) PROVE NothingIsReopened
  BY <1>7
  DEF CommitDelivery, RecordSuccess, GoTo, historyVars, TypeOK, RowsExist,
     NothingIsReopened
<1>8. ASSUME NEW w \in Workers, CommitFails(w) PROVE NothingIsReopened
  BY <1>8
  DEF CommitFails, Fault, RecordSuccess, GoTo, historyVars, TypeOK, RowsExist,
     NothingIsReopened
<1>9. ASSUME NEW w \in Workers, MarkFailed(w) PROVE NothingIsReopened
  BY <1>9 DEF MarkFailed, GoTo, historyVars, TypeOK, RowsExist, NothingIsReopened
<1>10. ASSUME NEW w \in Workers, MarkFailedFails(w) PROVE NothingIsReopened
  BY <1>10 DEF MarkFailedFails, Fault, GoTo, TypeOK, RowsExist, NothingIsReopened
<1>11. ASSUME NEW w \in Workers, Schedule(w) PROVE NothingIsReopened
  BY <1>11
  DEF Schedule, IsNextAttempt, GoTo, historyVars, TypeOK, RowsExist,
     NothingIsReopened
<1>12. ASSUME NEW w \in Workers, ScheduleFails(w) PROVE NothingIsReopened
  BY <1>12 DEF ScheduleFails, Fault, GoTo, dbVars, TypeOK, RowsExist, NothingIsReopened
<1>13. ASSUME NEW w \in Workers, FinishBatch(w) PROVE NothingIsReopened
  BY <1>13
  DEF FinishBatch, GoTo, dbVars, historyVars, TypeOK, RowsExist,
     NothingIsReopened
<1>14. ASSUME NEW w \in Workers, Crash(w) PROVE NothingIsReopened
  BY <1>14 DEF Crash, Fault, GoTo, dbVars, TypeOK, RowsExist, NothingIsReopened
<1>15. ASSUME NEW w \in Workers, Restart(w) PROVE NothingIsReopened
  BY <1>15 DEF Restart, GoTo, dbVars, historyVars, TypeOK, RowsExist, NothingIsReopened
<1>16. ASSUME UNCHANGED <<webhook, attempts, pc, batch, cur, reached, abandoned>> PROVE NothingIsReopened
  BY <1>16 DEF NothingIsReopened
<1>17. QED
  BY <1>1, <1>2, <1>3, <1>4, <1>5, <1>6, <1>7, <1>8, <1>9, <1>10, <1>11, <1>12,
     <1>13, <1>14, <1>15, <1>16, QuietSteps
  DEF Next, Progress, Failure

\* A retry is always a new row and a success of a webhook is never taken back.
THEOREM RetriesAreNewRows == Spec => SettledStaysSettled
BY SettledStep, TypeCorrect, RowsInvariant, PTL DEF Spec, SettledStaysSettled

-----------------------------------------------------------------------------
(* Retries, with any number of workers *)

\* A target that has a row has its first, which the schema let in.
Founded ==
    \A a \in AttemptId :
        attempts[a] # "absent" => HashDefault /\ attempts[<<a[1], a[2], 1>>] # "absent"

\* Every step keeps it: a retry is of a row that a worker holds.
LEMMA FoundedStep == TypeOK /\ RowsExist /\ Founded /\ [Next]_vars => Founded'
<1> SUFFICES ASSUME TypeOK, RowsExist, Founded, [Next]_vars PROVE Founded'
  OBVIOUS
<1> USE AttemptFacts
<1>0. \A a \in AttemptId : <<a[1], a[2], 1>> \in AttemptId
  BY TargetFacts DEF TargetOf
<1>a. ASSUME \A a \in AttemptId : attempts'[a] = "absent" <=> attempts[a] = "absent"
      PROVE  Founded'
  BY <1>0, <1>a DEF Founded
<1>1. ASSUME NEW h \in Webhooks, NEW s \in Services, HandleEvent(h, s) PROVE Founded'
  <2>1. Config[s] = {} => FirstAttempts(h, s) = {}
    BY DEF FirstAttempts
  <2>2. \A a \in FirstAttempts(h, s) : <<a[1], a[2], 1>> = a
    BY DEF FirstAttempts
  <2>3. \A a \in AttemptId :
            attempts'[a] = IF a \in FirstAttempts(h, s) THEN "scheduled" ELSE attempts[a]
    BY <1>1 DEF HandleEvent
  <2>4. Config[s] = {} \/ HashDefault
    BY <1>1 DEF HandleEvent
  <2>5. QED
    BY <1>0, <2>1, <2>2, <2>3, <2>4 DEF Founded
<1>2. ASSUME NEW w \in Workers,
             \/ TickerFires(w) \/ NotificationArrives(w) \/ Skip(w) \/ Forward(w)
             \/ ForwardFails(w) \/ ScheduleFails(w) \/ FinishBatch(w)
             \/ Crash(w) \/ Restart(w)
      PROVE  Founded'
  BY <1>2, <1>a
  DEF TickerFires, NotificationArrives, Skip, Forward, ForwardFails, ScheduleFails,
      FinishBatch, Crash, Restart, dbVars
<1>3. ASSUME NEW w \in Workers,
             CommitDelivery(w) \/ CommitFails(w) \/ MarkFailed(w) \/ MarkFailedFails(w)
      PROVE  Founded'
  <2>1. cur[w] \in AttemptId /\ attempts[cur[w]] # "absent"
    BY <1>3 DEF CommitDelivery, CommitFails, MarkFailed, MarkFailedFails, TypeOK, RowsExist
  <2>2. \/ attempts' = attempts
        \/ attempts' = [attempts EXCEPT ![cur[w]] = "success"]
        \/ attempts' = [attempts EXCEPT ![cur[w]] = "failed"]
    BY <1>3 DEF CommitDelivery, CommitFails, MarkFailed, MarkFailedFails, RecordSuccess
  <2>3. QED
    BY <2>1, <2>2, <1>a DEF TypeOK
<1>4. ASSUME NEW w \in Workers, Schedule(w) PROVE Founded'
  <2>1. PICK b \in AttemptId :
            IsNextAttempt(b, cur[w]) /\ attempts' = [attempts EXCEPT ![b] = "scheduled"]
    BY <1>4 DEF Schedule
  <2>2. cur[w] \in AttemptId /\ attempts[cur[w]] # "absent"
    BY <1>4 DEF Schedule, TypeOK, RowsExist
  <2>3. b[1] = cur[w][1] /\ b[2] = cur[w][2]
    BY <2>1 DEF IsNextAttempt, TargetOf
  <2>4. QED
    BY <1>0, <2>1, <2>2, <2>3 DEF Founded, TypeOK
<1>5. ASSUME UNCHANGED <<webhook, attempts, pc, batch, cur, reached, abandoned>> PROVE Founded'
  BY <1>5 DEF Founded
<1>6. QED
  BY <1>1, <1>2, <1>3, <1>4, <1>5, QuietSteps DEF Next, Progress, Failure

\* What has to be counted is finite, and is within the faults.
Paid == IsFiniteSet(Retries) /\ IsFiniteSet(Rescheduling) /\ RetriesCostFaults

\* A step that does not fail and inserts nothing leaves the count as it is, one that
\* fails sends at most one worker to reschedule, and one that inserts brings a worker
\* back.
LEMMA PaidBySteps ==
    ASSUME TypeOK, Paid, NEW w, NEW b, faults' \in Nat,
           \/ /\ Retries' = Retries
              /\ Rescheduling' \subseteq Rescheduling
              /\ faults' >= faults
           \/ /\ Retries' = Retries
              /\ Rescheduling' \subseteq Rescheduling \cup {w}
              /\ faults' = faults + 1
           \/ /\ Retries' \subseteq Retries \cup {b}
              /\ w \in Rescheduling
              /\ Rescheduling' \subseteq Rescheduling \ {w}
              /\ faults' = faults
    PROVE  Paid'
<1>1. /\ Cardinality(Retries) \in Nat
      /\ Cardinality(Rescheduling) \in Nat
      /\ faults \in Nat
      /\ Cardinality(Retries) + Cardinality(Rescheduling) <= faults
  BY FS_CardinalityType, BoundAssumption DEF Paid, RetriesCostFaults, TypeOK
<1>2. \A S, T : IsFiniteSet(T) /\ S \subseteq T =>
          IsFiniteSet(S) /\ Cardinality(S) \in Nat /\ Cardinality(T) \in Nat
            /\ Cardinality(S) <= Cardinality(T)
  BY FS_Subset, FS_CardinalityType
<1>3. /\ IsFiniteSet(Rescheduling \cup {w})
      /\ Cardinality(Rescheduling \cup {w}) <= Cardinality(Rescheduling) + 1
      /\ IsFiniteSet(Retries \cup {b})
      /\ Cardinality(Retries \cup {b}) <= Cardinality(Retries) + 1
  <2>1. ASSUME NEW S, NEW x, IsFiniteSet(S)
        PROVE  IsFiniteSet(S \cup {x}) /\ Cardinality(S \cup {x}) <= Cardinality(S) + 1
    <3>1. Cardinality(S) \in Nat
      BY <2>1, FS_CardinalityType
    <3>2. /\ IsFiniteSet(S \cup {x})
          /\ Cardinality(S \cup {x}) = IF x \in S THEN Cardinality(S) ELSE Cardinality(S) + 1
      BY <2>1, FS_AddElement, Zenon
    <3>3. QED
      BY <3>1, <3>2
  <2>2. QED
    BY <2>1 DEF Paid
<1>4. /\ IsFiniteSet(Rescheduling \ {w})
      /\ w \in Rescheduling => Cardinality(Rescheduling \ {w}) = Cardinality(Rescheduling) - 1
  BY FS_RemoveElement DEF Paid
<1>5. CASE Retries' = Retries /\ Rescheduling' \subseteq Rescheduling /\ faults' >= faults
  BY <1>1, <1>2, <1>5 DEF Paid, RetriesCostFaults
<1>6. CASE /\ Retries' = Retries
           /\ Rescheduling' \subseteq Rescheduling \cup {w}
           /\ faults' = faults + 1
  BY <1>1, <1>2, <1>3, <1>6 DEF Paid, RetriesCostFaults
<1>7. CASE /\ Retries' \subseteq Retries \cup {b}
           /\ w \in Rescheduling
           /\ Rescheduling' \subseteq Rescheduling \ {w}
           /\ faults' = faults
  <2>1. Cardinality(Retries') <= Cardinality(Retries) + 1 /\ IsFiniteSet(Retries')
        /\ Cardinality(Retries') \in Nat
    BY <1>1, <1>2, <1>3, <1>7
  <2>2. Cardinality(Rescheduling') <= Cardinality(Rescheduling) - 1
        /\ IsFiniteSet(Rescheduling') /\ Cardinality(Rescheduling') \in Nat
    BY <1>1, <1>2, <1>4, <1>7
  <2>3. QED
    BY <1>1, <2>1, <2>2, <1>7 DEF Paid, RetriesCostFaults
<1>8. QED
  BY <1>5, <1>6, <1>7

\* Every step keeps the count.
LEMMA PaidStep ==
    TypeOK /\ TypeOK' /\ RowsExist /\ Founded /\ Paid /\ [Next]_vars => Paid'
<1> SUFFICES ASSUME TypeOK, TypeOK', RowsExist, Founded, Paid, [Next]_vars PROVE Paid'
  OBVIOUS
<1> USE AttemptFacts
<1>0. faults \in Nat /\ faults' \in Nat
  BY BoundAssumption DEF TypeOK
<1>a. ASSUME \A a \in AttemptId : a[3] > 1 => (attempts'[a] = "absent" <=> attempts[a] = "absent")
      PROVE  Retries' = Retries
  BY <1>a DEF Retries
<1>1. ASSUME NEW h \in Webhooks, NEW s \in Services, HandleEvent(h, s) PROVE Paid'
  <2>1. Retries' = Retries
    BY <1>1, <1>a, FirstAttemptFacts DEF HandleEvent
  <2>2. Rescheduling' = Rescheduling /\ faults' = faults
    BY <1>1 DEF HandleEvent, Rescheduling, workerVars
  <2>3. QED
    BY <1>0, <2>1, <2>2, PaidBySteps
<1>2. ASSUME NEW w \in Workers,
             \/ TickerFires(w) \/ NotificationArrives(w) \/ Skip(w) \/ Forward(w)
             \/ FinishBatch(w) \/ Restart(w)
      PROVE  Paid'
  <2>1. Retries' = Retries /\ faults' = faults
    BY <1>2 DEF TickerFires, NotificationArrives, Skip, Forward, FinishBatch, Restart,
                dbVars, Retries
  <2>2. Rescheduling' \subseteq Rescheduling
    BY <1>2 DEF TickerFires, NotificationArrives, Fetch, Skip, Forward, FinishBatch, Restart,
                GoTo, Rescheduling, TypeOK
  <2>3. QED
    BY <1>0, <2>1, <2>2, PaidBySteps
<1>3. ASSUME NEW w \in Workers, ForwardFails(w) \/ ScheduleFails(w) \/ Crash(w) PROVE Paid'
  <2>1. Retries' = Retries /\ faults' = faults + 1
    BY <1>3 DEF ForwardFails, ScheduleFails, Crash, Fault, dbVars, Retries
  <2>2. Rescheduling' \subseteq Rescheduling \cup {w}
    BY <1>3 DEF ForwardFails, ScheduleFails, Crash, GoTo, Rescheduling, TypeOK
  <2>3. QED
    BY <1>0, <2>1, <2>2, PaidBySteps
<1>4. ASSUME NEW w \in Workers,
             CommitDelivery(w) \/ CommitFails(w) \/ MarkFailed(w) \/ MarkFailedFails(w)
      PROVE  Paid'
  <2>1. cur[w] \in AttemptId /\ attempts[cur[w]] # "absent"
    BY <1>4 DEF CommitDelivery, CommitFails, MarkFailed, MarkFailedFails, TypeOK, RowsExist
  <2>2. \/ attempts' = attempts
        \/ attempts' = [attempts EXCEPT ![cur[w]] = "success"]
        \/ attempts' = [attempts EXCEPT ![cur[w]] = "failed"]
    BY <1>4 DEF CommitDelivery, CommitFails, MarkFailed, MarkFailedFails, RecordSuccess
  <2>3. Retries' = Retries
    BY <2>1, <2>2, <1>a DEF TypeOK
  <2>4. CASE CommitDelivery(w) \/ MarkFailed(w)
    <3>1. Rescheduling' \subseteq Rescheduling /\ faults' = faults
      BY <2>4 DEF CommitDelivery, MarkFailed, GoTo, Rescheduling, TypeOK
    <3>2. QED
      BY <1>0, <2>3, <3>1, PaidBySteps
  <2>5. CASE CommitFails(w) \/ MarkFailedFails(w)
    <3>1. Rescheduling' \subseteq Rescheduling \cup {w} /\ faults' = faults + 1
      BY <2>5 DEF CommitFails, MarkFailedFails, Fault, GoTo, Rescheduling, TypeOK
    <3>2. QED
      BY <1>0, <2>3, <3>1, PaidBySteps
  <2>6. QED
    BY <1>4, <2>4, <2>5
<1>5. ASSUME NEW w \in Workers, Schedule(w) PROVE Paid'
  <2>1. PICK b \in AttemptId :
            IsNextAttempt(b, cur[w]) /\ attempts' = [attempts EXCEPT ![b] = "scheduled"]
    BY <1>5 DEF Schedule
  <2>2. Retries' \subseteq Retries \cup {b}
    BY <2>1 DEF Retries, TypeOK
  <2>3. w \in Rescheduling /\ Rescheduling' \subseteq Rescheduling \ {w} /\ faults' = faults
    BY <1>5 DEF Schedule, GoTo, Rescheduling, TypeOK
  <2>4. QED
    BY <1>0, <2>2, <2>3, PaidBySteps
<1>6. ASSUME \/ \E h \in Webhooks : Notify(h) \/ NotifyLost(h)
             \/ \E a \in AttemptId : BecomeDue(a)
             \/ \E w \in Workers : Listen(w) \/ ListenerLost(w) \/ FetchFails(w)
             \/ UNCHANGED vars
      PROVE  Paid'
  <2>1. /\ Retries' = Retries /\ Rescheduling' = Rescheduling
        /\ faults' = faults \/ faults' = faults + 1
    BY <1>6, QuietSteps DEF Retries, Rescheduling
  <2>2. QED
    BY <1>0, <2>1, PaidBySteps
<1>7. QED
  BY <1>1, <1>2, <1>3, <1>4, <1>5, <1>6 DEF Next, Progress, Failure

\* In every reachable state.
LEMMA PaidInvariant == Spec => [](Founded /\ Paid)
<1>1. Init => Founded /\ Paid
  <2> SUFFICES ASSUME Init PROVE Founded /\ Paid
    OBVIOUS
  <2>1. Retries = {} /\ Rescheduling = {} /\ faults = 0 /\ Founded
    BY DEF Init, Retries, Rescheduling, Founded
  <2>2. QED
    BY <2>1, FS_EmptySet DEF Paid, RetriesCostFaults
<1>2. TypeOK /\ TypeOK' /\ RowsExist /\ Founded /\ Paid /\ [Next]_vars => Founded' /\ Paid'
  BY FoundedStep, PaidStep
<1>3. QED
  BY <1>1, <1>2, TypeCorrect, RowsInvariant, PTL DEF Spec

\* Every retry answers a failure of its own, however many workers there are and whatever
\* rows they share.
THEOREM RetriesArePaidFor == Spec => []RetriesCostFaults
<1>1. Paid => RetriesCostFaults
  BY DEF Paid
<1>2. QED
  BY <1>1, PaidInvariant, PTL

\* The numbers from 2 on of a target, all taken, are as many as the faults may be.
LEMMA FullTarget ==
    ASSUME Paid, NEW t \in Target,
           \A n \in 2..MaxAttempts : attempts[<<t[1], t[2], n>>] # "absent"
    PROVE  Cardinality(Retries) >= MaxFaults
<1> DEFINE f == [n \in 2..MaxAttempts |-> <<t[1], t[2], n>>]
<1>1. MaxFaults \in Nat /\ MaxAttempts = MaxFaults + 1
  BY BoundAssumption DEF MaxAttempts
<1>2. \A n \in 2..MaxAttempts : f[n] \in Retries
  BY <1>1 DEF Retries, AttemptId, Target
<1>3. f \in Injection(2..MaxAttempts, Retries)
  <2>1. f \in [2..MaxAttempts -> Retries]
    BY <1>2
  <2>2. \A m, n \in 2..MaxAttempts : f[m] = f[n] => m = n
    OBVIOUS
  <2>3. QED
    BY <2>1, <2>2 DEF Injection, IsInjective
<1>4. Cardinality(2..MaxAttempts) <= Cardinality(Retries)
  BY <1>3, FS_Injection DEF Paid
<1>5. Cardinality(2..MaxAttempts) = MaxFaults
  BY <1>1, FS_Interval
<1>6. QED
  BY <1>4, <1>5

\* A non-empty set of numbers has a least one.
LEMMA LeastNumber ==
    ASSUME NEW S \in SUBSET Nat, S # {}
    PROVE  \E i \in S : \A j \in S : i <= j
<1>1. PICK i \in S : \A j \in S : ~ (<<j, i>> \in OpToRel(<, Nat))
  BY NatLessThanWellFounded, WFMin
<1>2. \A j \in S : ~ (j < i)
  BY <1>1 DEF OpToRel
<1>3. QED
  BY <1>2

\* What is rescheduled can be: MaxAttempts cuts off no behaviour.
THEOREM RetriesFindRoom == Spec => []RetriesHaveRoom
<1>1. ASSUME TypeOK, RowsExist, Founded, Paid, NEW w \in Workers, pc[w] = "schedule"
      PROVE  HashDefault /\ \E b \in AttemptId : IsNextAttempt(b, cur[w])
  <2> DEFINE a    == cur[w]
             t    == TargetOf(a)
             free == {n \in 1..MaxAttempts : attempts[<<t[1], t[2], n>>] = "absent"}
  <2>1. a \in AttemptId /\ t \in Target /\ attempts[a] # "absent"
    BY <1>1, AttemptFacts DEF TypeOK, RowsExist
  <2>2. HashDefault
    BY <1>1, <2>1 DEF Founded
  <2>3. free # {}
    <3> SUFFICES ASSUME free = {} PROVE FALSE
      OBVIOUS
    <3>1. Cardinality(Retries) >= MaxFaults
      BY <1>1, <2>1, FullTarget
    <3>2. Cardinality(Rescheduling) >= 1
      <4>1. w \in Rescheduling
        BY <1>1 DEF Rescheduling
      <4>2. Cardinality(Rescheduling) # 0 /\ Cardinality(Rescheduling) \in Nat
        BY <1>1, <4>1, FS_EmptySet, FS_CardinalityType DEF Paid
      <4>3. QED
        BY <4>2
    <3>3. Cardinality(Retries) \in Nat /\ Cardinality(Rescheduling) \in Nat
      BY <1>1, FS_CardinalityType DEF Paid
    <3>4. QED
      BY <1>1, <3>1, <3>2, <3>3, BoundAssumption DEF Paid, RetriesCostFaults, TypeOK
  <2>4. PICK n \in free : \A m \in free : n <= m
    <3>1. free \in SUBSET Nat
      BY BoundAssumption DEF MaxAttempts
    <3> HIDE DEF free
    <3>2. QED
      BY <2>3, <3>1, LeastNumber
  <2> DEFINE b == <<t[1], t[2], n>>
  <2>5. b \in AttemptId /\ TargetOf(b) = t /\ attempts[b] = "absent"
    BY <2>1 DEF Target, AttemptId, TargetOf
  <2>6. ASSUME NEW c \in AttemptId, TargetOf(c) = t, c[3] < n
        PROVE  attempts[c] # "absent"
    <3>1. c = <<t[1], t[2], c[3]>> /\ c[3] \in 1..MaxAttempts
      BY <2>6 DEF AttemptId, TargetOf
    <3>2. c[3] \notin free
      BY <2>4, <2>6, <3>1, BoundAssumption DEF MaxAttempts
    <3>3. QED
      BY <3>1, <3>2
  <2>7. IsNextAttempt(b, a)
    BY <2>5, <2>6 DEF IsNextAttempt
  <2>8. QED
    BY <2>2, <2>5, <2>7
<1>2. TypeOK /\ RowsExist /\ Founded /\ Paid => RetriesHaveRoom
  BY <1>1 DEF RetriesHaveRoom
<1>3. QED
  BY <1>2, TypeCorrect, RowsInvariant, PaidInvariant, PTL

-----------------------------------------------------------------------------
(* Rounds, with any number of workers *)

\* As many attempts became due as there were moments for it.
FiniteRows == IsFiniteSet(due) /\ \A w \in Workers : IsFiniteSet(batch[w])

\* Every step keeps the batches finite.
LEMMA FiniteStep == TypeOK /\ FiniteRows /\ [Next]_vars => FiniteRows'
<1> SUFFICES ASSUME TypeOK, FiniteRows, [Next]_vars PROVE FiniteRows'
  OBVIOUS
<1>0. \A S, T : IsFiniteSet(T) /\ S \subseteq T => IsFiniteSet(S)
  BY FS_Subset
<1>1. ASSUME due' = due, \A w \in Workers : batch'[w] \subseteq batch[w] PROVE FiniteRows'
  BY <1>0, <1>1 DEF FiniteRows
<1>2. ASSUME NEW a \in AttemptId, BecomeDue(a) PROVE FiniteRows'
  <2>1. IsFiniteSet(due \cup {a})
    BY FS_AddElement, Zenon DEF FiniteRows
  <2>2. QED
    BY <1>2, <2>1 DEF BecomeDue, workerVars, FiniteRows
<1>3. ASSUME NEW w \in Workers, TickerFires(w) \/ NotificationArrives(w) PROVE FiniteRows'
  <2>1. DueAttempts \subseteq due
    BY DEF DueAttempts
  <2>2. IsFiniteSet(DueAttempts)
    BY <1>0, <2>1 DEF FiniteRows
  <2>3. due' = due /\ batch' = [batch EXCEPT ![w] = DueAttempts]
    BY <1>3 DEF TickerFires, NotificationArrives, Fetch, dbVars
  <2>4. QED
    BY <2>2, <2>3 DEF FiniteRows, TypeOK
<1>4. QED
  BY <1>1, <1>2, <1>3
  DEF Next, Progress, Failure, HandleEvent, Notify, NotifyLost, Listen, ListenerLost,
      FetchFails, Skip, Forward, ForwardFails, Take, CommitDelivery, CommitFails, MarkFailed,
      MarkFailedFails, Schedule, ScheduleFails, FinishBatch, Crash, Restart, TypeOK, vars,
      dbVars, workerVars

\* In every reachable state.
LEMMA FiniteInvariant == Spec => []FiniteRows
<1>1. Init => FiniteRows
  BY FS_EmptySet DEF Init, FiniteRows
<1>2. QED
  BY <1>1, FiniteStep, TypeCorrect, PTL DEF Spec

\* A row that is taken leaves one less to come to.
LEMMA TakenRow ==
    ASSUME TypeOK, FiniteRows, NEW w \in Workers, NEW a, Take(w, a)
    PROVE  /\ pc[w] = "deliver"
           /\ Cardinality(batch[w]) \in Nat
           /\ Cardinality(batch'[w]) = Cardinality(batch[w]) - 1
<1>1. pc[w] = "deliver" /\ a \in batch[w] /\ batch'[w] = batch[w] \ {a}
  BY DEF Take, TypeOK
<1>2. QED
  BY <1>1, FS_RemoveElement, FS_CardinalityType DEF FiniteRows

\* A worker comes nearer to the end of its round with every step of its own.
LEMMA OwnStepLeft ==
    ASSUME TypeOK, FiniteRows, NEW w \in Workers, InRound(w),
           \/ Progress(w) \/ ForwardFails(w) \/ CommitFails(w) \/ MarkFailedFails(w)
           \/ ScheduleFails(w) \/ Crash(w)
    PROVE  StepsLeft(w)' < StepsLeft(w)
<1> DEFINE n == Cardinality(batch[w])
<1>0. n \in Nat
  BY FS_CardinalityType DEF FiniteRows
<1> HIDE DEF n
<1>1. StepsLeft(w) = 1 + 4 * n + StepsInHand(pc[w])
  BY DEF StepsLeft, n
<1>2. ASSUME NEW a, Take(w, a), pc'[w] \in {"deliver", "commit", "reschedule"}
      PROVE  StepsLeft(w)' < StepsLeft(w)
  <2>1. pc[w] = "deliver" /\ Cardinality(batch'[w]) = n - 1
    BY <1>2, TakenRow DEF n
  <2>2. StepsLeft(w)' = 1 + 4 * (n - 1) + StepsInHand(pc'[w])
    BY <1>2, <2>1 DEF StepsLeft, InRound
  <2>3. QED
    BY <1>0, <1>1, <1>2, <2>1, <2>2 DEF StepsInHand
<1>3. CASE Skip(w) \/ Forward(w) \/ ForwardFails(w)
  <2>1. \E a : Take(w, a) /\ pc'[w] \in {"deliver", "commit", "reschedule"}
    BY <1>3 DEF Skip, Forward, ForwardFails, Take, GoTo, TypeOK
  <2>2. QED
    BY <1>2, <2>1
<1>4. ASSUME batch' = batch, InRound(w)', StepsInHand(pc'[w]) < StepsInHand(pc[w])
      PROVE  StepsLeft(w)' < StepsLeft(w)
  <2>1. StepsLeft(w)' = 1 + 4 * n + StepsInHand(pc'[w])
    BY <1>4 DEF StepsLeft, n
  <2>2. StepsInHand(pc'[w]) \in Nat /\ StepsInHand(pc[w]) \in Nat
    BY DEF StepsInHand
  <2>3. QED
    BY <1>0, <1>1, <1>4, <2>1, <2>2
<1>5. CASE \/ CommitDelivery(w) \/ CommitFails(w) \/ MarkFailed(w) \/ MarkFailedFails(w)
           \/ Schedule(w) \/ ScheduleFails(w)
  BY <1>4, <1>5
  DEF CommitDelivery, CommitFails, MarkFailed, MarkFailedFails, Schedule, ScheduleFails,
      GoTo, InRound, StepsInHand, TypeOK
<1>6. CASE FinishBatch(w) \/ Crash(w)
  <2>1. StepsLeft(w)' = 0
    BY <1>6 DEF FinishBatch, Crash, GoTo, StepsLeft, InRound, TypeOK
  <2>2. StepsInHand(pc[w]) \in Nat
    BY DEF StepsInHand
  <2>3. QED
    BY <1>0, <1>1, <2>1, <2>2
<1>7. ~TickerFires(w) /\ ~NotificationArrives(w)
  BY DEF TickerFires, NotificationArrives, Fetch, InRound
<1>8. QED
  BY <1>3, <1>5, <1>6, <1>7 DEF Progress

\* A round ends by itself: nothing that happens to a worker makes its round longer.
THEOREM RoundsEnd == Spec => RoundsGetShorter
<1>1. ASSUME TypeOK, FiniteRows, Next PROVE EndComesNearer
  <2> SUFFICES ASSUME NEW w \in Workers, InRound(w),
                      ~UNCHANGED <<pc[w], batch[w], cur[w]>>
               PROVE  StepsLeft(w)' < StepsLeft(w)
    BY DEF EndComesNearer
  <2>1. ASSUME NEW v \in Workers, v # w, Progress(v) \/ Failure(v) \/ Listen(v) \/ Restart(v)
        PROVE  UNCHANGED <<pc[w], batch[w], cur[w]>>
    <3>1. batch' = batch \/ \E B : batch' = [batch EXCEPT ![v] = B]
      BY <2>1
      DEF Progress, Failure, TickerFires, NotificationArrives, Fetch, ListenerLost,
          FetchFails, Skip, Forward, ForwardFails, Take, CommitDelivery, CommitFails,
          MarkFailed, MarkFailedFails, Schedule, ScheduleFails, FinishBatch, Crash, Restart,
          Listen, workerVars
    <3>2. (pc' = pc /\ cur' = cur) \/ \E p, a : GoTo(v, p, a)
      BY <2>1
      DEF Progress, Failure, TickerFires, NotificationArrives, Fetch, ListenerLost,
          FetchFails, Skip, Forward, ForwardFails, CommitDelivery, CommitFails, MarkFailed,
          MarkFailedFails, Schedule, ScheduleFails, FinishBatch, Crash, Restart, Listen,
          workerVars
    <3>3. batch'[w] = batch[w]
      <4>1. ASSUME NEW B, batch' = [batch EXCEPT ![v] = B] PROVE batch'[w] = batch[w]
        BY <1>1, <2>1, <4>1 DEF TypeOK
      <4>2. QED
        BY <3>1, <4>1
    <3>4. pc'[w] = pc[w] /\ cur'[w] = cur[w]
      <4>1. ASSUME NEW p, NEW a, GoTo(v, p, a) PROVE pc'[w] = pc[w] /\ cur'[w] = cur[w]
        BY <1>1, <2>1, <4>1 DEF GoTo, TypeOK
      <4>2. QED
        BY <3>2, <4>1
    <3>5. QED
      BY <3>3, <3>4
  <2>2. ~Restart(w)
    BY DEF Restart, InRound
  <2>3. ASSUME UNCHANGED workerVars PROVE FALSE
    BY <2>3 DEF workerVars
  <2>4. QED
    BY <1>1, <2>1, <2>2, <2>3, OwnStepLeft
    DEF Next, Failure, HandleEvent, Notify, NotifyLost, BecomeDue, Listen, ListenerLost,
        FetchFails, vars
<1>2. TypeOK /\ FiniteRows /\ [Next]_vars => [EndComesNearer]_vars
  BY <1>1
<1>3. QED
  BY <1>2, TypeCorrect, FiniteInvariant, PTL DEF Spec, RoundsGetShorter

-----------------------------------------------------------------------------
(* One worker *)

\* What keeps a lone worker from delivering a target twice: the open attempt of a
\* target is unique, is the one in the worker's hands until it is marked failed, and
\* is gone by the time the next one is inserted.
OneWorker ==
    /\ \A a, b \in AttemptId :
          attempts[a] = "scheduled" /\ attempts[b] = "scheduled" /\ TargetOf(a) = TargetOf(b)
          => a = b
    /\ \A w \in Workers : pc[w] = "schedule" =>
          \A a \in AttemptId : TargetOf(a) = TargetOf(cur[w]) => attempts[a] # "scheduled"
    /\ \A w \in Workers : pc[w] \in {"commit", "reschedule"} =>
          \A a \in AttemptId :
              attempts[a] = "scheduled" /\ TargetOf(a) = TargetOf(cur[w]) => a = cur[w]
    /\ \A w \in Workers : \A a \in batch[w] : attempts[a] = "scheduled" /\ a # cur[w]
    /\ \A w \in Workers : pc[w] = "commit" => attempts[cur[w]] = "scheduled"

\* Every step of a lone worker keeps it.
LEMMA OneWorkerStep ==
    SingleWorker /\ TypeOK /\ RowsExist /\ OneWorker /\ [Next]_vars => OneWorker'
<1> SUFFICES ASSUME SingleWorker, TypeOK, RowsExist, OneWorker, [Next]_vars PROVE OneWorker'
  OBVIOUS
<1> USE AttemptFacts DEF SingleWorker
<1>1. ASSUME NEW h \in Webhooks, NEW s \in Services, HandleEvent(h, s) PROVE OneWorker'
  BY <1>1, FirstAttemptFacts DEF HandleEvent, workerVars, TypeOK, RowsExist, OneWorker
<1>2. ASSUME NEW w \in Workers, TickerFires(w) PROVE OneWorker'
  BY <1>2
  DEF TickerFires, Fetch, GoTo, DueAttempts, dbVars, channelVars, historyVars,
     TypeOK, RowsExist, OneWorker
<1>3. ASSUME NEW w \in Workers, NotificationArrives(w) PROVE OneWorker'
  BY <1>3
  DEF NotificationArrives, Fetch, GoTo, DueAttempts, dbVars, historyVars,
     TypeOK, RowsExist, OneWorker
<1>4. ASSUME NEW w \in Workers, Skip(w) PROVE OneWorker'
  BY <1>4 DEF Skip, Take, dbVars, historyVars, TypeOK, RowsExist, OneWorker
<1>5. ASSUME NEW w \in Workers, Forward(w) PROVE OneWorker'
  BY <1>5 DEF Forward, Take, GoTo, dbVars, TypeOK, RowsExist, OneWorker
<1>6. ASSUME NEW w \in Workers, ForwardFails(w) PROVE OneWorker'
  BY <1>6 DEF ForwardFails, Fault, Take, GoTo, dbVars, TypeOK, RowsExist, OneWorker
<1>7. ASSUME NEW w \in Workers, CommitDelivery(w) PROVE OneWorker'
  BY <1>7
  DEF CommitDelivery, RecordSuccess, GoTo, historyVars, TypeOK, RowsExist,
     OneWorker
<1>8. ASSUME NEW w \in Workers, CommitFails(w) PROVE OneWorker'
  BY <1>8
  DEF CommitFails, Fault, RecordSuccess, GoTo, historyVars, TypeOK, RowsExist,
     OneWorker
<1>9. ASSUME NEW w \in Workers, MarkFailed(w) PROVE OneWorker'
  BY <1>9 DEF MarkFailed, GoTo, historyVars, TypeOK, RowsExist, OneWorker
<1>10. ASSUME NEW w \in Workers, MarkFailedFails(w) PROVE OneWorker'
  BY <1>10 DEF MarkFailedFails, Fault, GoTo, TypeOK, RowsExist, OneWorker
<1>11. ASSUME NEW w \in Workers, Schedule(w) PROVE OneWorker'
  BY <1>11 DEF Schedule, IsNextAttempt, GoTo, historyVars, TypeOK, RowsExist, OneWorker
<1>12. ASSUME NEW w \in Workers, ScheduleFails(w) PROVE OneWorker'
  BY <1>12 DEF ScheduleFails, Fault, GoTo, dbVars, TypeOK, RowsExist, OneWorker
<1>13. ASSUME NEW w \in Workers, FinishBatch(w) PROVE OneWorker'
  BY <1>13 DEF FinishBatch, GoTo, dbVars, historyVars, TypeOK, RowsExist, OneWorker
<1>14. ASSUME NEW w \in Workers, Crash(w) PROVE OneWorker'
  BY <1>14 DEF Crash, Fault, GoTo, dbVars, TypeOK, RowsExist, OneWorker
<1>15. ASSUME NEW w \in Workers, Restart(w) PROVE OneWorker'
  BY <1>15 DEF Restart, GoTo, dbVars, historyVars, TypeOK, RowsExist, OneWorker
<1>16. ASSUME UNCHANGED <<webhook, attempts, pc, batch, cur, reached, abandoned>> PROVE OneWorker'
  BY <1>16 DEF OneWorker
<1>17. QED
  BY <1>1, <1>2, <1>3, <1>4, <1>5, <1>6, <1>7, <1>8, <1>9, <1>10, <1>11, <1>12,
     <1>13, <1>14, <1>15, <1>16, QuietSteps
  DEF Next, Progress, Failure

\* In every reachable state of a system with one worker.
LEMMA OneWorkerInvariant == Spec => [](SingleWorker => OneWorker)
<1>1. Init => OneWorker
  BY DEF Init, OneWorker
<1>2. TypeOK /\ RowsExist /\ (SingleWorker => OneWorker) /\ [Next]_vars => (SingleWorker => OneWorker)'
  BY OneWorkerStep DEF SingleWorker
<1>3. QED
  BY <1>1, <1>2, TypeCorrect, RowsInvariant, PTL DEF Spec

\* With one worker a target never has two attempts open.
THEOREM RetriesDoNotMultiply == Spec => []OneOpenAttempt
<1>1. (SingleWorker => OneWorker) => OneOpenAttempt
  BY DEF OneWorker, OneOpenAttempt
<1>2. QED
  BY <1>1, OneWorkerInvariant, PTL

\* With one worker nothing that is settled is delivered again.
THEOREM WorkIsFresh == Spec => []FreshWork
<1>1. (SingleWorker => OneWorker) => FreshWork
  BY DEF OneWorker, FreshWork
<1>2. QED
  BY <1>1, OneWorkerInvariant, PTL

\* Before the first fault every target has a single attempt, and one that got to the
\* receiver is recorded or about to be.
FaultFree ==
    /\ \A a \in AttemptId : attempts[a] # "absent" => a[3] = 1
    /\ \A a \in reached : attempts[a] = "success" \/ \E w \in Workers : pc[w] = "commit" /\ cur[w] = a
    /\ \A w \in Workers : pc[w] \notin {"reschedule", "schedule"}

\* Every step of a lone worker that is not a fault keeps it.
LEMMA FaultFreeStep ==
    SingleWorker /\ TypeOK /\ RowsExist /\ OneWorker /\ (faults = 0 => FaultFree) /\ [Next]_vars
        => (faults' = 0 => FaultFree')
<1> SUFFICES ASSUME SingleWorker, TypeOK, RowsExist, OneWorker, faults = 0 => FaultFree,
                    [Next]_vars, faults' = 0
             PROVE  FaultFree'
  OBVIOUS
<1> USE AttemptFacts DEF SingleWorker
<1>a. faults = 0 => FaultFree
  OBVIOUS
<1>1. ASSUME NEW h \in Webhooks, NEW s \in Services, HandleEvent(h, s) PROVE FaultFree'
  BY <1>1, FirstAttemptFacts, <1>a
  DEF HandleEvent, workerVars, TypeOK, RowsExist, OneWorker, FaultFree
<1>2. ASSUME NEW w \in Workers, TickerFires(w) PROVE FaultFree'
  BY <1>2, <1>a
  DEF TickerFires, Fetch, GoTo, DueAttempts, dbVars, channelVars, historyVars,
     TypeOK, RowsExist, OneWorker, FaultFree
<1>3. ASSUME NEW w \in Workers, NotificationArrives(w) PROVE FaultFree'
  BY <1>3, <1>a
  DEF NotificationArrives, Fetch, GoTo, DueAttempts, dbVars, historyVars,
     TypeOK, RowsExist, OneWorker, FaultFree
<1>4. ASSUME NEW w \in Workers, Skip(w) PROVE FaultFree'
  BY <1>4, <1>a
  DEF Skip, Take, dbVars, historyVars, TypeOK, RowsExist, OneWorker, FaultFree
<1>5. ASSUME NEW w \in Workers, Forward(w) PROVE FaultFree'
  BY <1>5, <1>a DEF Forward, Take, GoTo, dbVars, TypeOK, RowsExist, OneWorker, FaultFree
<1>6. ASSUME NEW w \in Workers, ForwardFails(w) PROVE FaultFree'
  BY <1>6, <1>a
  DEF ForwardFails, Fault, Take, GoTo, dbVars, TypeOK, RowsExist, OneWorker,
     FaultFree
<1>7. ASSUME NEW w \in Workers, CommitDelivery(w) PROVE FaultFree'
  BY <1>7, <1>a
  DEF CommitDelivery, RecordSuccess, GoTo, historyVars, TypeOK, RowsExist,
     OneWorker, FaultFree
<1>8. ASSUME NEW w \in Workers, CommitFails(w) PROVE FaultFree'
  BY <1>8, <1>a
  DEF CommitFails, Fault, RecordSuccess, GoTo, historyVars, TypeOK, RowsExist,
     OneWorker, FaultFree
<1>9. ASSUME NEW w \in Workers, MarkFailed(w) PROVE FaultFree'
  BY <1>9, <1>a DEF MarkFailed, GoTo, historyVars, TypeOK, RowsExist, OneWorker, FaultFree
<1>10. ASSUME NEW w \in Workers, MarkFailedFails(w) PROVE FaultFree'
  BY <1>10, <1>a DEF MarkFailedFails, Fault, GoTo, TypeOK, RowsExist, OneWorker, FaultFree
<1>11. ASSUME NEW w \in Workers, Schedule(w) PROVE FaultFree'
  BY <1>11, <1>a
  DEF Schedule, IsNextAttempt, GoTo, historyVars, TypeOK, RowsExist, OneWorker,
     FaultFree
<1>12. ASSUME NEW w \in Workers, ScheduleFails(w) PROVE FaultFree'
  BY <1>12, <1>a
  DEF ScheduleFails, Fault, GoTo, dbVars, TypeOK, RowsExist, OneWorker,
     FaultFree
<1>13. ASSUME NEW w \in Workers, FinishBatch(w) PROVE FaultFree'
  BY <1>13, <1>a
  DEF FinishBatch, GoTo, dbVars, historyVars, TypeOK, RowsExist, OneWorker,
     FaultFree
<1>14. ASSUME NEW w \in Workers, Crash(w) PROVE FaultFree'
  BY <1>14, <1>a DEF Crash, Fault, GoTo, dbVars, TypeOK, RowsExist, OneWorker, FaultFree
<1>15. ASSUME NEW w \in Workers, Restart(w) PROVE FaultFree'
  BY <1>15, <1>a
  DEF Restart, GoTo, dbVars, historyVars, TypeOK, RowsExist, OneWorker,
     FaultFree
<1>16. ASSUME UNCHANGED <<webhook, attempts, pc, batch, cur, reached, abandoned>>,
                faults' = faults \/ faults' = faults + 1
         PROVE FaultFree'
  BY <1>16, <1>a DEF TypeOK, FaultFree
<1>17. QED
  BY <1>1, <1>2, <1>3, <1>4, <1>5, <1>6, <1>7, <1>8, <1>9, <1>10, <1>11, <1>12,
     <1>13, <1>14, <1>15, <1>16, QuietSteps
  DEF Next, Progress, Failure

\* In every reachable state of a system with one worker and no fault so far.
LEMMA FaultFreeInvariant == Spec => [](SingleWorker /\ faults = 0 => FaultFree)
<1>1. Init => FaultFree
  BY DEF Init, FaultFree
<1>2. /\ TypeOK
      /\ RowsExist
      /\ SingleWorker => OneWorker
      /\ SingleWorker /\ faults = 0 => FaultFree
      /\ [Next]_vars
      => (SingleWorker /\ faults = 0 => FaultFree)'
  BY FaultFreeStep DEF SingleWorker
<1>3. QED
  BY <1>1, <1>2, TypeCorrect, RowsInvariant, OneWorkerInvariant, PTL DEF Spec

\* With one worker, as long as nothing fails, a target is forwarded once.
THEOREM ExactlyOnce == Spec => []ExactlyOnceWithoutFaults
<1>1. /\ TypeOK
      /\ RowsExist
      /\ SingleWorker => OneWorker
      /\ SingleWorker /\ faults = 0 => FaultFree
      => ExactlyOnceWithoutFaults
  <2> SUFFICES ASSUME TypeOK, RowsExist, OneWorker, FaultFree, SingleWorker,
                      NEW w \in Workers, NEW a \in batch[w], NEW b \in reached,
                      TargetOf(a) = TargetOf(b)
               PROVE  FALSE
    BY DEF ExactlyOnceWithoutFaults
  <2>1. /\ a \in AttemptId /\ b \in AttemptId
        /\ attempts[a] = "scheduled" /\ a # cur[w]
    BY DEF TypeOK, OneWorker
  <2>2. attempts[b] = "success" \/ \E v \in Workers : cur[v] = b /\ cur[v] # NoAttempt
    BY DEF TypeOK, FaultFree
  <2>3. a[3] = 1 /\ b[3] = 1
    BY <2>1, <2>2 DEF FaultFree, RowsExist
  <2>4. a = b
    BY <2>1, <2>3, AttemptFacts
  <2>5. QED
    BY <2>1, <2>2, <2>4 DEF SingleWorker
<1>2. QED
  BY <1>1, TypeCorrect, RowsInvariant, OneWorkerInvariant, FaultFreeInvariant, PTL
=============================================================================
