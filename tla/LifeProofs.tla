------------------------------ MODULE LifeProofs ------------------------------
(***************************************************************************)
(* One worker implements TargetLife, for every configuration, every number *)
(* of webhooks and forwarders and every bound on the faults.               *)
(***************************************************************************)
EXTENDS DeliveryProofs

-----------------------------------------------------------------------------
(* One attempt counts *)

\* The attempt that decides about its target: it is open or a success.
Live(a) == attempts[a] \in {"scheduled", "success"}

\* A target has one attempt that counts, and none once it has lost its retry or
\* while it waits for the next.
OneLife ==
    /\ \A a, b \in AttemptId : Live(a) /\ Live(b) /\ TargetOf(a) = TargetOf(b) => a = b
    /\ \A a \in AttemptId : Live(a) => TargetOf(a) \notin abandoned
    /\ \A w \in Workers : pc[w] \in {"commit", "reschedule"} => Live(cur[w])
    /\ \A w \in Workers : pc[w] = "schedule" =>
          /\ TargetOf(cur[w]) \notin abandoned
          /\ \A a \in AttemptId : TargetOf(a) = TargetOf(cur[w]) => ~Live(a)

\* What was created stays: a row has a first one, and a target that was lost
\* belongs to a webhook that was accepted.
Rooted ==
    /\ \A a \in AttemptId : attempts[a] # "absent" => Created(TargetOf(a))
    /\ \A t \in abandoned : Created(t)

\* What the proofs about a lone worker start from.
Facts == TypeOK /\ RowsExist /\ OneWorker /\ OneLife /\ Rooted

\* Every step of a lone worker keeps it.
LEMMA OneLifeStep == SingleWorker /\ Facts /\ [Next]_vars => OneLife'
<1> SUFFICES ASSUME SingleWorker, Facts, [Next]_vars PROVE OneLife'
  OBVIOUS
<1> USE AttemptFacts DEF SingleWorker, Facts, Live
<1>1. ASSUME NEW h \in Webhooks, NEW s \in Services, HandleEvent(h, s) PROVE OneLife'
  <2>0. \A a \in AttemptId : WebhookOf(a) = h => attempts[a] = "absent"
    BY <1>1 DEF HandleEvent, RowsExist
  <2>1. \A a \in FirstAttempts(h, s) : attempts[a] = "absent" /\ TargetOf(a) \notin abandoned
    <3> SUFFICES ASSUME NEW a \in FirstAttempts(h, s)
                 PROVE  attempts[a] = "absent" /\ TargetOf(a) \notin abandoned
      OBVIOUS
    <3> DEFINE t == TargetOf(a)
               b == <<t[1], t[2], 1>>
    <3>1. a \in AttemptId /\ WebhookOf(a) = h /\ t \in Target
      BY FirstAttemptFacts
    <3>2. b \in AttemptId /\ TargetOf(b) = TargetOf(a)
      BY <3>1, TargetFacts
    <3>3. attempts[b] = "absent"
      BY <2>0, <3>1, <3>2
    <3>4. QED
      BY <2>0, <3>1, <3>3 DEF Rooted, Created
  <2>2. \A a \in FirstAttempts(h, s), b \in AttemptId :
            Live(b) => TargetOf(a) # TargetOf(b)
    BY <1>1, FirstAttemptFacts DEF HandleEvent, TypeOK, RowsExist
  <2>3. \A a \in AttemptId : attempts'[a] = IF a \in FirstAttempts(h, s) THEN "scheduled" ELSE attempts[a]
    BY <1>1 DEF HandleEvent
  <2>4. \A a, b \in FirstAttempts(h, s) : TargetOf(a) = TargetOf(b) => a = b
    BY FirstAttemptFacts
  <2>5. \A w \in Workers, a \in FirstAttempts(h, s) :
            cur[w] # NoAttempt => TargetOf(a) # TargetOf(cur[w])
    BY <1>1, FirstAttemptFacts DEF HandleEvent, TypeOK, RowsExist
  <2>6. UNCHANGED <<pc, cur, abandoned>>
    BY <1>1 DEF HandleEvent, workerVars
  <2>7. QED
    BY <2>1, <2>2, <2>3, <2>4, <2>5, <2>6, FirstAttemptFacts DEF OneLife, TypeOK
<1>2. ASSUME NEW w \in Workers, TickerFires(w) PROVE OneLife'
  BY <1>2
  DEF TickerFires, Fetch, GoTo, dbVars, channelVars, historyVars, TypeOK, OneLife
<1>3. ASSUME NEW w \in Workers, NotificationArrives(w) PROVE OneLife'
  BY <1>3 DEF NotificationArrives, Fetch, GoTo, dbVars, historyVars, TypeOK, OneLife
<1>4. ASSUME NEW w \in Workers, Skip(w) PROVE OneLife'
  BY <1>4 DEF Skip, dbVars, historyVars, TypeOK, OneLife
<1>5. ASSUME NEW w \in Workers, Forward(w) PROVE OneLife'
  BY <1>5 DEF Forward, Take, GoTo, dbVars, TypeOK, OneWorker, OneLife
<1>6. ASSUME NEW w \in Workers, ForwardFails(w) PROVE OneLife'
  BY <1>6 DEF ForwardFails, Take, GoTo, dbVars, TypeOK, OneWorker, OneLife
<1>7. ASSUME NEW w \in Workers, CommitDelivery(w) PROVE OneLife'
  BY <1>7 DEF CommitDelivery, RecordSuccess, GoTo, historyVars, TypeOK, OneLife
<1>8. ASSUME NEW w \in Workers, CommitFails(w) PROVE OneLife'
  BY <1>8 DEF CommitFails, RecordSuccess, GoTo, historyVars, TypeOK, OneLife
<1>9. ASSUME NEW w \in Workers, MarkFailed(w) PROVE OneLife'
  BY <1>9 DEF MarkFailed, GoTo, historyVars, TypeOK, OneLife
<1>10. ASSUME NEW w \in Workers, MarkFailedFails(w) PROVE OneLife'
  BY <1>10 DEF MarkFailedFails, GoTo, TypeOK, OneLife
<1>11. ASSUME NEW w \in Workers, Schedule(w) PROVE OneLife'
  BY <1>11 DEF Schedule, IsNextAttempt, GoTo, historyVars, TypeOK, OneLife
<1>12. ASSUME NEW w \in Workers, ScheduleFails(w) PROVE OneLife'
  BY <1>12 DEF ScheduleFails, GoTo, dbVars, TypeOK, OneLife
<1>13. ASSUME NEW w \in Workers, FinishBatch(w) PROVE OneLife'
  BY <1>13 DEF FinishBatch, GoTo, dbVars, historyVars, TypeOK, OneLife
<1>14. ASSUME NEW w \in Workers, Crash(w) PROVE OneLife'
  BY <1>14 DEF Crash, GoTo, dbVars, TypeOK, OneLife
<1>15. ASSUME NEW w \in Workers, Restart(w) PROVE OneLife'
  BY <1>15 DEF Restart, GoTo, dbVars, historyVars, TypeOK, OneLife
<1>16. ASSUME UNCHANGED <<webhook, attempts, pc, batch, cur, reached, abandoned>> PROVE OneLife'
  BY <1>16 DEF OneLife
<1>17. QED
  BY <1>1, <1>2, <1>3, <1>4, <1>5, <1>6, <1>7, <1>8, <1>9, <1>10, <1>11, <1>12,
     <1>13, <1>14, <1>15, <1>16, QuietSteps
  DEF Next, Progress, Failure

\* Rows that are never deleted keep what was created.
LEMMA RootedStep == TypeOK /\ RowsExist /\ Rooted /\ [Next]_vars => Rooted'
<1> SUFFICES ASSUME TypeOK, RowsExist, Rooted, [Next]_vars PROVE Rooted'
  OBVIOUS
<1> USE AttemptFacts, TargetFacts
<1>1. ASSUME NEW h \in Webhooks, NEW s \in Services, HandleEvent(h, s) PROVE Rooted'
  <2>1. \A a \in FirstAttempts(h, s) : a = <<TargetOf(a)[1], TargetOf(a)[2], 1>>
    BY FirstAttemptFacts DEF FirstAttempts, TargetOf
  <2>2. \A a \in AttemptId : attempts'[a] = IF a \in FirstAttempts(h, s) THEN "scheduled" ELSE attempts[a]
    BY <1>1 DEF HandleEvent
  <2>3. abandoned' = abandoned
    BY <1>1 DEF HandleEvent
  <2>4. QED
    BY <2>1, <2>2, <2>3 DEF Rooted, Created, TypeOK
<1>2. ASSUME NEW w \in Workers, Schedule(w) PROVE Rooted'
  <2>1. PICK b \in AttemptId : /\ IsNextAttempt(b, cur[w])
                               /\ attempts' = [attempts EXCEPT ![b] = "scheduled"]
    BY <1>2 DEF Schedule
  <2>2. attempts[cur[w]] # "absent" /\ cur[w] \in AttemptId
    BY <1>2 DEF Schedule, TypeOK, RowsExist
  <2>3. Created(TargetOf(b)) /\ abandoned' = abandoned
    BY <1>2, <2>1, <2>2 DEF Schedule, historyVars, IsNextAttempt, Rooted
  <2>4. QED
    BY <2>1, <2>3 DEF Rooted, Created, TypeOK
<1>3. ASSUME NEW w \in Workers, MarkFailedFails(w) PROVE Rooted'
  BY <1>3 DEF MarkFailedFails, Rooted, Created, TypeOK, RowsExist
<1>4. ASSUME NEW w \in Workers, ScheduleFails(w) PROVE Rooted'
  BY <1>4 DEF ScheduleFails, dbVars, Rooted, Created, TypeOK, RowsExist
<1>5. ASSUME NEW w \in Workers, Crash(w) PROVE Rooted'
  BY <1>5 DEF Crash, dbVars, Rooted, Created, TypeOK, RowsExist
<1>6. ASSUME NEW w \in Workers, CommitDelivery(w) PROVE Rooted'
  BY <1>6 DEF CommitDelivery, RecordSuccess, historyVars, Rooted, Created, TypeOK, RowsExist
<1>7. ASSUME NEW w \in Workers, CommitFails(w) PROVE Rooted'
  BY <1>7 DEF CommitFails, RecordSuccess, historyVars, Rooted, Created, TypeOK, RowsExist
<1>8. ASSUME NEW w \in Workers, MarkFailed(w) PROVE Rooted'
  BY <1>8 DEF MarkFailed, historyVars, Rooted, Created, TypeOK, RowsExist
<1>9. ASSUME UNCHANGED <<attempts, abandoned>> PROVE Rooted'
  BY <1>9 DEF Rooted, Created
<1>10. ASSUME NEW w \in Workers,
              \/ TickerFires(w) \/ NotificationArrives(w) \/ Skip(w) \/ Forward(w)
              \/ ForwardFails(w) \/ FinishBatch(w) \/ Restart(w)
       PROVE  UNCHANGED <<attempts, abandoned>>
  BY <1>10
  DEF TickerFires, NotificationArrives, Skip, Forward, ForwardFails, FinishBatch, Restart,
      dbVars, historyVars
<1>11. QED
  BY <1>1, <1>2, <1>3, <1>4, <1>5, <1>6, <1>7, <1>8, <1>9, <1>10, QuietSteps
  DEF Next, Progress, Failure

\* In every reachable state of a system with one worker.
LEMMA FactsInvariant == Spec => [](SingleWorker => Facts)
<1>1. Init => OneLife /\ Rooted
  BY DEF Init, OneLife, Live, Rooted
<1>2. /\ TypeOK
      /\ RowsExist
      /\ SingleWorker => OneWorker
      /\ SingleWorker => OneLife
      /\ Rooted
      /\ [Next]_vars
      => (SingleWorker => OneLife)' /\ Rooted'
  BY OneLifeStep, RootedStep DEF SingleWorker, Facts
<1>3. QED
  BY <1>1, <1>2, TypeCorrect, RowsInvariant, OneWorkerInvariant, PTL DEF Spec, Facts

-----------------------------------------------------------------------------
(* What a state means for a target *)

\* The life of a target does not change as long as its attempts, its retractions and
\* whether it was abandoned do not.
LEMMA Untouched ==
    ASSUME NEW t \in Target,
           \A a \in AttemptId : TargetOf(a) = t =>
               /\ attempts'[a] = attempts[a]
               /\ attempts[a] = "success" => (Retracted(a)' <=> Retracted(a)),
           t \in abandoned' <=> t \in abandoned
    PROVE  LifeOf(t)' = LifeOf(t)
BY TargetFacts DEF LifeOf, Delivered, Created

\* A step of a lone worker touches no target but the one in its hands, before or
\* after the step.
LEMMA OtherTargets ==
    ASSUME SingleWorker, TypeOK, TypeOK', NEW w \in Workers, NEW t \in Target,
           cur[w] # NoAttempt => TargetOf(cur[w]) # t,
           cur'[w] # NoAttempt => TargetOf(cur'[w]) # t,
           \A a \in AttemptId : TargetOf(a) = t => attempts'[a] = attempts[a],
           t \in abandoned' <=> t \in abandoned
    PROVE  LifeOf(t)' = LifeOf(t)
<1>1. \A a \in AttemptId : TargetOf(a) = t => ~Retracted(a) /\ ~Retracted(a)'
  BY AttemptFacts DEF SingleWorker, Retracted, TypeOK
<1>2. QED
  BY <1>1, Untouched

\* A target with a row in the worker's hands, or with an open attempt, is pending.
HeldIsPending ==
    /\ \A a \in AttemptId : attempts[a] = "scheduled" => LifeOf(TargetOf(a)) = "pending"
    /\ \A w \in Workers : cur[w] # NoAttempt => LifeOf(TargetOf(cur[w])) = "pending"

\* It follows from the facts.
LEMMA PendingFacts == SingleWorker /\ Facts => HeldIsPending
<1> SUFFICES ASSUME SingleWorker, Facts PROVE HeldIsPending
  OBVIOUS
<1> USE DEF Facts
<1>1. ASSUME NEW a \in AttemptId, attempts[a] = "scheduled"
      PROVE  LifeOf(TargetOf(a)) = "pending"
  BY <1>1, AttemptFacts DEF LifeOf, Delivered, OneLife, Live, Rooted
<1>2. ASSUME NEW w \in Workers, cur[w] # NoAttempt
      PROVE  LifeOf(TargetOf(cur[w])) = "pending"
  <2>1. cur[w] \in AttemptId /\ Created(TargetOf(cur[w]))
    BY <1>2 DEF TypeOK, RowsExist, Rooted
  <2>2. CASE pc[w] = "schedule"
    BY <2>1, <2>2, AttemptFacts DEF LifeOf, Delivered, OneLife, Live
  <2>3. CASE pc[w] = "commit"
    BY <2>1, <2>3, <1>1 DEF OneWorker
  <2>4. CASE pc[w] = "reschedule"
    BY <2>1, <2>4, AttemptFacts DEF LifeOf, Delivered, Retracted, OneLife, Live
  <2>5. QED
    BY <1>2, <2>2, <2>3, <2>4 DEF TypeOK
<1>3. QED
  BY <1>1, <1>2 DEF HeldIsPending

\* What is recorded, or about to be, has got to the receiver.
Backed == CommitIsBacked /\ NoPhantomSuccess

\* What holds before and after a step of a lone worker.
Stage == Facts /\ HeldIsPending /\ Backed

\* A step that ends the life of target t0, the one in the worker's hands.
LEMMA EndsInHand ==
    ASSUME SingleWorker, Stage, TypeOK', NEW w \in Workers, cur[w] # NoAttempt,
           NEW t0 \in Target, t0 = TargetOf(cur[w]),
           cur'[w] = NoAttempt, reached' = reached,
           \A a \in AttemptId \ {cur[w]} : attempts'[a] = attempts[a],
           \A t \in Target \ {t0} : t \in abandoned' <=> t \in abandoned,
           \/ t0 \in Got /\ LifeOf(t0)' = "delivered"
           \/ LifeOf(t0)' = "lost"
    PROVE  Life!Next
<1>1. Lives[t0] = "pending"
  BY DEF Lives, Stage, HeldIsPending
<1>2. \A t \in Target \ {t0} : LifeOf(t)' = LifeOf(t)
  BY OtherTargets DEF Stage, Facts
<1>3. Lives' = [Lives EXCEPT ![t0] = LifeOf(t0)']
  BY <1>2 DEF Lives
<1>4. Got' = Got
  BY DEF Got
<1>5. Life!Deliver(t0) \/ Life!Lose(t0)
  BY <1>1, <1>3, <1>4 DEF Life!Deliver, Life!Lose, Life!End, Lives, Got
<1>6. QED
  BY <1>5 DEF Life!Next, Life!Target, Target

\* A step that no target notices.
LEMMA Stutter ==
    ASSUME \A t \in Target : LifeOf(t)' = LifeOf(t), reached' = reached
    PROVE  UNCHANGED <<Lives, Got>>
BY DEF Lives, Got

\* A step that leaves target t0 pending, and may bring it to its receiver.
LEMMA StaysPending ==
    ASSUME SingleWorker, TypeOK, TypeOK', NEW w \in Workers, NEW t0 \in Target,
           cur[w] # NoAttempt => TargetOf(cur[w]) = t0,
           cur'[w] # NoAttempt => TargetOf(cur'[w]) = t0,
           \A a \in AttemptId : TargetOf(a) # t0 => attempts'[a] = attempts[a],
           abandoned' = abandoned,
           LifeOf(t0) = "pending", LifeOf(t0)' = "pending",
           Got' = Got \/ Got' = Got \cup {t0}
    PROVE  [Life!Next]_<<Lives, Got>>
<1>1. \A t \in Target \ {t0} : LifeOf(t)' = LifeOf(t)
  BY OtherTargets
<1>2. Lives' = Lives /\ Lives[t0] = "pending"
  BY <1>1 DEF Lives
<1>3. Got' = Got \cup {t0} => Life!Receive(t0)
  BY <1>2 DEF Life!Receive, Lives, Got
<1>4. QED
  BY <1>2, <1>3 DEF Life!Next, Life!Target, Target

\* Webhook h is accepted for service s.
LEMMA AcceptsAll ==
    ASSUME Stage, NEW h \in Webhooks, NEW s \in Services, HandleEvent(h, s)
    PROVE  Life!Accept(h, s)
<1> USE DEF Stage, Facts
<1>1. \A a \in AttemptId : WebhookOf(a) = h => attempts[a] = "absent"
  BY DEF HandleEvent, RowsExist
<1>2. /\ \A a \in AttemptId :
            attempts'[a] = IF a \in FirstAttempts(h, s) THEN "scheduled" ELSE attempts[a]
      /\ UNCHANGED <<pc, cur, reached, abandoned>>
  BY DEF HandleEvent, workerVars
<1>3. \A a \in AttemptId : Retracted(a)' <=> Retracted(a)
  BY <1>2 DEF Retracted
<1>4. ASSUME NEW t \in Target, t[1] = h PROVE LifeOf(t) = "none"
  <2>1. \A a \in AttemptId : TargetOf(a) = t => attempts[a] = "absent"
    BY <1>1, <1>4 DEF TargetOf, WebhookOf
  <2>2. ~Created(t)
    BY <2>1, TargetFacts DEF Created
  <2>3. QED
    BY <2>1, <2>2 DEF LifeOf, Delivered, Rooted
<1>5. ASSUME NEW t \in Target, t \in {h} \X Config[s] PROVE LifeOf(t)' = "pending"
  <2>1. <<t[1], t[2], 1>> \in FirstAttempts(h, s) /\ t[1] = h
    BY <1>5 DEF FirstAttempts
  <2>2. Created(t)' /\ t \notin abandoned'
    BY <1>2, <1>4, <2>1, FirstAttemptFacts DEF Created, LifeOf
  <2>3. \A a \in AttemptId : TargetOf(a) = t => attempts'[a] # "success"
    BY <1>1, <1>2, <2>1 DEF TargetOf, WebhookOf
  <2>4. QED
    BY <2>2, <2>3 DEF LifeOf, Delivered
<1>6. ASSUME NEW t \in Target, t \notin {h} \X Config[s] PROVE LifeOf(t)' = LifeOf(t)
  <2>1. \A a \in AttemptId : TargetOf(a) = t => a \notin FirstAttempts(h, s)
    BY <1>6 DEF FirstAttempts, TargetOf
  <2>2. QED
    BY <1>2, <1>3, <2>1, Untouched
<1>7. \A f \in Forwarders : <<h, f>> \in Target /\ Lives[<<h, f>>] = "none"
  BY <1>4 DEF Target, Lives
<1>8. Lives' = [t \in Target |-> IF t \in {h} \X Config[s] THEN "pending" ELSE Lives[t]]
  BY <1>5, <1>6 DEF Lives
<1>9. Got' = Got
  BY <1>2 DEF Got
<1>10. QED
  BY <1>7, <1>8, <1>9 DEF Life!Accept, Life!Target, Target, Lives, Got

-----------------------------------------------------------------------------
(* One worker implements TargetLife *)

\* A worker that lets go of a row it was delivering or had to reschedule, and leaves
\* the tables as they are: its target is pending, or was delivered after all.
LEMMA LetsGo ==
    ASSUME SingleWorker, Stage, Stage', NEW w \in Workers,
           pc[w] \in {"commit", "reschedule"}, pc'[w] \notin {"commit", "reschedule", "schedule"},
           UNCHANGED <<attempts, reached, abandoned>>
    PROVE  [Life!Next]_<<Lives, Got>>
<1> USE DEF Stage, Facts
<1> DEFINE a == cur[w]
<1>1. a \in AttemptId /\ cur[w] # NoAttempt /\ cur'[w] = NoAttempt
  BY DEF TypeOK
<1>2. PICK t0 \in Target : t0 = TargetOf(a)
  BY <1>1, AttemptFacts
<1>3. LifeOf(t0) = "pending" /\ t0 \notin abandoned
  BY <1>1, <1>2 DEF HeldIsPending, OneLife
<1>4. CASE attempts[a] = "scheduled"
  <2>1. LifeOf(t0)' = "pending"
    BY <1>1, <1>2, <1>4 DEF HeldIsPending
  <2>2. QED
    BY <1>1, <1>2, <1>3, <2>1, StaysPending DEF Got
<1>5. CASE attempts[a] = "success"
  <2>1. \A b \in AttemptId : ~Retracted(b)'
    BY <1>1, AttemptFacts DEF SingleWorker, Retracted
  <2>2. LifeOf(t0)' = "delivered"
    BY <1>1, <1>2, <1>3, <1>5, <2>1 DEF LifeOf, Delivered
  <2>3. t0 \in Got
    BY <1>1, <1>2, <1>5 DEF Got, Backed, NoPhantomSuccess
  <2>4. QED
    BY <1>1, <1>2, <2>2, <2>3, EndsInHand
<1>6. QED
  BY <1>1, <1>4, <1>5 DEF OneLife, Live

\* Every step of a lone worker is a step of TargetLife or leaves it alone.
LEMMA LifeStep ==
    SingleWorker /\ Stage /\ Stage' /\ [Next]_vars => [Life!Next]_<<Lives, Got>>
<1> DEFINE Step == [Life!Next]_<<Lives, Got>>
<1> SUFFICES ASSUME SingleWorker, Stage, Stage', [Next]_vars PROVE Step
  OBVIOUS
<1> USE DEF Stage, Facts
<1>1. ASSUME NEW h \in Webhooks, NEW s \in Services, HandleEvent(h, s) PROVE Step
  BY <1>1, AcceptsAll DEF Life!Next
<1>2. ASSUME UNCHANGED <<attempts, abandoned, reached>>,
             \A w \in Workers : cur[w] = NoAttempt /\ cur'[w] = NoAttempt
      PROVE  Step
  BY <1>2, Untouched, Stutter, AttemptFacts DEF Retracted, TypeOK
<1>3. ASSUME NEW w \in Workers,
             \/ TickerFires(w) \/ NotificationArrives(w) \/ Skip(w) \/ FinishBatch(w) \/ Restart(w)
      PROVE  Step
  BY <1>2, <1>3
  DEF TickerFires, NotificationArrives, Skip, FinishBatch, Restart, Fetch, Take, GoTo, dbVars,
      historyVars, SingleWorker, TypeOK
<1>4. ASSUME NEW w \in Workers, Forward(w) \/ ForwardFails(w) PROVE Step
  <2>1. PICK a \in batch[w] : /\ Take(w, a)
                              /\ cur' = [cur EXCEPT ![w] = a]
                              /\ reached' \in {reached, reached \cup {a}}
    BY <1>4 DEF Forward, ForwardFails, GoTo
  <2>2. a \in AttemptId /\ attempts[a] = "scheduled" /\ cur[w] = NoAttempt
    BY <2>1 DEF TypeOK, OneWorker, Take
  <2>3. PICK t0 \in Target : t0 = TargetOf(a)
    BY <2>2, AttemptFacts
  <2>4. LifeOf(t0) = "pending"
    BY <2>2, <2>3 DEF HeldIsPending
  <2>5. cur'[w] = a /\ cur'[w] # NoAttempt
    BY <2>1, <2>2, AttemptFacts DEF TypeOK
  <2>6. LifeOf(t0)' = "pending"
    BY <2>3, <2>5 DEF HeldIsPending
  <2>7. UNCHANGED <<attempts, abandoned>>
    BY <1>4 DEF Forward, ForwardFails, dbVars
  <2>8. Got' = Got \/ Got' = Got \cup {t0}
    BY <2>1, <2>3 DEF Got
  <2>9. QED
    BY <2>2, <2>3, <2>4, <2>5, <2>6, <2>7, <2>8, StaysPending
<1>5. ASSUME NEW w \in Workers, cur[w] # NoAttempt PROVE cur[w] \in AttemptId /\ TargetOf(cur[w]) \in Target
  BY <1>5, AttemptFacts DEF TypeOK
<1>6. ASSUME NEW w \in Workers, CommitDelivery(w) PROVE Step
  <2>1. cur[w] # NoAttempt /\ cur'[w] = NoAttempt /\ pc'[w] = "deliver"
    BY <1>6 DEF CommitDelivery, GoTo, TypeOK
  <2>2. PICK t0 \in Target : t0 = TargetOf(cur[w])
    BY <1>5, <2>1
  <2>3. /\ attempts' = [attempts EXCEPT ![cur[w]] = "success"]
        /\ UNCHANGED <<reached, abandoned>>
    BY <1>6 DEF CommitDelivery, RecordSuccess, historyVars
  <2>4. \A b \in AttemptId : ~Retracted(b)'
    BY <2>1, AttemptFacts DEF SingleWorker, Retracted
  <2>5. t0 \notin abandoned /\ t0 \in Got
    BY <1>5, <1>6, <2>1, <2>2 DEF CommitDelivery, OneLife, Got, Backed, CommitIsBacked
  <2>6. LifeOf(t0)' = "delivered"
    BY <1>5, <2>1, <2>2, <2>3, <2>4, <2>5 DEF LifeOf, Delivered, TypeOK
  <2>7. QED
    BY <2>1, <2>2, <2>3, <2>5, <2>6, EndsInHand
<1>7. ASSUME NEW w \in Workers, CommitFails(w) \/ MarkFailed(w) PROVE Step
  <2>1. cur[w] # NoAttempt /\ cur'[w] = cur[w]
    BY <1>7 DEF CommitFails, MarkFailed, GoTo, TypeOK
  <2>2. PICK t0 \in Target : t0 = TargetOf(cur[w])
    BY <1>5, <2>1
  <2>3. /\ \A a \in AttemptId : a # cur[w] => attempts'[a] = attempts[a]
        /\ UNCHANGED <<reached, abandoned>>
    BY <1>7 DEF CommitFails, MarkFailed, RecordSuccess, historyVars, TypeOK
  <2>4. LifeOf(t0) = "pending" /\ LifeOf(t0)' = "pending"
    BY <2>1, <2>2 DEF HeldIsPending
  <2>5. QED
    BY <2>1, <2>2, <2>3, <2>4, StaysPending DEF Got
<1>8. ASSUME NEW w \in Workers, MarkFailedFails(w) PROVE Step
  <2>1. cur[w] # NoAttempt /\ cur'[w] = NoAttempt /\ pc[w] = "reschedule" /\ pc'[w] = "deliver"
    BY <1>8 DEF MarkFailedFails, GoTo, TypeOK
  <2>2. CASE UNCHANGED <<attempts, abandoned>>
    BY <1>8, <2>1, <2>2, LetsGo DEF MarkFailedFails
  <2>3. CASE /\ attempts' = [attempts EXCEPT ![cur[w]] = "failed"]
             /\ abandoned' = abandoned \cup {TargetOf(cur[w])}
    <3>1. PICK t0 \in Target : t0 = TargetOf(cur[w])
      BY <1>5, <2>1
    <3>2. LifeOf(t0)' = "lost"
      BY <2>3, <3>1 DEF LifeOf
    <3>3. QED
      BY <1>8, <2>1, <2>3, <3>1, <3>2, EndsInHand DEF MarkFailedFails, TypeOK
  <2>4. QED
    BY <1>8, <2>2, <2>3 DEF MarkFailedFails
<1>9. ASSUME NEW w \in Workers, Schedule(w) PROVE Step
  <2>1. PICK b \in AttemptId : /\ IsNextAttempt(b, cur[w])
                               /\ attempts' = [attempts EXCEPT ![b] = "scheduled"]
    BY <1>9 DEF Schedule
  <2>2. cur[w] # NoAttempt /\ cur'[w] = NoAttempt /\ UNCHANGED <<reached, abandoned>>
    BY <1>9 DEF Schedule, GoTo, historyVars, TypeOK
  <2>3. PICK t0 \in Target : t0 = TargetOf(cur[w]) /\ t0 = TargetOf(b)
    BY <1>5, <2>1, <2>2 DEF IsNextAttempt
  <2>4. LifeOf(t0) = "pending"
    BY <2>2, <2>3 DEF HeldIsPending
  <2>5. LifeOf(t0)' = "pending"
    BY <2>1, <2>3 DEF HeldIsPending, TypeOK
  <2>6. QED
    BY <2>1, <2>2, <2>3, <2>4, <2>5, StaysPending DEF Got, TypeOK
<1>10. ASSUME NEW w \in Workers, pc[w] = "schedule", cur'[w] = NoAttempt,
              UNCHANGED <<attempts, reached>>,
              abandoned' = abandoned \cup {TargetOf(cur[w])}
       PROVE  Step
  <2>1. cur[w] # NoAttempt
    BY <1>10 DEF TypeOK
  <2>2. PICK t0 \in Target : t0 = TargetOf(cur[w])
    BY <1>5, <2>1
  <2>3. LifeOf(t0)' = "lost"
    BY <1>10, <2>2 DEF LifeOf
  <2>4. QED
    BY <1>10, <2>1, <2>2, <2>3, EndsInHand
<1>11. ASSUME NEW w \in Workers, ScheduleFails(w) PROVE Step
  BY <1>10, <1>11 DEF ScheduleFails, GoTo, dbVars, TypeOK
<1>12. ASSUME NEW w \in Workers, Crash(w) PROVE Step
  <2>1. cur'[w] = NoAttempt /\ pc'[w] = "down" /\ UNCHANGED <<attempts, reached>>
    BY <1>12 DEF Crash, GoTo, dbVars, TypeOK
  <2>2. CASE pc[w] = "schedule"
    BY <1>10, <1>12, <2>1, <2>2 DEF Crash
  <2>3. CASE pc[w] \in {"commit", "reschedule"}
    BY <1>12, <2>1, <2>3, LetsGo DEF Crash
  <2>4. CASE pc[w] \notin {"commit", "reschedule", "schedule"}
    BY <1>2, <1>12, <2>1, <2>4 DEF Crash, SingleWorker, TypeOK
  <2>5. QED
    BY <2>2, <2>3, <2>4
<1>13. ASSUME UNCHANGED <<webhook, attempts, pc, batch, cur, reached, abandoned>> PROVE Step
  BY <1>13, Untouched, Stutter DEF Retracted
<1>14. QED
  BY <1>1, <1>3, <1>4, <1>6, <1>7, <1>8, <1>9, <1>11, <1>12, <1>13, QuietSteps
  DEF Next, Progress, Failure

\* With one worker each target lives once: it ends delivered or lost, is delivered
\* only if its receiver had the webhook, and nothing is sent after its end.
THEOREM OneWorkerIsATargetLife == ASSUME SingleWorker PROVE Spec => ImplementsLife
<1>1. Init => Life!Init
  BY TargetFacts DEF Init, Lives, Got, Life!Init, Life!Target, Target, LifeOf, Delivered, Created
<1>2. Facts => HeldIsPending
  BY PendingFacts
<1>3. Stage /\ Stage' /\ [Next]_vars => [Life!Next]_<<Lives, Got>>
  BY LifeStep
<1>4. Spec => []Facts
  BY FactsInvariant, PTL
<1>5. Spec => []Backed
  <2>1. Init => Backed
    BY DEF Init, Backed, CommitIsBacked, NoPhantomSuccess
  <2>2. TypeOK /\ Backed /\ [Next]_vars => Backed'
    BY SuccessStep DEF Backed
  <2>3. QED
    BY <2>1, <2>2, TypeCorrect, PTL DEF Spec
<1>6. Spec => []Stage
  BY <1>2, <1>4, <1>5, PTL DEF Stage
<1>7. QED
  BY <1>1, <1>3, <1>6, PTL DEF Spec, ImplementsLife, Life!Spec
=============================================================================
