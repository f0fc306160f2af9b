---------------------------- MODULE RetryProofs ----------------------------
(***************************************************************************)
(* What RetryTiming promises about the time of an attempt, for any number  *)
(* of targets and brokers, any timeout and any distance of the clocks.     *)
(*                                                                         *)
(* The argument about lateness: an attempt that is not in the batch waits  *)
(* for the rest of the batch, which holds at most the other targets; then  *)
(* it is in the next batch, and that one lacks a target, because the last  *)
(* one delivered is done or due only after the next fetch.  What a broker  *)
(* takes beyond the timeout is added to every attempt that waits for it.   *)
(***************************************************************************)
EXTENDS RetryTiming, TLAPS, FiniteSetTheorems

(* What the rest of the batch takes at most, the delivery under way, and a delivery   *)
(* to every target but one.                                                           *)
Rest == Cardinality(batch) * Timeout
Left == IF cur # NoTarget /\ now < began + Timeout THEN began + Timeout - now ELSE 0
Round == (Cardinality(Targets) - 1) * Timeout

(* The worker's variables and the table fit together. *)
Fits ==
    /\ pc = "idle" => batch = {} /\ cur = NoTarget
    /\ cur \notin batch
    /\ cur # NoTarget => cur \in tried /\ began <= now
    /\ cur # NoTarget /\ cur \notin Brokers => now <= began + Timeout
    /\ \A t \in batch : scheduledFor[t] <= now
    /\ \A t \in open : count[t] >= 1 /\ scheduledFor[t] <= readyAt[t]
    /\ \A t \in open : readyAt[t] <= now \/ readyAt[t] = scheduledFor[t]

(* A retry is due one second after the failure before it. *)
Spaced == \A t \in open : count[t] > 1 => /\ scheduledFor[t] = failedAt[t] + 1
                                         /\ readyAt[t] = failedAt[t] + 1

(* A notification on its way announces a row that is due. *)
Announced ==
    ahead <= 0 =>
        \A t \in unheard : t \in tried \/ (t \in open /\ scheduledFor[t] <= now)

(* Attempts outside the batch, and in it. *)
Outside == ticking => \A t \in open \ batch : t # cur => now + Rest + Left <= readyAt[t] + overrun[t] + Round
Inside  == ticking => \A t \in batch : now + Rest - Timeout + Left <= readyAt[t] + overrun[t] + MaxLateness

(* Between two batches an attempt is late only when some other target is not due. *)
Between ==
    (ticking /\ cur = NoTarget /\ batch = {}) =>
        \A t \in open : now > readyAt[t] =>
            \E z \in Targets \ {t} : count[z] >= 1 /\ z \notin DueAt(now)

IInv == TypeOK /\ Fits /\ Spaced /\ Announced /\ HeardIsFetched

-----------------------------------------------------------------------------
(* Arithmetic *)

\* The backoff is one second, because nothing is counted.
LEMMA BackoffIsOne == ASSUME NEW t PROVE Backoff(t) = 1
  BY DEF Backoff, NextExponentialBackoff, DeliveryAttemptCount

\* A batch without some target takes at most a round.
LEMMA WithoutOne ==
    ASSUME NEW S \in SUBSET Targets, NEW t \in Targets, t \notin S
    PROVE  /\ Cardinality(S) * Timeout \in Nat
           /\ Round \in Nat
           /\ Cardinality(S) * Timeout <= Round
  <1>1. IsFiniteSet(Targets)
    BY TargetsAssumption
  <1>2. IsFiniteSet(S)
    BY <1>1, FS_Subset
  <1>3. IsFiniteSet(Targets \ {t}) /\ Cardinality(Targets \ {t}) = Cardinality(Targets) - 1
    BY <1>1, FS_RemoveElement
  <1>4. Cardinality(S) <= Cardinality(Targets) - 1
    BY <1>3, FS_Subset, S \subseteq Targets \ {t}
  <1> DEFINE s == Cardinality(S)
             k == Cardinality(Targets) - 1
  <1>5. s \in Nat /\ k \in Nat /\ s <= k /\ Timeout \in Nat
    BY <1>1, <1>2, <1>3, <1>4, FS_CardinalityType, TimeAssumption
  <1> HIDE DEF s, k
  <1>6. s * Timeout \in Nat /\ k * Timeout \in Nat /\ s * Timeout <= k * Timeout
    BY <1>5
  <1> QED
    BY <1>6 DEF s, k, Round

\* One more element takes one timeout more.
LEMMA OneMore ==
    ASSUME NEW S \in SUBSET Targets, NEW t \in S
    PROVE  /\ Cardinality(S) * Timeout \in Nat
           /\ Cardinality(S \ {t}) * Timeout \in Nat
           /\ Cardinality(S) * Timeout = Cardinality(S \ {t}) * Timeout + Timeout
  <1>1. IsFiniteSet(S)
    BY TargetsAssumption, FS_Subset
  <1>2. Cardinality(S \ {t}) = Cardinality(S) - 1 /\ Cardinality(S) \in Nat
    BY <1>1, FS_RemoveElement, FS_CardinalityType
  <1>3. Cardinality(S \ {t}) \in Nat
    BY <1>1, FS_RemoveElement, FS_CardinalityType
  <1> DEFINE s == Cardinality(S)
             k == Cardinality(S \ {t})
  <1>5. s \in Nat /\ k \in Nat /\ s = k + 1 /\ Timeout \in Nat
    BY <1>2, <1>3, TimeAssumption
  <1> HIDE DEF s, k
  <1>6. s * Timeout \in Nat /\ k * Timeout \in Nat /\ s * Timeout = k * Timeout + Timeout
    BY <1>5
  <1> QED
    BY <1>6 DEF s, k

\* A delivery and a batch, without some target, take at most a round.
LEMMA WithoutOneAndCur ==
    ASSUME NEW S \in SUBSET Targets, NEW t \in Targets, NEW c \in Targets,
           t \notin S, c \notin S, c # t
    PROVE  Cardinality(S) * Timeout + Timeout <= Round
  <1>1. S \cup {c} \in SUBSET Targets /\ t \notin S \cup {c} /\ (S \cup {c}) \ {c} = S
    OBVIOUS
  <1>2. Cardinality(S \cup {c}) * Timeout <= Round
    BY <1>1, WithoutOne
  <1>3. Cardinality(S \cup {c}) * Timeout = Cardinality(S) * Timeout + Timeout
    BY <1>1, OneMore
  <1> QED
    BY <1>2, <1>3

\* A round is no more than MaxLateness, and with two targets a round more than one
\* delivery fits after it.
LEMMA RoundFits ==
    ASSUME NEW t \in Targets
    PROVE  /\ Round \in Nat
           /\ MaxLateness \in Nat
           /\ Timeout \in Nat
           /\ Round <= MaxLateness
           /\ (\E z \in Targets : z # t) => Round + Round - Timeout = MaxLateness
  <1> DEFINE k == Cardinality(Targets)
  <1>1. IsFiniteSet(Targets) /\ k \in Nat /\ Timeout \in Nat
    BY TargetsAssumption, TimeAssumption, FS_CardinalityType
  <1>2. k >= 1
    BY <1>1, FS_EmptySet
  <1>3. ASSUME NEW z \in Targets, z # t PROVE k >= 2
    <2>1. IsFiniteSet(Targets \ {t}) /\ Cardinality(Targets \ {t}) = k - 1
      BY <1>1, FS_RemoveElement
    <2>2. Cardinality(Targets \ {t}) # 0
      BY <2>1, <1>3, FS_EmptySet
    <2> QED
      BY <1>1, <1>2, <2>1, <2>2
  <1>4. MaxLateness = (IF k = 1 THEN 0 ELSE 2 * k - 3) * Timeout /\ Round = (k - 1) * Timeout
    BY DEF MaxLateness, Round
  <1> HIDE DEF k
  <1>5. CASE k = 1
    <2>1. MaxLateness = 0 /\ Round = 0
      BY <1>1, <1>4, <1>5
    <2> QED
      BY <1>1, <1>3, <1>5, <2>1
  <1>6. CASE k >= 2
    <2> DEFINE j == k - 2
    <2>1. j \in Nat /\ k - 1 = j + 1 /\ 2 * k - 3 = j + j + 1
      BY <1>1, <1>6
    <2>2. Round = (j + 1) * Timeout /\ MaxLateness = (j + j + 1) * Timeout
      BY <1>4, <1>6, <1>1, <2>1
    <2> HIDE DEF j
    <2>3. j * Timeout \in Nat
      BY <2>1, <1>1
    <2>4. Round = j * Timeout + Timeout /\ MaxLateness = j * Timeout + j * Timeout + Timeout
      BY <2>1, <2>2, <1>1
    <2> QED
      BY <1>1, <2>3, <2>4
  <1> QED
    BY <1>1, <1>2, <1>5, <1>6

-----------------------------------------------------------------------------
(* What does not depend on how long anything takes *)

LEMMA InitIInv == Init => IInv
  <1> SUFFICES ASSUME Init PROVE IInv
    OBVIOUS
  <1> USE TargetsAssumption, TimeAssumption DEF Init
  <1>1. TypeOK
    BY DEF TypeOK
  <1>2. Fits /\ Spaced /\ Announced /\ HeardIsFetched
    BY DEF Fits, Spaced, Announced, HeardIsFetched
  <1> QED
    BY <1>1, <1>2 DEF IInv

LEMMA StepIInv == IInv /\ [Next]_vars => IInv'
  <1> SUFFICES ASSUME IInv, [Next]_vars PROVE IInv'
    OBVIOUS
  <1> USE TargetsAssumption, TimeAssumption
  <1> USE DEF IInv
  <1>1. ASSUME NEW t \in Targets, HandleEvent(t) PROVE IInv'
    <2> USE <1>1 DEF HandleEvent, Schedule, workerVars, settings, Later
    <2>1. PICK d \in 0..CommitTime : Schedule(t, 1, now - d + ahead)
      OBVIOUS
    <2>2. d \in Nat /\ now \in Nat /\ ahead \in Int /\ now - d + ahead \in Int
      BY DEF TypeOK
    <2>3. t \notin open /\ t \notin batch /\ t # cur
      BY DEF TypeOK, Fits
    <2>4. TypeOK'
      BY <2>1, <2>2 DEF TypeOK
    <2>5. Fits'
      BY <2>1, <2>2, <2>3 DEF Fits, TypeOK
    <2>6. Spaced'
      BY <2>1, <2>3 DEF Spaced, TypeOK
    <2>7. Announced'
      <3> SUFFICES ASSUME ahead <= 0, NEW u \in unheard'
                   PROVE  u \in tried \/ (u \in open' /\ scheduledFor'[u] <= now)
        BY DEF Announced
      <3>1. CASE u = t
        <4>1. scheduledFor'[t] = now - d + ahead
          BY <2>1 DEF TypeOK
        <4>2. now - d + ahead <= now
          BY <2>2
        <4> QED
          BY <3>1, <4>1, <4>2, <2>1
      <3>2. CASE u # t
        <4>1. u \in unheard /\ (u \in open => u \in open' /\ scheduledFor'[u] = scheduledFor[u])
          BY <3>2, <2>1 DEF TypeOK
        <4> QED
          BY <4>1 DEF Announced
      <3> QED
        BY <3>1, <3>2
    <2>8. HeardIsFetched'
      BY DEF HeardIsFetched
    <2> QED
      BY <2>4, <2>5, <2>6, <2>7, <2>8
  <1>2. ASSUME Fetch, UNCHANGED <<settings, now, tableVars>>,
               \/ UNCHANGED noteVars
               \/ \E t \in unheard : unheard' = unheard \ {t} /\ heard' = heard \cup {t}
        PROVE  IInv'
    <2> USE <1>2 DEF Fetch, settings, tableVars, noteVars, DueAt
    <2>1. TypeOK'
      BY DEF TypeOK, Fits
    <2>2. Fits'
      BY DEF Fits, TypeOK
    <2>3. Spaced'
      BY DEF Spaced
    <2>4. Announced'
      BY DEF Announced
    <2>5. HeardIsFetched'
      BY DEF HeardIsFetched, Announced, Fits
    <2> QED
      BY <2>1, <2>2, <2>3, <2>4, <2>5
  <1>3. ASSUME NEW t \in Targets, NotificationArrives(t) PROVE IInv'
    BY <1>2, <1>3 DEF NotificationArrives
  <1>4. ASSUME NEW t \in Targets, Deliver(t) PROVE IInv'
    <2> USE <1>4 DEF Deliver, settings, tableVars, noteVars
    <2>1. TypeOK'
      BY DEF TypeOK
    <2>2. Fits'
      BY DEF Fits, TypeOK
    <2>3. Spaced' /\ Announced' /\ HeardIsFetched'
      BY DEF Spaced, Announced, HeardIsFetched
    <2> QED
      BY <2>1, <2>2, <2>3
  <1>5. CASE TickerFires
    BY <1>2, <1>5 DEF TickerFires
  <1>6. CASE Succeed
    <2> USE <1>6 DEF Succeed, PutDown, settings, noteVars
    <2>1. TypeOK'
      BY DEF TypeOK, Fits
    <2>2. Fits'
      BY DEF Fits, TypeOK
    <2>3. Spaced'
      BY DEF Spaced, TypeOK
    <2>4. Announced'
      BY DEF Announced, Fits, TypeOK
    <2>5. HeardIsFetched'
      BY DEF HeardIsFetched
    <2> QED
      BY <2>1, <2>2, <2>3, <2>4, <2>5
  <1>7. CASE Reschedule
    <2> USE <1>7 DEF Reschedule, PutDown, Schedule, settings, noteVars, Later
    <2>1. Backoff(cur) = 1
      BY BackoffIsOne
    <2>2. cur \in open /\ cur \in Targets /\ now \in Nat /\ count[cur] \in Nat
      BY DEF TypeOK
    <2>3. TypeOK'
      BY <2>1, <2>2 DEF TypeOK, Fits
    <2>4. Fits'
      BY <2>1, <2>2 DEF Fits, TypeOK
    <2>5. Spaced'
      BY <2>1, <2>2 DEF Spaced, TypeOK
    <2>6. Announced'
      BY <2>2 DEF Announced, Fits, TypeOK
    <2>7. HeardIsFetched'
      BY DEF HeardIsFetched
    <2> QED
      BY <2>3, <2>4, <2>5, <2>6, <2>7
  <1>8. CASE FinishBatch
    <2> USE <1>8 DEF FinishBatch, settings, tableVars, noteVars
    <2>1. TypeOK'
      BY DEF TypeOK
    <2>2. Fits' /\ Spaced' /\ Announced' /\ HeardIsFetched'
      BY DEF Fits, Spaced, Announced, HeardIsFetched
    <2> QED
      BY <2>1, <2>2
  <1>9. CASE Advance
    <2> USE <1>9 DEF Advance, settings, tableVars, noteVars, workerVars
    <2>1. now \in Nat /\ Horizon \in Nat /\ now' = now + 1 /\ now' \in 0..Horizon
      BY DEF TypeOK
    <2>2. TypeOK'
      BY <2>1 DEF TypeOK
    <2>3. Fits'
      <3>1. ASSUME cur # NoTarget, cur \notin Brokers PROVE now' <= began + Timeout
        BY <2>1, <3>1 DEF Overrunning, TypeOK
      <3>2. ASSUME NEW t \in open PROVE readyAt[t] <= now' \/ readyAt[t] = scheduledFor[t]
        BY <2>1 DEF Fits, TypeOK
      <3>3. began <= now => began <= now'
        BY <2>1 DEF TypeOK
      <3>4. ASSUME NEW t \in batch PROVE scheduledFor[t] <= now'
        BY <2>1 DEF Fits, TypeOK
      <3> QED
        BY <3>1, <3>2, <3>3, <3>4 DEF Fits
    <2>4. Spaced' /\ HeardIsFetched'
      BY DEF Spaced, HeardIsFetched
    <2>5. Announced'
      BY <2>1 DEF Announced, TypeOK
    <2> QED
      BY <2>2, <2>3, <2>4, <2>5
  <1>10. CASE UNCHANGED vars
    BY <1>10 DEF vars, settings, tableVars, noteVars, workerVars, TypeOK, Fits, Spaced,
       Announced, HeardIsFetched
  <1> QED
    BY <1>1, <1>3, <1>4, <1>5, <1>6, <1>7, <1>8, <1>9, <1>10 DEF Next

LEMMA Invariant == Spec => []IInv
  BY InitIInv, StepIInv, PTL DEF Spec

\* Every variable keeps its type: in particular the rows of the batch and the one that
\* is being delivered are open, although the batch is as old as its first delivery.
THEOREM TypeCorrect == Spec => []TypeOK
  BY Invariant, PTL DEF IInv

\* A target whose notification arrived is in the worker's batch, or was delivered to,
\* whatever the ticker does, when the webserver's clock is not ahead.
THEOREM NotificationSuffices == Spec => []HeardIsFetched
  BY Invariant, PTL DEF IInv

\* No delivery follows a failed one to the same target within a second.
THEOREM Spacing == Spec => RetriesAreSpaced
  <1>1. ASSUME IInv, NEW t \in Targets, count[t] > 1, Deliver(t)
        PROVE  now >= failedAt[t] + 1
    BY <1>1 DEF IInv, Fits, Spaced, TypeOK, Deliver
  <1>2. IInv => [\A t \in Targets : count[t] > 1 /\ Deliver(t) => now >= failedAt[t] + 1]_vars
    BY <1>1
  <1> QED
    BY <1>2, Invariant, PTL DEF RetriesAreSpaced

-----------------------------------------------------------------------------
(* What does *)

TimeInv == Outside /\ Inside /\ Between

LEMMA InitTimeInv == Init => TimeInv
  BY DEF Init, TimeInv, Outside, Inside, Between

\* What the steps need of the types.
LEMMA Ranges ==
    ASSUME IInv
    PROVE  /\ now \in Nat /\ began \in Nat /\ Timeout \in Nat /\ Left \in Nat
           /\ Left <= Timeout
           /\ batch \in SUBSET Targets /\ open \in SUBSET Targets
           /\ \A t \in Targets : readyAt[t] \in Int /\ overrun[t] \in Nat
           /\ cur = NoTarget => Left = 0
           /\ cur # NoTarget => cur \in Targets
  BY TargetsAssumption, TimeAssumption DEF IInv, TypeOK, Fits, Left

\* A new attempt waits for less than a round.
LEMMA NewIsInTime ==
    ASSUME IInv, NEW t \in Targets, t \notin batch, t # cur
    PROVE  Rest \in Nat /\ Round \in Nat /\ Rest + Left <= Round
  <1> USE Ranges
  <1>1. Rest \in Nat /\ Round \in Nat /\ Rest <= Round
    BY WithoutOne DEF Rest
  <1>2. CASE cur = NoTarget
    BY <1>1, <1>2
  <1>3. CASE cur # NoTarget
    <2>1. Rest + Timeout <= Round
      BY <1>3, WithoutOneAndCur DEF Rest, IInv, Fits
    <2> QED
      BY <1>1, <2>1
  <1> QED
    BY <1>2, <1>3

LEMMA RestIsNat == ASSUME IInv PROVE Rest \in Nat
  <1> DEFINE k == Cardinality(batch)
  <1>1. k \in Nat /\ Timeout \in Nat
    BY TargetsAssumption, Ranges, FS_Subset, FS_CardinalityType
  <1> HIDE DEF k
  <1>2. k * Timeout \in Nat
    BY <1>1
  <1> QED
    BY <1>2 DEF Rest, k

\* A fetch: a row that was late before it is not followed by a full round.
LEMMA FetchTimeInv ==
    ASSUME IInv, TimeInv, Fetch, UNCHANGED <<settings, now, tableVars>>
    PROVE  TimeInv'
  <1> USE Ranges DEF Fetch, settings, tableVars
  <1>1. /\ batch = {} /\ cur = NoTarget /\ Left = 0 /\ Left' = 0
        /\ batch' = DueAt(now) /\ batch' \in SUBSET Targets
    BY DEF IInv, Fits, Left, DueAt
  <1>2. ASSUME NEW t \in open, t \notin DueAt(now) PROVE now <= readyAt[t]
    BY <1>2 DEF DueAt, IInv, Fits, TypeOK
  <1>3. Outside'
    <2> SUFFICES ASSUME NEW t \in open, t \notin batch'
                 PROVE  now + Rest' + Left' <= readyAt[t] + overrun[t] + Round
      BY DEF Outside, Round
    <2>1. Rest' \in Nat /\ Round \in Nat /\ Rest' <= Round
      BY <1>1, WithoutOne DEF Rest
    <2> QED
      BY <1>1, <1>2, <2>1
  <1>4. Inside'
    <2> SUFFICES ASSUME ticking, NEW t \in batch'
                 PROVE  now + Rest' - Timeout + Left' <= readyAt[t] + overrun[t] + MaxLateness
      BY DEF Inside, MaxLateness
    <2> DEFINE others == Cardinality(batch' \ {t}) * Timeout
    <2>0. t \in open /\ t \in Targets
      BY <1>1 DEF DueAt
    <2>1. Rest' = others + Timeout /\ others \in Nat
      BY <1>1, OneMore DEF Rest
    <2>2. others <= Round /\ Round \in Nat
      BY <1>1, <2>0, WithoutOne
    <2> HIDE DEF others
    <2>3. CASE now <= readyAt[t]
      <3>1. Round <= MaxLateness /\ MaxLateness \in Nat
        BY <2>0, RoundFits
      <3> QED
        BY <1>1, <2>0, <2>1, <2>2, <2>3, <3>1
    <2>4. CASE now > readyAt[t]
      <3>1. PICK z \in Targets \ {t} : z \notin DueAt(now)
        BY <1>1, <2>0, <2>4 DEF TimeInv, Between
      <3>2. Rest' <= Round /\ Rest' \in Nat
        BY <1>1, <3>1, WithoutOne DEF Rest
      <3>3. Round + Round - Timeout = MaxLateness /\ MaxLateness \in Nat
        BY <2>0, <3>1, RoundFits
      <3>4. Rest = 0
        <4>1. Cardinality(batch) = 0
          BY <1>1, FS_EmptySet
        <4> QED
          BY <4>1 DEF Rest
      <3>5. now <= readyAt[t] + overrun[t] + Round
        <4>1. t \in open \ batch /\ t # cur
          BY <1>1, <2>0, TargetsAssumption
        <4>2. now + Rest + Left <= readyAt[t] + overrun[t] + Round
          BY <4>1 DEF TimeInv, Outside
        <4> QED
          BY <1>1, <2>0, <2>2, <3>4, <4>2
      <3> QED
        BY <1>1, <2>0, <2>2, <3>2, <3>3, <3>5
    <2> QED
      BY <2>0, <2>3, <2>4
  <1>5. Between'
    BY <1>1, <1>2 DEF Between, DueAt, IInv, TypeOK
  <1> QED
    BY <1>3, <1>4, <1>5 DEF TimeInv

\* The delivery to the current target ends and its time is given back.
LEMMA PutDownTimeInv ==
    ASSUME IInv, TimeInv, IInv', cur # NoTarget, PutDown, count'[cur] >= 1,
           count' = [count EXCEPT ![cur] = count'[cur]],
           open \ {cur} = open' \ {cur},
           \A t \in Targets \ {cur} : /\ scheduledFor'[t] = scheduledFor[t]
                                      /\ readyAt'[t] = readyAt[t]
                                      /\ overrun'[t] = overrun[t],
           cur \in open' => now <= readyAt'[cur] /\ now < scheduledFor'[cur]
    PROVE  TimeInv'
  <1> USE Ranges DEF PutDown, settings
  <1>1. /\ cur \in Targets /\ cur \notin batch /\ cur' = NoTarget /\ batch' = batch
        /\ Left' = 0 /\ Left \in Nat /\ now' = now /\ Rest' = Rest /\ Rest \in Nat
    BY RestIsNat DEF IInv, Fits, Left, Rest
  <1>2. Round \in Nat
    BY <1>1, RoundFits
  <1>3. Outside'
    <2> SUFFICES ASSUME ticking, NEW t \in open', t \notin batch
                 PROVE  now + Rest <= readyAt'[t] + overrun'[t] + Round
      BY <1>1 DEF Outside, Round
    <2>0. t \in Targets /\ readyAt'[t] \in Int /\ overrun'[t] \in Nat
      BY DEF IInv, TypeOK
    <2>1. CASE t = cur
      <3>1. Rest <= Round
        BY <1>1, WithoutOne DEF Rest
      <3> QED
        BY <1>1, <1>2, <2>0, <2>1, <3>1
    <2>2. CASE t # cur
      <3>1. t \in open /\ readyAt'[t] = readyAt[t] /\ overrun'[t] = overrun[t]
        BY <2>0, <2>2
      <3>2. now + Rest + Left <= readyAt[t] + overrun[t] + Round
        BY <2>2, <3>1 DEF TimeInv, Outside
      <3> QED
        BY <1>1, <1>2, <2>0, <3>1, <3>2
    <2> QED
      BY <2>1, <2>2
  <1>4. Inside'
    <2> SUFFICES ASSUME ticking, NEW t \in batch
                 PROVE  now + Rest - Timeout <= readyAt'[t] + overrun'[t] + MaxLateness
      BY <1>1 DEF Inside, MaxLateness
    <2>1. t \in Targets /\ t # cur /\ readyAt'[t] = readyAt[t] /\ overrun'[t] = overrun[t]
      BY <1>1
    <2>2. now + Rest - Timeout + Left <= readyAt[t] + overrun[t] + MaxLateness
      BY DEF TimeInv, Inside
    <2>3. MaxLateness \in Nat
      BY <1>1, RoundFits
    <2> QED
      BY <1>1, <2>1, <2>2, <2>3
  <1>5. Between'
    <2> SUFFICES ASSUME NEW t \in open', now > readyAt'[t]
                 PROVE  \E z \in Targets \ {t} : count'[z] >= 1 /\ z \notin DueAt(now)'
      BY <1>1 DEF Between
    <2>1. t # cur
      BY DEF IInv, TypeOK
    <2>2. cur \notin DueAt(now)'
      BY <1>1 DEF DueAt, IInv, TypeOK
    <2> QED
      BY <1>1, <2>1, <2>2
  <1> QED
    BY <1>3, <1>4, <1>5 DEF TimeInv

LEMMA StepTimeInv == IInv /\ IInv' /\ TimeInv /\ [Next]_vars => TimeInv'
  <1> SUFFICES ASSUME IInv, IInv', TimeInv, [Next]_vars PROVE TimeInv'
    OBVIOUS
  <1> USE Ranges
  <1>1. ASSUME NEW t \in Targets, HandleEvent(t) PROVE TimeInv'
    <2> USE <1>1 DEF HandleEvent, Schedule, workerVars, settings, Later
    <2>1. PICK d \in 0..CommitTime : Schedule(t, 1, now - d + ahead)
      OBVIOUS
    <2>2. now - d + ahead \in Int
      BY TimeAssumption DEF IInv, TypeOK
    <2>3. t \notin open /\ t \notin batch /\ t # cur
      BY TargetsAssumption DEF IInv, TypeOK, Fits
    <2>4. /\ Rest' = Rest /\ Left' = Left /\ now' = now /\ batch' = batch /\ cur' = cur
          /\ open' = open \cup {t}
          /\ \A u \in Targets \ {t} : /\ readyAt'[u] = readyAt[u]
                                      /\ overrun'[u] = overrun[u]
                                      /\ scheduledFor'[u] = scheduledFor[u]
                                      /\ count'[u] = count[u]
      BY <2>1 DEF Rest, Left, IInv, TypeOK
    <2>5. readyAt'[t] >= now /\ readyAt'[t] \in Int /\ overrun'[t] = 0
      BY <2>1, <2>2 DEF IInv, TypeOK
    <2>6. Outside'
      <3> SUFFICES ASSUME ticking, NEW u \in open', u \notin batch, u # cur
                   PROVE  now + Rest + Left <= readyAt'[u] + overrun'[u] + Round
        BY <2>4 DEF Outside, Round
      <3>1. CASE u = t
        BY <2>5, <3>1, NewIsInTime
      <3>2. CASE u # t
        BY <2>4, <3>2 DEF TimeInv, Outside
      <3> QED
        BY <3>1, <3>2
    <2>7. Inside'
      BY <2>3, <2>4 DEF TimeInv, Inside, MaxLateness
    <2>8. Between'
      <3> SUFFICES ASSUME ticking, cur = NoTarget, batch = {},
                          NEW u \in open', now > readyAt'[u]
                   PROVE  \E z \in Targets \ {u} : count'[z] >= 1 /\ z \notin DueAt(now)'
        BY <2>4 DEF Between
      <3>1. u # t
        BY <2>5
      <3>2. u \in open /\ readyAt'[u] = readyAt[u]
        BY <2>4, <3>1
      <3>3. PICK z \in Targets \ {u} : count[z] >= 1 /\ z \notin DueAt(now)
        BY <3>2 DEF TimeInv, Between
      <3>4. z # t /\ count'[z] >= 1
        BY <2>4, <3>3
      <3>5. z \notin DueAt(now)'
        BY <2>4, <3>3, <3>4 DEF DueAt
      <3> QED
        BY <3>3, <3>4, <3>5
    <2> QED
      BY <2>6, <2>7, <2>8 DEF TimeInv
  <1>2. ASSUME NEW t \in Targets, NotificationArrives(t) PROVE TimeInv'
    BY <1>2, FetchTimeInv DEF NotificationArrives
  <1>3. CASE TickerFires
    BY <1>3, FetchTimeInv DEF TickerFires
  <1>4. ASSUME NEW t \in Targets, Deliver(t) PROVE TimeInv'
    <2> USE <1>4 DEF Deliver, settings, tableVars, noteVars
    <2>1. Rest = Rest' + Timeout /\ Rest' \in Nat
      BY OneMore DEF Rest
    <2>2. Left = 0 /\ Left' = Timeout
      BY TargetsAssumption DEF Left
    <2>3. t \in Targets /\ Round \in Nat /\ MaxLateness \in Nat
      BY RoundFits
    <2>4. Outside'
      BY <2>1, <2>2, <2>3, TargetsAssumption DEF TimeInv, Outside, Round
    <2>5. Inside'
      BY <2>1, <2>2, <2>3 DEF TimeInv, Inside, MaxLateness
    <2>6. Between'
      BY TargetsAssumption DEF Between
    <2> QED
      BY <2>4, <2>5, <2>6 DEF TimeInv
  <1>5. CASE Succeed
    <2>1. count' = count /\ count[cur] >= 1 /\ cur \in Targets
      BY <1>5, TargetsAssumption DEF Succeed, IInv, TypeOK, Fits
    <2> QED
      BY <1>5, <2>1, PutDownTimeInv DEF Succeed, IInv, TypeOK
  <1>6. CASE Reschedule
    <2>1. Backoff(cur) = 1
      BY BackoffIsOne
    <2>2. /\ cur \in Targets /\ count[cur] \in Nat /\ count'[cur] = count[cur] + 1
          /\ scheduledFor'[cur] = now + 1 /\ readyAt'[cur] = now + 1
      BY <1>6, <2>1, TargetsAssumption DEF Reschedule, Schedule, Later, IInv, TypeOK
    <2> QED
      BY <1>6, <2>2, PutDownTimeInv DEF Reschedule, Schedule, IInv, TypeOK
  <1>7. CASE FinishBatch
    BY <1>7 DEF FinishBatch, settings, tableVars, noteVars, TimeInv, Outside, Inside, Between,
       Rest, Left, Round, MaxLateness, DueAt
  <1>8. CASE Advance
    <2> USE <1>8 DEF Advance, settings, tableVars, noteVars, workerVars
    <2>1. Rest' = Rest /\ Rest \in Nat
      BY RestIsNat DEF Rest
    <2>2. CASE cur # NoTarget /\ now - began < Timeout
      <3>1. now' + Left' = now + Left /\ Left' \in Nat
        BY <2>2 DEF Left
      <3>2. Round \in Nat /\ MaxLateness \in Nat
        BY <2>2, RoundFits
      <3>3. overrun' = overrun
        BY <2>2 DEF Overrunning, IInv, TypeOK
      <3>4. Outside' /\ Inside'
        BY <2>1, <3>1, <3>2, <3>3 DEF TimeInv, Outside, Inside, Round, MaxLateness
      <3>5. Between'
        BY <2>2 DEF Between
      <3> QED
        BY <3>4, <3>5 DEF TimeInv
    <2>4. CASE cur # NoTarget /\ ~(now - began < Timeout)
      <3>1. Overrunning /\ Left = 0 /\ Left' = 0 /\ cur' = cur /\ batch' = batch /\ open' = open
        BY <2>4 DEF Left
      <3>2. Round \in Nat /\ MaxLateness \in Nat
        BY <2>4, RoundFits
      <3>3. ASSUME NEW t \in open, t # cur
            PROVE  overrun'[t] = IF readyAt[t] <= now THEN overrun[t] + 1 ELSE overrun[t]
        BY <3>1, <3>3
      <3>4. Outside'
        <4> SUFFICES ASSUME ticking, NEW t \in open, t \notin batch, t # cur
                     PROVE  now + 1 + Rest <= readyAt[t] + overrun'[t] + Round
          BY <2>1, <3>1 DEF Outside, Round
        <4>0. t \in Targets /\ readyAt[t] \in Int /\ overrun[t] \in Nat
          OBVIOUS
        <4>1. now + Rest + Left <= readyAt[t] + overrun[t] + Round
          BY DEF TimeInv, Outside
        <4>2. CASE readyAt[t] <= now
          BY <2>1, <3>1, <3>2, <3>3, <4>0, <4>1, <4>2
        <4>3. CASE readyAt[t] > now
          <5>1. Rest + Left <= Round
            BY <4>0, NewIsInTime
          <5> QED
            BY <2>1, <3>1, <3>2, <3>3, <4>0, <4>3, <5>1
        <4> QED
          BY <4>2, <4>3
      <3>5. Inside'
        <4> SUFFICES ASSUME ticking, NEW t \in batch
                     PROVE  now + 1 + Rest - Timeout <= readyAt[t] + overrun'[t] + MaxLateness
          BY <2>1, <3>1 DEF Inside, MaxLateness
        <4>1. t \in open /\ t # cur /\ readyAt[t] <= now
          BY DEF IInv, TypeOK, Fits
        <4>2. now + Rest - Timeout + Left <= readyAt[t] + overrun[t] + MaxLateness
          BY DEF TimeInv, Inside
        <4>3. readyAt[t] \in Int /\ overrun[t] \in Nat
          BY <4>1
        <4> QED
          BY <2>1, <3>1, <3>2, <3>3, <4>1, <4>2, <4>3
      <3>6. Between'
        BY <3>1, <2>4 DEF Between
      <3> QED
        BY <3>4, <3>5, <3>6 DEF TimeInv
    <2>3. CASE cur = NoTarget
      <3>1. batch = {} /\ Left' = 0 /\ (ticking => DueAt(now) = {})
        BY <2>3 DEF IInv, Fits, Left
      <3>2. ASSUME ticking, NEW t \in open PROVE now' <= readyAt[t]
        BY <3>1, <3>2 DEF DueAt, IInv, TypeOK, Fits
      <3>3. ASSUME NEW t \in open PROVE Rest <= Round /\ Round \in Nat
        BY <3>1, WithoutOne DEF Rest
      <3>4. overrun' = overrun
        BY <2>3, TargetsAssumption, BrokersAssumption DEF Overrunning, IInv, TypeOK
      <3> QED
        BY <2>1, <3>1, <3>2, <3>3, <3>4 DEF TimeInv, Outside, Inside, Between, Round
    <2> QED
      BY <2>2, <2>3, <2>4
  <1>9. CASE UNCHANGED vars
    BY <1>9 DEF vars, settings, tableVars, noteVars, workerVars, TimeInv, Outside, Inside,
       Between, Rest, Left, Round, MaxLateness, DueAt
  <1> QED
    BY <1>1, <1>2, <1>3, <1>4, <1>5, <1>6, <1>7, <1>8, <1>9 DEF Next

LEMMA TimeInvariant == Spec => [](IInv /\ TimeInv)
  BY InitIInv, StepIInv, InitTimeInv, StepTimeInv, PTL DEF Spec

LEMMA LatenessFollows == IInv /\ TimeInv => BoundedLateness
  <1> SUFFICES ASSUME IInv, TimeInv, ticking, NEW t \in open, cur # t
               PROVE  now - readyAt[t] <= MaxLateness + overrun[t]
    BY DEF BoundedLateness
  <1> USE Ranges
  <1>1. t \in Targets /\ Round \in Nat /\ MaxLateness \in Nat /\ Round <= MaxLateness
    BY RoundFits
  <1>2. CASE t \in batch
    <2> DEFINE others == Cardinality(batch \ {t}) * Timeout
    <2>0. Rest = others + Timeout /\ others \in Nat
      BY <1>2, OneMore DEF Rest
    <2> HIDE DEF others
    <2>1. Rest - Timeout >= 0 /\ Rest \in Nat
      BY <2>0
    <2>2. now + Rest - Timeout + Left <= readyAt[t] + overrun[t] + MaxLateness
      BY <1>2 DEF TimeInv, Inside
    <2> QED
      BY <1>1, <2>1, <2>2
  <1>3. CASE t \notin batch
    <2>1. now + Rest + Left <= readyAt[t] + overrun[t] + Round
      BY <1>3 DEF TimeInv, Outside
    <2> QED
      BY <1>1, <2>1, RestIsNat
  <1> QED
    BY <1>2, <1>3

\* However slowly the receivers answer, and however often they fail, an attempt is made
\* within MaxLateness of the time it is due, and what it waited for brokers beyond the
\* timeout, for any number of targets and brokers.
THEOREM NobodyStarves == Spec => []BoundedLateness
  BY TimeInvariant, LatenessFollows, PTL

NoOverrun == \A t \in Targets : overrun[t] = 0

Prompt == ticking => \A t \in open : cur # t => now - readyAt[t] <= MaxLateness

LEMMA StepNoOverrun == Brokers = {} /\ IInv /\ NoOverrun /\ [Next]_vars => NoOverrun'
  <1> SUFFICES ASSUME Brokers = {}, IInv, NoOverrun, [Next]_vars PROVE NoOverrun'
    OBVIOUS
  <1>1. CASE UNCHANGED overrun
    BY <1>1 DEF NoOverrun
  <1>2. ASSUME NEW t \in Targets, overrun' = [overrun EXCEPT ![t] = 0] PROVE NoOverrun'
    BY <1>2 DEF NoOverrun, IInv, TypeOK
  <1>3. CASE Advance
    BY <1>3 DEF Advance, Overrunning, NoOverrun
  <1>4. CASE Succeed \/ Reschedule
    BY <1>2, <1>4 DEF Succeed, Reschedule, Schedule, IInv, TypeOK
  <1>5. ASSUME NEW t \in Targets, HandleEvent(t) PROVE NoOverrun'
    BY <1>2, <1>5 DEF HandleEvent, Schedule
  <1> QED
    BY <1>1, <1>3, <1>4, <1>5
    DEF Next, NotificationArrives, Deliver, TickerFires, FinishBatch, tableVars, vars

\* Where every receiver speaks HTTP, MaxLateness alone is the bound.
THEOREM NobodyStarvesByHTTP == Brokers = {} => (Spec => []Prompt)
  <1> SUFFICES ASSUME Brokers = {} PROVE Spec => []Prompt
    OBVIOUS
  <1>1. Init => NoOverrun
    BY DEF Init, NoOverrun
  <1>2. IInv /\ NoOverrun /\ [Next]_vars => NoOverrun'
    BY StepNoOverrun
  <1>3. IInv /\ NoOverrun /\ BoundedLateness => Prompt
    <2> SUFFICES ASSUME IInv, NoOverrun, BoundedLateness PROVE Prompt
      OBVIOUS
    <2>1. ASSUME ticking, NEW t \in open, cur # t PROVE now - readyAt[t] <= MaxLateness
      <3>1. t \in Targets /\ overrun[t] = 0 /\ MaxLateness \in Nat
        BY RoundFits DEF IInv, TypeOK, NoOverrun
      <3>2. now - readyAt[t] <= MaxLateness + overrun[t]
        BY <2>1 DEF BoundedLateness
      <3> QED
        BY <3>1, <3>2
    <2> QED
      BY <2>1 DEF Prompt
  <1> QED
    BY <1>1, <1>2, <1>3, Invariant, NobodyStarves, PTL DEF Spec

-----------------------------------------------------------------------------
(* The life of a target *)

\* A step that changes nothing of the tables' targets is not seen from outside.
LEMMA NoLifeChange ==
    ASSUME UNCHANGED tried, \A t \in Targets : LifeOf(t)' = LifeOf(t)
    PROVE  UNCHANGED <<Lives, Got>>
  <1>1. Lives' = Lives
    BY DEF Lives
  <1>2. Got' = Got
    BY DEF Got, TargetOf
  <1> QED
    BY <1>1, <1>2

\* A change of one target's life is one of its entry.
LEMMA OneLifeChange ==
    ASSUME NEW t \in Targets, NEW way, LifeOf(t)' = way,
           \A u \in Targets \ {t} : LifeOf(u)' = LifeOf(u)
    PROVE  Lives' = [Lives EXCEPT ![TargetOf(t)] = way]
  <1>1. ASSUME NEW p \in Targets \X {"forwarder"}
        PROVE  p[1] \in Targets /\ (p[1] = t <=> p = TargetOf(t))
    BY DEF TargetOf
  <1> QED
    BY <1>1 DEF Lives

\* Every step of the worker is one in the life of a target, or is not seen.
LEMMA LifeStep == IInv /\ [Next]_vars => [Life!Next]_<<Lives, Got>>
  <1> DEFINE Step == [Life!Next]_<<Lives, Got>>
  <1> SUFFICES ASSUME IInv, [Next]_vars PROVE Step
    OBVIOUS
  <1> USE DEF IInv
  <1>0. /\ \A t \in Targets : TargetOf(t) \in Life!Target /\ Lives[TargetOf(t)] = LifeOf(t)
        /\ \A t \in Targets : TargetOf(t) \in Got <=> t \in tried
    BY DEF TargetOf, Life!Target, Lives, Got
  <1>1. ASSUME NEW t \in Targets, HandleEvent(t) PROVE Step
    <2>1. /\ count[t] = 0 /\ count' = [count EXCEPT ![t] = 1] /\ open' = open \cup {t}
          /\ tried' = tried
      BY <1>1 DEF HandleEvent, Schedule, workerVars
    <2>2. LifeOf(t) = "none" /\ LifeOf(t)' = "pending"
      BY <2>1 DEF LifeOf, TypeOK
    <2>3. \A u \in Targets \ {t} : LifeOf(u)' = LifeOf(u)
      BY <2>1 DEF LifeOf, TypeOK
    <2>4. Lives' = [p \in Life!Target |->
                       IF p \in {t} \X {"forwarder"} THEN "pending" ELSE Lives[p]]
      BY <2>2, <2>3 DEF Lives, Life!Target
    <2>5. Life!Accept(t, "service")
      BY <1>0, <2>1, <2>2, <2>4 DEF Life!Accept, TargetOf, Got
    <2> QED
      BY <2>5 DEF Life!Next
  <1>2. ASSUME NEW t \in Targets, Deliver(t) PROVE Step
    <2>1. t \in batch /\ tried' = tried \cup {t} /\ UNCHANGED <<count, open>>
      BY <1>2 DEF Deliver, tableVars
    <2>2. LifeOf(t) = "pending"
      BY <2>1 DEF LifeOf, TypeOK, Fits
    <2>3. Lives' = Lives
      BY <2>1 DEF Lives, LifeOf
    <2>4. Got' = Got \cup {TargetOf(t)}
      BY <2>1 DEF Got, TargetOf
    <2>5. Life!Receive(TargetOf(t))
      BY <1>0, <2>2, <2>3, <2>4 DEF Life!Receive
    <2> QED
      BY <1>0, <2>5 DEF Life!Next
  <1>3. CASE Succeed
    <2>1. PICK t \in Targets : t = cur
      BY <1>3, TargetsAssumption DEF Succeed, TypeOK
    <2>2. /\ t \in open /\ t \in tried /\ open' = open \ {t} /\ UNCHANGED <<count, tried>>
      BY <1>3, <2>1 DEF Succeed, PutDown, TypeOK, Fits
    <2>3. LifeOf(t) = "pending" /\ count[t] # 0
      BY <2>2 DEF LifeOf, TypeOK, Fits
    <2>4. LifeOf(t)' = "delivered"
      BY <2>2, <2>3 DEF LifeOf
    <2>5. \A u \in Targets \ {t} : LifeOf(u)' = LifeOf(u)
      BY <2>2 DEF LifeOf
    <2>6. Lives' = [Lives EXCEPT ![TargetOf(t)] = "delivered"]
      BY <2>4, <2>5, OneLifeChange
    <2>7. Got' = Got
      BY <2>2 DEF Got, TargetOf
    <2>8. Life!Deliver(TargetOf(t))
      BY <1>0, <2>2, <2>3, <2>6, <2>7 DEF Life!Deliver, Life!End
    <2> QED
      BY <1>0, <2>8 DEF Life!Next
  <1>4. CASE Reschedule
    <2>1. /\ cur \in open /\ cur \in Targets /\ open' = open \cup {cur} /\ tried' = tried
          /\ count' = [count EXCEPT ![cur] = count[cur] + 1]
      BY <1>4 DEF Reschedule, Schedule, PutDown, TypeOK
    <2>2. \A t \in Targets : LifeOf(t)' = LifeOf(t)
      BY <2>1 DEF LifeOf, TypeOK, Fits
    <2> QED
      BY <2>1, <2>2, NoLifeChange
  <1>5. CASE UNCHANGED <<count, open, tried>>
    BY <1>5, NoLifeChange DEF LifeOf
  <1> QED
    BY <1>1, <1>2, <1>3, <1>4, <1>5
    DEF Next, NotificationArrives, TickerFires, Fetch, FinishBatch, Advance, tableVars,
        workerVars, vars

\* With a clock too, a target is pending until it is delivered, once: no batch, however
\* old, makes the worker deliver what is delivered.
THEOREM TimedWorkerIsATargetLife == Spec => ImplementsLife
  <1>1. Init => Life!Init
    BY DEF Init, Life!Init, Life!Target, Lives, LifeOf, Got
  <1> QED
    BY <1>1, LifeStep, Invariant, PTL DEF Spec, ImplementsLife, Life!Spec
=============================================================================
