----------------------------- MODULE AmqpProofs -----------------------------
(***************************************************************************)
(* What AmqpForwarder keeps true for any number of calls and faults.       *)
(***************************************************************************)
EXTENDS AmqpForwarder, FiniteSetTheorems, TLAPS

\* The initial state is well typed.
LEMMA TypeInit == Init => TypeOK
BY BoundAssumption DEF Init, TypeOK, Calls

\* Every step keeps the types.
LEMMA TypeStep == TypeOK /\ [Next]_vars => TypeOK'
<1> SUFFICES ASSUME TypeOK, [Next]_vars PROVE TypeOK'
  OBVIOUS
<1> USE BoundAssumption DEF Calls
<1>1. CASE Forward
  BY <1>1 DEF Forward, clientVars, TypeOK
<1>2. CASE UseSession
  BY <1>2 DEF UseSession, Goto, clientVars, TypeOK
<1>3. CASE CreateSession
  BY <1>3 DEF CreateSession, Goto, clientVars, TypeOK
<1>4. CASE CreateSessionFails
  BY <1>4 DEF CreateSessionFails, Fault, Return, clientVars, TypeOK
<1>5. CASE DeclareExchange
  BY <1>5 DEF DeclareExchange, Goto, clientVars, TypeOK
<1>6. CASE DeclareExchangeFails
  BY <1>6 DEF DeclareExchangeFails, Fault, Return, clientVars, TypeOK
<1>7. CASE ConfirmSelect
  BY <1>7 DEF ConfirmSelect, Goto, TypeOK
<1>8. CASE ConfirmFails
  BY <1>8 DEF ConfirmFails, Goto, TypeOK
<1>9. CASE Publish
  BY <1>9 DEF Publish, Goto, TypeOK
<1>10. CASE PublishFails
  <2>1. call \in 1..MaxCalls /\ faults' \in 0..MaxFaults
    BY <1>10 DEF PublishFails, Fault, TypeOK
  <2>2. CASE call \in closed
    BY <1>10, <2>1, <2>2 DEF PublishFails, Goto, TypeOK
  <2>3. CASE call \notin closed
    BY <1>10, <2>1, <2>3 DEF PublishFails, Return, TypeOK
  <2>4. QED
    BY <2>2, <2>3
<1>11. CASE Receive
  BY <1>11 DEF Receive, Return, TypeOK
<1>12. CASE Restart
  BY <1>12 DEF Restart, Goto, TypeOK
<1>13. CASE LinkLost
  <2>1. faults' \in 0..MaxFaults
    BY <1>13 DEF LinkLost, Fault, TypeOK
  <2>2. link' \in {"channelClosed", "connClosed"}
    BY <1>13 DEF LinkLost
  <2>3. /\ listeners' = {} /\ closed' = closed \cup listeners /\ inflight' = {}
        /\ pc' = pc \/ pc' = "panic"
        /\ UNCHANGED <<call, result, buffer, reader, acked>>
    BY <1>13 DEF LinkLost
  <2>4. QED
    BY <2>1, <2>2, <2>3 DEF TypeOK
<1>14. ASSUME NEW v \in {"ack", "nack"}, Confirmation(v) PROVE TypeOK'
  BY <1>14
  DEF Confirmation, callVars, TypeOK
<1>15. CASE UNCHANGED vars
  BY <1>15 DEF vars, callVars, clientVars, TypeOK
<1>16. QED
  BY <1>1, <1>2, <1>3, <1>4, <1>5, <1>6, <1>7, <1>8, <1>9, <1>10, <1>11, <1>12,
     <1>13, <1>14, <1>15 DEF Next, Step

\* Type correctness: in every reachable state each variable has its type.
THEOREM TypeCorrect == Spec => []TypeOK
BY TypeInit, TypeStep, PTL DEF Spec

-----------------------------------------------------------------------------
(* The confirm channel of the current call *)

\* Calls to come have left no trace: their confirm channels do not exist.
FutureIsBlank ==
    \A c \in Calls : c > call =>
        buffer[c] = "empty" /\ c \notin closed /\ c \notin listeners /\ result[c] = "none"

\* Until the call registers or closes its confirm channel, that is its own; until it
\* publishes, nothing comes in.
BeforePublish ==
    /\ pc \in {"session", "declare", "confirm"} => call \notin closed /\ call \notin listeners
    /\ pc \in {"session", "declare", "confirm", "publish"} => buffer[call] = "empty"
    /\ pc = "publish" => IF link = "up" THEN call \in listeners /\ call \notin closed
                                          ELSE call \in closed

\* Only the message of the waiting call is on its way, its buffer is empty as long as
\* it is, and what it then finds there is the broker's answer to this message.
OwnAnswer ==
    /\ inflight # {} => pc = "wait" /\ inflight = {call} /\ buffer[call] = "empty" /\ call \notin closed
    /\ pc = "wait" /\ buffer[call] = "ack" => call \in acked

\* The inductive invariant.
Own == FutureIsBlank /\ BeforePublish /\ OwnAnswer /\ OkMeansAcked /\ ListenersAreOpen

\* Every step keeps it.
LEMMA OwnStep == TypeOK /\ Own /\ [Next]_vars => Own'
<1> SUFFICES ASSUME TypeOK, Own, [Next]_vars PROVE Own'
  OBVIOUS
<1> USE BoundAssumption DEF Calls
<1>1. CASE Forward
  BY <1>1
  DEF Forward, clientVars, TypeOK, Own, FutureIsBlank, BeforePublish, OwnAnswer,
     OkMeansAcked, ListenersAreOpen
<1>2. CASE UseSession
  BY <1>2
  DEF UseSession, Goto, clientVars, TypeOK, Own, FutureIsBlank, BeforePublish,
     OwnAnswer, OkMeansAcked, ListenersAreOpen
<1>3. CASE CreateSession
  BY <1>3
  DEF CreateSession, Goto, clientVars, TypeOK, Own, FutureIsBlank, BeforePublish,
     OwnAnswer, OkMeansAcked, ListenersAreOpen
<1>4. CASE CreateSessionFails
  BY <1>4
  DEF CreateSessionFails, Fault, Return, clientVars, TypeOK, Own, FutureIsBlank,
     BeforePublish, OwnAnswer, OkMeansAcked, ListenersAreOpen
<1>5. CASE DeclareExchange
  BY <1>5
  DEF DeclareExchange, Goto, clientVars, TypeOK, Own, FutureIsBlank, BeforePublish,
     OwnAnswer, OkMeansAcked, ListenersAreOpen
<1>6. CASE DeclareExchangeFails
  BY <1>6
  DEF DeclareExchangeFails, Fault, Return, clientVars, TypeOK, Own, FutureIsBlank,
     BeforePublish, OwnAnswer, OkMeansAcked, ListenersAreOpen
<1>7. CASE ConfirmSelect
  BY <1>7
  DEF ConfirmSelect, Goto, TypeOK, Own, FutureIsBlank, BeforePublish, OwnAnswer,
     OkMeansAcked, ListenersAreOpen
<1>8. CASE ConfirmFails
  BY <1>8
  DEF ConfirmFails, Goto, TypeOK, Own, FutureIsBlank, BeforePublish, OwnAnswer,
     OkMeansAcked, ListenersAreOpen
<1>9. CASE Publish
  BY <1>9
  DEF Publish, Goto, TypeOK, Own, FutureIsBlank, BeforePublish, OwnAnswer,
     OkMeansAcked, ListenersAreOpen
<1>10. CASE PublishFails
  <2>1. CASE call \in closed
    BY <1>10, <2>1 DEF PublishFails, Goto, TypeOK, Own, FutureIsBlank, BeforePublish, OwnAnswer,
       OkMeansAcked, ListenersAreOpen
  <2>2. CASE call \notin closed
    <3>1. link = "up" /\ link' = "writeFailed"
      BY <1>10, <2>2 DEF PublishFails, Own, BeforePublish
    <3>2. QED
      BY <1>10, <2>2, <3>1 DEF PublishFails, Return, TypeOK, Own, FutureIsBlank, BeforePublish, OwnAnswer,
       OkMeansAcked, ListenersAreOpen
  <2>3. QED
    BY <2>1, <2>2
<1>11. CASE Receive
  <2>1. CASE buffer[call] # "empty"
    BY <1>11, <2>1 DEF Receive, Return, TypeOK, Own, FutureIsBlank, BeforePublish, OwnAnswer,
       OkMeansAcked, ListenersAreOpen
  <2>2. CASE buffer[call] = "empty"
    BY <1>11, <2>2 DEF Receive, Return, TypeOK, Own, FutureIsBlank, BeforePublish, OwnAnswer,
       OkMeansAcked, ListenersAreOpen
  <2>3. QED
    BY <2>1, <2>2
<1>12. CASE Restart
  BY <1>12
  DEF Restart, Goto, TypeOK, Own, FutureIsBlank, BeforePublish, OwnAnswer,
     OkMeansAcked, ListenersAreOpen
<1>13. CASE LinkLost
  BY <1>13
  DEF LinkLost, Fault, TypeOK, Own, FutureIsBlank, BeforePublish, OwnAnswer,
     OkMeansAcked, ListenersAreOpen
<1>14. ASSUME NEW v \in {"ack", "nack"}, Confirmation(v) PROVE Own'
  BY <1>14
  DEF Confirmation, callVars, TypeOK, Own, FutureIsBlank, BeforePublish, OwnAnswer,
     OkMeansAcked, ListenersAreOpen
<1>15. CASE UNCHANGED vars
  BY <1>15 DEF vars, callVars, clientVars, TypeOK, Own, FutureIsBlank, BeforePublish, OwnAnswer, OkMeansAcked, ListenersAreOpen
<1>16. QED
  BY <1>1, <1>2, <1>3, <1>4, <1>5, <1>6, <1>7, <1>8, <1>9, <1>10, <1>11, <1>12,
     <1>13, <1>14, <1>15 DEF Next, Step

\* In every reachable state.
LEMMA OwnInvariant == Spec => []Own
<1>1. Init => Own
  BY BoundAssumption
  DEF Init, Own, FutureIsBlank, BeforePublish, OwnAnswer, OkMeansAcked, ListenersAreOpen, Calls
<1>2. QED
  BY <1>1, OwnStep, TypeCorrect, PTL DEF Spec

\* A delivery that the forwarder reports a success was acknowledged by the broker,
\* however many listeners of earlier calls are still registered.
THEOREM SuccessIsAcked == Spec => []OkMeansAcked
<1>1. Own => OkMeansAcked
  BY DEF Own
<1>2. QED
  BY <1>1, OwnInvariant, PTL

\* Unless a write has just failed, no confirm channel that the library may send to is
\* closed.
THEOREM ListenersStayOpen == Spec => []ListenersAreOpen
<1>1. Own => ListenersAreOpen
  BY DEF Own
<1>2. QED
  BY <1>1, OwnInvariant, PTL

-----------------------------------------------------------------------------
(* The buffers of earlier listeners *)

LEMMA ThreeAreThree ==
    ASSUME NEW S, IsFiniteSet(S), NEW a \in S, NEW b \in S, NEW c \in S,
           a # b, a # c, b # c
    PROVE  Cardinality(S) >= 3
<1>1. IsFiniteSet({c}) /\ Cardinality({c}) = 1
  BY FS_Singleton
<1>2. IsFiniteSet({c} \cup {b}) /\ Cardinality({c} \cup {b}) = 2
  BY <1>1, FS_AddElement
<1>3. IsFiniteSet(({c} \cup {b}) \cup {a}) /\ Cardinality(({c} \cup {b}) \cup {a}) = 3
  BY <1>2, FS_AddElement
<1>4. Cardinality(({c} \cup {b}) \cup {a}) <= Cardinality(S) /\ Cardinality(S) \in Nat
  BY FS_Subset, FS_CardinalityType
<1>5. QED
  BY <1>3, <1>4

\* What a listener holds is the confirmation of its own call, which is about to take it,
\* or that of a later call whose listener is registered as well.
Held(l) ==
    \/ l = call /\ pc = "wait" /\ inflight = {}
    \/ \E k \in listeners : k > l /\ (k = call => pc \in {"wait", "idle"} /\ inflight = {})

Crowd ==
    /\ pc = "wait" /\ link = "up" => call \in listeners
    /\ reader = "running" => \A l \in listeners : buffer[l] # "empty" => Held(l)
    /\ StuckAtTheThird

\* Every step keeps it.  A confirmation that finds a full buffer is that of the current
\* call, which is therefore the third after the listener and the one it was filled for.
LEMMA CrowdStep == TypeOK /\ Own /\ Crowd /\ [Next]_vars => Crowd'
<1> SUFFICES ASSUME TypeOK, Own, Crowd, [Next]_vars PROVE Crowd'
  OBVIOUS
<1> USE BoundAssumption DEF Calls
<1>0. IsFiniteSet(listeners)
  <2>1. IsFiniteSet(1..MaxCalls)
    BY FS_Interval
  <2>2. QED
    BY <2>1, FS_Subset DEF TypeOK
<1>1. CASE Forward
  BY <1>1 DEF Forward, clientVars, TypeOK, Own, FutureIsBlank, Crowd, Held, StuckAtTheThird
<1>2. CASE UseSession
  BY <1>2 DEF UseSession, Goto, clientVars, Crowd, Held, StuckAtTheThird
<1>3. CASE CreateSession
  BY <1>3 DEF CreateSession, Goto, clientVars, Crowd, Held, StuckAtTheThird
<1>4. CASE CreateSessionFails
  BY <1>4 DEF CreateSessionFails, Return, clientVars, Crowd, Held, StuckAtTheThird
<1>5. CASE DeclareExchange
  BY <1>5 DEF DeclareExchange, Goto, clientVars, Crowd, Held, StuckAtTheThird
<1>6. CASE DeclareExchangeFails
  BY <1>6 DEF DeclareExchangeFails, Return, clientVars, Crowd, Held, StuckAtTheThird
<1>7. CASE ConfirmSelect
  <2>1. listeners' = listeners \cup {call} /\ buffer[call] = "empty" /\ pc = "confirm" /\ pc' = "publish"
        /\ UNCHANGED <<call, buffer, inflight, reader>>
    BY <1>7 DEF ConfirmSelect, Goto, Own, BeforePublish
  <2>2. \A l \in listeners : Held(l) => Held(l)'
    BY <2>1 DEF Held
  <2>3. IsFiniteSet(listeners') /\ Cardinality(listeners) <= Cardinality(listeners')
        /\ Cardinality(listeners) \in Nat /\ Cardinality(listeners') \in Nat
    BY <1>0, <2>1, FS_AddElement, FS_Subset, FS_CardinalityType
  <2>4. StuckAtTheThird'
    BY <2>1, <2>3 DEF Crowd, StuckAtTheThird
  <2>5. QED
    BY <2>1, <2>2, <2>4 DEF Crowd
<1>8. CASE ConfirmFails
  BY <1>8 DEF ConfirmFails, Goto, Crowd, Held, StuckAtTheThird
<1>9. CASE Publish
  BY <1>9 DEF Publish, Goto, TypeOK, Own, BeforePublish, Crowd, Held, StuckAtTheThird
<1>10. CASE PublishFails
  <2>1. pc = "publish" /\ pc' \in {"panic", "idle"} /\ UNCHANGED <<call, listeners, buffer, inflight, reader>>
    BY <1>10 DEF PublishFails, Goto, Return
  <2>2. \A l \in listeners : Held(l) => Held(l)'
    BY <2>1 DEF Held
  <2>3. QED
    BY <2>1, <2>2 DEF Crowd, StuckAtTheThird
<1>11. CASE Receive
  <2>1. pc = "wait" /\ pc' = "idle" /\ UNCHANGED <<call, listeners, inflight, reader>>
    BY <1>11 DEF Receive, Return
  <2>2. buffer'[call] = "empty" /\ \A l \in Calls : l # call => buffer'[l] = buffer[l]
    BY <1>11, <2>1 DEF Receive, Return, TypeOK
  <2>3. \A l \in listeners : l # call /\ Held(l) => Held(l)'
    BY <2>1 DEF Held
  <2>4. QED
    BY <2>1, <2>2, <2>3 DEF TypeOK, Crowd, StuckAtTheThird
<1>12. CASE Restart
  BY <1>12 DEF Restart, Goto, Crowd, StuckAtTheThird
<1>13. CASE LinkLost
  BY <1>13 DEF LinkLost, Crowd, StuckAtTheThird
<1>14. ASSUME NEW v \in {"ack", "nack"}, Confirmation(v) PROVE Crowd'
  <2>1. pc = "wait" /\ inflight = {call} /\ buffer[call] = "empty" /\ inflight' = {} /\ call \in listeners
        /\ reader = "running" /\ UNCHANGED <<pc, call, listeners, link>>
    BY <1>14 DEF Confirmation, callVars, Own, OwnAnswer, Crowd
  <2>2. \A l \in listeners : Held(l)'
    BY <2>1 DEF Held, TypeOK, Own, FutureIsBlank
  <2>3. CASE \E l \in listeners : buffer[l] # "empty"
    <3>1. PICK l \in listeners : buffer[l] # "empty"
      BY <2>3
    <3>2. PICK k \in listeners : k > l /\ k # call
      BY <2>1, <3>1 DEF Crowd, Held
    <3>3. l # call /\ l # k
      BY <2>1, <3>1, <3>2 DEF TypeOK
    <3>4. Cardinality(listeners) >= 3
      BY <1>0, <2>1, <3>2, <3>3, ThreeAreThree
    <3>5. QED
      BY <2>1, <2>2, <3>4 DEF Crowd, StuckAtTheThird
  <2>4. CASE ~ \E l \in listeners : buffer[l] # "empty"
    <3>1. reader' = "running"
      BY <1>14, <2>4 DEF Confirmation
    <3>2. QED
      BY <2>1, <2>2, <3>1 DEF Crowd, StuckAtTheThird
  <2>5. QED
    BY <2>3, <2>4
<1>15. CASE UNCHANGED vars
  BY <1>15 DEF vars, callVars, clientVars, Crowd, Held, StuckAtTheThird
<1>16. QED
  BY <1>1, <1>2, <1>3, <1>4, <1>5, <1>6, <1>7, <1>8, <1>9, <1>10, <1>11, <1>12,
     <1>13, <1>14, <1>15 DEF Next, Step

\* The library's reader gets stuck at the third confirmation of a channel and never
\* before, however many calls there are.
THEOREM TwoAreHarmless == Spec => []StuckAtTheThird
<1>1. Init => Crowd
  BY DEF Init, Crowd, StuckAtTheThird
<1>2. Spec => []Crowd
  BY <1>1, CrowdStep, TypeCorrect, OwnInvariant, PTL DEF Spec
<1>3. Crowd => StuckAtTheThird
  BY DEF Crowd
<1>4. QED
  BY <1>2, <1>3, PTL

-----------------------------------------------------------------------------
(* The wait for a confirmation *)

\* A message is on its way over a link that is up, and only a call that waits can be
\* there when the reader gets stuck.
InVain ==
    /\ inflight # {} => link = "up"
    /\ reader = "stuck" => pc = "wait"
    /\ WaitsInVainIfStuck

\* Every step keeps it.  A confirmation that finds a full buffer finds it before it comes
\* to the listener of the current call, which was registered last.
LEMMA InVainStep == TypeOK /\ Own /\ Crowd /\ InVain /\ [Next]_vars => InVain'
<1> SUFFICES ASSUME TypeOK, Own, Crowd, InVain, [Next]_vars PROVE InVain'
  OBVIOUS
<1> USE BoundAssumption DEF Calls
<1>1. CASE Forward
  BY <1>1 DEF Forward, clientVars, InVain, WaitsInVainIfStuck, Own, OwnAnswer
<1>2. CASE UseSession \/ CreateSession \/ CreateSessionFails \/ DeclareExchange
            \/ DeclareExchangeFails \/ ConfirmSelect \/ ConfirmFails
  <2>1. pc # "wait" /\ pc' # "wait" /\ inflight' = inflight /\ reader' = reader
    BY <1>2 DEF UseSession, CreateSession, CreateSessionFails, DeclareExchange,
                DeclareExchangeFails, ConfirmSelect, ConfirmFails, Goto, Return, clientVars
  <2>2. QED
    BY <2>1 DEF InVain, WaitsInVainIfStuck, Own, OwnAnswer
<1>3. CASE Publish
  <2>1. /\ pc = "publish" /\ pc' = "wait" /\ link = "up" /\ inflight' = inflight \cup {call}
        /\ UNCHANGED <<call, link, listeners, buffer, closed, reader>>
    BY <1>3 DEF Publish, Goto
  <2>2. reader = "running"
    BY <2>1 DEF InVain, TypeOK
  <2>3. call \in listeners
    BY <2>1 DEF Own, BeforePublish
  <2>4. QED
    BY <2>1, <2>2, <2>3 DEF InVain, WaitsInVainIfStuck, AnswerComes
<1>4. CASE PublishFails
  <2>1. pc = "publish" /\ pc' # "wait" /\ inflight' = inflight /\ reader' = reader
    BY <1>4 DEF PublishFails, Goto, Return
  <2>2. QED
    BY <2>1 DEF InVain, WaitsInVainIfStuck, Own, OwnAnswer
<1>5. CASE Receive
  <2>1. /\ pc = "wait" /\ pc' = "idle" /\ (buffer[call] # "empty" \/ call \in closed)
        /\ UNCHANGED <<link, inflight, reader>>
    BY <1>5 DEF Receive, Return
  <2>2. QED
    BY <2>1 DEF InVain, WaitsInVainIfStuck, AnswerComes
<1>6. CASE Restart
  BY <1>6 DEF Restart, Goto, InVain, WaitsInVainIfStuck
<1>7. CASE LinkLost
  <2>1. /\ reader = "running" /\ reader' = "running" /\ inflight' = {}
        /\ pc' = pc \/ pc' = "panic"
        /\ closed' = closed \cup listeners /\ UNCHANGED <<call, buffer>>
    BY <1>7 DEF LinkLost
  <2>2. ASSUME pc = "wait" PROVE buffer[call] # "empty" \/ call \in closed'
    <3>1. buffer[call] = "empty" => call \in closed \/ call \in listeners
      BY <2>1, <2>2 DEF InVain, WaitsInVainIfStuck, AnswerComes
    <3>2. QED
      BY <2>1, <3>1
  <2>3. QED
    BY <2>1, <2>2 DEF InVain, WaitsInVainIfStuck, AnswerComes
<1>8. ASSUME NEW v \in {"ack", "nack"}, Confirmation(v) PROVE InVain'
  <2>1. /\ pc = "wait" /\ inflight = {call} /\ inflight' = {}
        /\ buffer[call] = "empty" /\ call \notin closed /\ call \in listeners
        /\ UNCHANGED <<pc, call, link, listeners, closed>>
    BY <1>8 DEF Confirmation, callVars, Own, OwnAnswer, Crowd
  <2>2. CASE \E l \in listeners : buffer[l] # "empty"
    <3>1. PICK l \in listeners : buffer[l] # "empty"
      BY <2>2
    <3>2. ~ (call < l)
      BY <2>1, <3>1 DEF Own, FutureIsBlank, TypeOK
    <3>3. reader' = "stuck"
      BY <1>8, <3>1 DEF Confirmation
    <3>4. buffer'[call] = "empty"
      BY <1>8, <2>1, <3>1, <3>2 DEF Confirmation, TypeOK
    <3>5. QED
      BY <2>1, <3>3, <3>4 DEF InVain, WaitsInVainIfStuck, AnswerComes
  <2>3. CASE ~ \E l \in listeners : buffer[l] # "empty"
    <3>1. reader' = "running" /\ buffer'[call] = v
      BY <1>8, <2>1, <2>3 DEF Confirmation, TypeOK
    <3>2. QED
      BY <2>1, <3>1 DEF InVain, WaitsInVainIfStuck, AnswerComes
  <2>4. QED
    BY <2>2, <2>3
<1>9. CASE UNCHANGED vars
  BY <1>9 DEF vars, callVars, clientVars, InVain, WaitsInVainIfStuck, AnswerComes
<1>10. QED
  BY <1>1, <1>2, <1>3, <1>4, <1>5, <1>6, <1>7, <1>8, <1>9 DEF Next, Step

\* A call that waits has its answer to come, unless the reader is stuck; then nothing
\* can end the wait.
THEOREM StuckMeansForEver == Spec => []WaitsInVainIfStuck
<1>1. Init => Crowd /\ InVain
  BY DEF Init, Crowd, StuckAtTheThird, InVain, WaitsInVainIfStuck
<1>2. Spec => [](Crowd /\ InVain)
  BY <1>1, CrowdStep, InVainStep, TypeCorrect, OwnInvariant, PTL DEF Spec
<1>3. InVain => WaitsInVainIfStuck
  BY DEF InVain
<1>4. QED
  BY <1>2, <1>3, PTL

-----------------------------------------------------------------------------
(* The life of a call *)

Idle == {"idle", "panic"}

\* A call that is under way has no result yet.
Unanswered == pc \notin Idle => result[call] = "none"

\* Every step keeps it.
LEMMA UnansweredStep == TypeOK /\ Own /\ Unanswered /\ [Next]_vars => Unanswered'
<1> SUFFICES ASSUME TypeOK, Own, Unanswered, [Next]_vars PROVE Unanswered'
  OBVIOUS
<1>1. CASE Forward
  <2>1. call + 1 \in Calls /\ call + 1 > call
    BY <1>1, BoundAssumption DEF Forward, TypeOK, Calls
  <2>2. QED
    BY <1>1, <2>1 DEF Forward, Unanswered, Own, FutureIsBlank
<1>2. CASE pc' \in Idle
  BY <1>2 DEF Unanswered
<1>3. CASE pc \notin Idle /\ UNCHANGED <<call, result>>
  BY <1>3 DEF Unanswered
<1>4. CASE UNCHANGED <<pc, call, result>>
  BY <1>4 DEF Unanswered
<1>5. QED
  BY <1>1, <1>2, <1>3, <1>4
  DEF Next, Step, UseSession, CreateSession, CreateSessionFails, DeclareExchange,
      DeclareExchangeFails, ConfirmSelect, ConfirmFails, Publish, PublishFails, Receive,
      Restart, Confirmation, LinkLost, Goto, Return, callVars, vars, Idle

\* Calls and their lives.
LEMMA LivesFacts ==
    /\ Life!Target = Calls \X {"broker"}
    /\ \A c \in Calls : /\ <<c, "broker">> \in Life!Target
                        /\ Lives[<<c, "broker">>] = LifeOf(c)
                        /\ <<c, "broker">> \in Got <=> c \in acked
BY DEF Life!Target, Lives, Got

\* A step that changes no call's life and acknowledges nothing is not seen.
LEMMA NoLifeChange ==
    ASSUME UNCHANGED acked, \A c \in Calls : LifeOf(c)' = LifeOf(c)
    PROVE  UNCHANGED <<Lives, Got>>
BY DEF Lives, Got

\* The current call is over: with its result, or with none if the process is gone.
LEMMA EndOfCall ==
    ASSUME TypeOK, Unanswered, NEW c \in Calls, c = call, pc \notin Idle,
           pc' \in Idle, call' = call, UNCHANGED acked,
           NEW v \in {"none", "ok", "error"}, result' = [result EXCEPT ![c] = v],
           v = "ok" => c \in acked
    PROVE  Life!Deliver(<<c, "broker">>) \/ Life!Lose(<<c, "broker">>)
<1> DEFINE way == IF v = "ok" THEN "delivered" ELSE "lost"
<1>1. LifeOf(c) = "pending"
  BY BoundAssumption DEF LifeOf, Unanswered, Calls, Idle
<1>2. LifeOf(c)' = way
  BY BoundAssumption DEF LifeOf, Calls, Idle, TypeOK
<1>3. \A d \in Calls \ {c} : LifeOf(d)' = LifeOf(d)
  BY DEF LifeOf, TypeOK
<1>4. Lives' = [Lives EXCEPT ![<<c, "broker">>] = way]
  <2>1. \A p \in Calls \X {"broker"} : p[1] \in Calls /\ (p[1] = c <=> p = <<c, "broker">>)
    OBVIOUS
  <2>2. QED
    BY <1>2, <1>3, <2>1 DEF Lives
<1>5. Got' = Got
  BY DEF Got
<1>6. QED
  BY <1>1, <1>4, <1>5, LivesFacts DEF Life!Deliver, Life!Lose, Life!End

\* Every step is one in the life of a call, or is not seen.
LEMMA LifeStep == TypeOK /\ Own /\ Unanswered /\ [Next]_vars => [Life!Next]_<<Lives, Got>>
<1> DEFINE Seen == [Life!Next]_<<Lives, Got>>
<1> SUFFICES ASSUME TypeOK, Own, Unanswered, [Next]_vars PROVE Seen
  OBVIOUS
<1>1. CASE Forward
  <2>1. PICK c \in Calls : c = call + 1
    BY <1>1, BoundAssumption DEF Forward, TypeOK, Calls
  <2>2. /\ call' = c /\ c > call /\ pc = "idle" /\ pc' = "session"
        /\ UNCHANGED <<result, acked>>
    BY <1>1, <2>1 DEF Forward, TypeOK
  <2>3. LifeOf(c) = "none" /\ result[c] = "none"
    BY <2>2 DEF LifeOf, Own, FutureIsBlank
  <2>4. LifeOf(c)' = "pending"
    BY <2>2, <2>3, BoundAssumption DEF LifeOf, Calls
  <2>5. ASSUME NEW d \in Calls, d # c PROVE LifeOf(d)' = LifeOf(d)
    <3>1. d > call <=> d > c
      BY <2>1, <2>5, BoundAssumption DEF Calls, TypeOK
    <3>2. QED
      BY <2>2, <2>5, <3>1 DEF LifeOf
  <2>6. Lives' = [p \in Life!Target |->
                     IF p \in {c} \X {"broker"} THEN "pending" ELSE Lives[p]]
    BY <2>4, <2>5, LivesFacts DEF Lives
  <2>7. Got' = Got
    BY <2>2 DEF Got
  <2>8. Life!Accept(c, "service")
    BY <2>3, <2>6, <2>7, LivesFacts DEF Life!Accept
  <2>9. QED
    BY <2>8 DEF Life!Next
<1>2. ASSUME pc \notin Idle, pc' \in Idle, UNCHANGED <<call, acked>>,
             NEW v \in {"none", "ok", "error"}, result' = [result EXCEPT ![call] = v],
             v = "ok" => call \in acked
      PROVE  Seen
  <2>1. PICK c \in Calls : c = call
    BY <1>2 DEF TypeOK, Idle
  <2>2. Life!Deliver(<<c, "broker">>) \/ Life!Lose(<<c, "broker">>)
    BY <1>2, <2>1, EndOfCall
  <2>3. QED
    BY <2>2, LivesFacts DEF Life!Next
<1>3. ASSUME pc \notin Idle, pc' \in Idle, UNCHANGED <<call, result, acked>> PROVE Seen
  <2>1. result' = [result EXCEPT ![call] = "none"]
    BY <1>3 DEF Unanswered, TypeOK
  <2>2. QED
    BY <1>2, <1>3, <2>1
<1>4. ASSUME pc \in Idle <=> pc' \in Idle, UNCHANGED <<call, result, acked>> PROVE Seen
  BY <1>4, NoLifeChange DEF LifeOf, Idle
<1>5. CASE UseSession \/ CreateSession \/ DeclareExchange \/ ConfirmSelect \/ ConfirmFails \/ Publish
  BY <1>4, <1>5
  DEF UseSession, CreateSession, DeclareExchange, ConfirmSelect, ConfirmFails, Publish, Goto, Idle
<1>6. CASE CreateSessionFails \/ DeclareExchangeFails
  BY <1>2, <1>6 DEF CreateSessionFails, DeclareExchangeFails, Return, Idle
<1>7. CASE PublishFails
  <2>1. CASE call \in closed
    BY <1>3, <1>7, <2>1 DEF PublishFails, Goto, Idle
  <2>2. CASE call \notin closed
    BY <1>2, <1>7, <2>2 DEF PublishFails, Return, Idle
  <2>3. QED
    BY <2>1, <2>2
<1>8. CASE Receive
  <2>1. pc = "wait" /\ pc' = "idle" /\ UNCHANGED <<call, acked>>
    BY <1>8 DEF Receive, Return
  <2>2. CASE buffer[call] = "ack" /\ result' = [result EXCEPT ![call] = "ok"]
    <3>1. call \in acked
      BY <2>1, <2>2 DEF Own, OwnAnswer
    <3>2. QED
      BY <1>2, <2>1, <2>2, <3>1 DEF Idle
  <2>3. CASE result' = [result EXCEPT ![call] = "error"]
    BY <1>2, <2>1, <2>3 DEF Idle
  <2>4. QED
    BY <1>8, <2>2, <2>3 DEF Receive, Return
<1>9. CASE Restart
  BY <1>4, <1>9 DEF Restart, Goto, Idle
<1>10. ASSUME NEW v \in {"ack", "nack"}, Confirmation(v) PROVE Seen
  <2>1. /\ pc = "wait" /\ inflight = {call} /\ UNCHANGED <<pc, call, result>>
        /\ acked' = IF v = "ack" THEN acked \cup {call} ELSE acked
    BY <1>10 DEF Confirmation, callVars, Own, OwnAnswer
  <2>2. CASE v # "ack"
    BY <1>4, <2>1, <2>2
  <2>3. CASE v = "ack"
    <3>1. PICK c \in Calls : c = call
      BY <2>1 DEF TypeOK
    <3>2. LifeOf(c) = "pending"
      BY <2>1, <3>1, BoundAssumption DEF LifeOf, Unanswered, Calls, Idle
    <3>3. Lives' = Lives
      BY <2>1 DEF Lives, LifeOf
    <3>4. Got' = Got \cup {<<c, "broker">>}
      BY <2>1, <2>3, <3>1 DEF Got
    <3>5. Life!Receive(<<c, "broker">>)
      BY <3>2, <3>3, <3>4, LivesFacts DEF Life!Receive
    <3>6. QED
      BY <3>5, LivesFacts DEF Life!Next
  <2>4. QED
    BY <2>2, <2>3
<1>11. CASE LinkLost
  <2>1. UNCHANGED <<call, result, acked>> /\ (pc' = pc \/ pc' = "panic")
    BY <1>11 DEF LinkLost
  <2>2. QED
    BY <1>3, <1>4, <2>1 DEF Idle
<1>12. CASE UNCHANGED vars
  BY <1>4, <1>12 DEF vars, callVars
<1>13. QED
  BY <1>1, <1>5, <1>6, <1>7, <1>8, <1>9, <1>10, <1>11, <1>12 DEF Next, Step

\* A call ends once, reported a success after the broker acknowledged its message or
\* given up, and the broker acknowledges nothing for a call that has ended.
THEOREM CallIsATargetLife == Spec => ImplementsLife
<1>1. Init => Unanswered /\ Life!Init
  BY BoundAssumption DEF Init, Unanswered, Idle, Life!Init, Life!Target, Lives, LifeOf, Got, Calls
<1>2. Spec => []Unanswered
  BY <1>1, UnansweredStep, TypeCorrect, OwnInvariant, PTL DEF Spec
<1>3. QED
  BY <1>1, <1>2, LifeStep, TypeCorrect, OwnInvariant, PTL DEF Spec, ImplementsLife, Life!Spec
=============================================================================
