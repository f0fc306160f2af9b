---------------------------- MODULE AmqpForwarder ----------------------------
(***************************************************************************)
(* The RabbitMQ forwarder of one worker process: its cached session, the   *)
(* publish with its confirm channel, and beside it the client library      *)
(* (github.com/rabbitmq/amqp091-go), whose reader goroutine hands each     *)
(* confirmation of the broker to every listener that was registered on the *)
(* channel, in turn, and closes the listeners when the channel goes.       *)
(*                                                                         *)
(* A worker forwards one attempt at a time, so there is one caller; calls  *)
(* are numbered and a confirm channel has the number of its call.  A Go    *)
(* channel that is closed twice, or sent to when closed, is a panic, and   *)
(* nothing in a worker recovers from one.                                  *)
(***************************************************************************)
EXTENDS Naturals, FiniteSets

CONSTANTS
    MaxCalls,    \* bound on the calls of Forward
    MaxFaults    \* bound on what broker and network do to the session

Calls == 1..MaxCalls

ASSUME BoundAssumption == MaxCalls \in Nat /\ MaxFaults \in Nat

VARIABLES
    pc,         \* where the call is; "panic" when the process is gone
    call,       \* number of the current call, 0 before the first
    link,       \* f.Session: none, up, a write failed, channel closed, connection closed
    listeners,  \* confirm channels registered on the session's channel
    buffer,     \* what a confirm channel of capacity 1 holds
    closed,     \* confirm channels that are closed
    reader,     \* the library's reader: running, or stuck in a send
    inflight,   \* calls whose message the broker has not confirmed
    result,     \* what Forward returned
    acked,      \* history: calls whose message the broker acknowledged
    faults      \* number of faults so far

callVars   == <<pc, call, result>>
clientVars == <<listeners, buffer, closed, reader, inflight>>
vars == <<callVars, link, clientVars, acked, faults>>

Fault == faults < MaxFaults /\ faults' = faults + 1

Goto(p) == pc' = p /\ UNCHANGED <<call, result>>

Return(v) ==
    /\ pc' = "idle"
    /\ result' = [result EXCEPT ![call] = v]
    /\ UNCHANGED call

-----------------------------------------------------------------------------
Init ==
    /\ pc = "idle"
    /\ call = 0
    /\ link = "none"
    /\ listeners = {}
    /\ buffer = [c \in Calls |-> "empty"]
    /\ closed = {}
    /\ reader = "running"
    /\ inflight = {}
    /\ result = [c \in Calls |-> "none"]
    /\ acked = {}
    /\ faults = 0

\* Forward takes the mutex and asks for the session.
Forward ==
    /\ pc = "idle"
    /\ call < MaxCalls
    /\ call' = call + 1
    /\ pc' = "session"
    /\ UNCHANGED <<result, link, clientVars, acked, faults>>

\* getSession: the session is used when its connection is open, whatever has become
\* of its channel.
UseSession ==
    /\ pc = "session"
    /\ link \in {"up", "writeFailed", "channelClosed"}
    /\ Goto("confirm")
    /\ UNCHANGED <<link, clientVars, acked, faults>>

\* createSession: a new connection and channel, which become the session before the
\* exchange is declared.
CreateSession ==
    /\ pc = "session"
    /\ link \in {"none", "connClosed"}
    /\ link' = "up"
    /\ Goto("declare")
    /\ UNCHANGED <<clientVars, acked, faults>>

\* Dial or Channel returns an error; the session stays what it was.
CreateSessionFails ==
    /\ pc = "session"
    /\ link \in {"none", "connClosed"}
    /\ Fault
    /\ Return("error")
    /\ UNCHANGED <<link, clientVars, acked>>

\* declareExchange: with the connection gone in the meantime it starts again.
DeclareExchange ==
    /\ pc = "declare"
    /\ IF link = "connClosed" THEN Goto("session") ELSE link = "up" /\ Goto("confirm")
    /\ UNCHANGED <<link, clientVars, acked, faults>>

\* The broker refuses the exchange and closes the channel, or has closed it before.
\* The error returns past disposeSession, which is only for errors of publish.
DeclareExchangeFails ==
    /\ pc = "declare"
    /\ \/ link = "up" /\ Fault
       \/ link = "channelClosed" /\ UNCHANGED faults
    /\ link' = "channelClosed"
    /\ Return("error")
    /\ UNCHANGED <<clientVars, acked>>

\* Mutant: a channel in confirm mode is taken to have the listener.
ConfirmWithoutNotify ==
    /\ pc = "confirm"
    /\ link = "up"
    /\ listeners' = IF listeners = {} THEN {call} ELSE listeners
    /\ Goto("publish")
    /\ UNCHANGED <<link, buffer, closed, reader, inflight, acked, faults>>

\* Confirm and NotifyPublish: one more listener on the channel, for good.
ConfirmSelect ==
    /\ pc = "confirm"
    /\ link = "up"
    /\ listeners' = listeners \cup {call}
    /\ Goto("publish")
    /\ UNCHANGED <<link, buffer, closed, reader, inflight, acked, faults>>

\* Mutant: the confirm channel is registered before the error is looked at.
ConfirmFailsRegistered ==
    /\ pc = "confirm"
    /\ link # "up"
    /\ closed' = closed \cup {call}
    /\ listeners' = listeners \cup {call}
    /\ Goto("publish")
    /\ UNCHANGED <<link, buffer, reader, inflight, acked, faults>>

\* Confirm returns an error: the confirm channel is closed "to simulate by always
\* nacking", and publish goes on.
ConfirmFails ==
    /\ pc = "confirm"
    /\ link # "up"
    /\ closed' = closed \cup {call}
    /\ Goto("publish")
    /\ UNCHANGED <<link, listeners, buffer, reader, inflight, acked, faults>>

Publish ==
    /\ pc = "publish"
    /\ link = "up"
    /\ inflight' = inflight \cup {call}
    /\ Goto("wait")
    /\ UNCHANGED <<link, listeners, buffer, closed, reader, acked, faults>>

\* PublishWithContext returns an error: the channel or the connection is closed, or
\* the write fails and the library is yet to notice.  The forwarder closes the confirm
\* channel, whether it is closed already, by ConfirmFails or by the library, or still
\* registered.  Only an error of the library's own kind disposes of the session.
PublishFails ==
    /\ pc = "publish"
    /\ \/ link # "up" /\ UNCHANGED faults
       \/ link = "up" /\ Fault
    /\ IF call \in closed
         THEN Goto("panic") /\ UNCHANGED <<link, closed>>
         ELSE /\ Return("error")
              /\ closed' = closed \cup {call}
              /\ link' = IF link = "up" THEN "writeFailed" ELSE "none"
    /\ UNCHANGED <<listeners, buffer, reader, inflight, acked>>

\* Mutant: the result is the confirmation as it came.
ReceiveRaw ==
    /\ pc = "wait"
    /\ buffer[call] # "empty"
    /\ Return(buffer[call])
    /\ UNCHANGED <<link, clientVars, acked, faults>>

\* Mutant: the call may give up before its confirmation comes.
ReceiveTimesOut ==
    /\ pc = "wait"
    /\ Return("error")
    /\ UNCHANGED <<link, clientVars, acked, faults>>

\* Mutant: only a confirmation ends the wait.
ReceiveUntilConfirmed ==
    /\ pc = "wait"
    /\ buffer[call] # "empty"
    /\ buffer' = [buffer EXCEPT ![call] = "empty"]
    /\ Return(IF buffer[call] = "ack" THEN "ok" ELSE "error")
    /\ UNCHANGED <<link, listeners, closed, reader, inflight, acked, faults>>

\* The receive from confirm: no context and no timeout ends it.
Receive ==
    /\ pc = "wait"
    /\ \/ /\ buffer[call] # "empty"
          /\ buffer' = [buffer EXCEPT ![call] = "empty"]
          /\ Return(IF buffer[call] = "ack" THEN "ok" ELSE "error")
       \/ /\ buffer[call] = "empty"
          /\ call \in closed
          /\ Return("error")
          /\ UNCHANGED buffer
    /\ UNCHANGED <<link, listeners, closed, reader, inflight, acked, faults>>

\* The worker is started again.
Restart ==
    /\ pc = "panic"
    /\ Goto("idle")
    /\ link' = "none"
    /\ listeners' = {}
    /\ inflight' = {}
    /\ reader' = "running"
    /\ UNCHANGED <<buffer, closed, acked, faults>>

-----------------------------------------------------------------------------
(* The library and the broker *)

\* The broker's answer goes to the listeners in the order of their registration.
\* One that is full, since nobody reads it any more, holds up the reader.
Confirmation(v) ==
    /\ link = "up"
    /\ reader = "running"
    /\ pc # "panic"
    /\ \E c \in inflight :
          /\ inflight' = inflight \ {c}
          /\ acked' = IF v = "ack" THEN acked \cup {c} ELSE acked
    /\ LET full   == {l \in listeners : buffer[l] # "empty"}
           served == {l \in listeners : \A k \in full : l < k}
       IN  /\ buffer' = [l \in Calls |-> IF l \in served THEN v ELSE buffer[l]]
           /\ reader' = IF full = {} THEN "running" ELSE "stuck"
    /\ UNCHANGED <<callVars, link, listeners, closed, faults>>

\* The broker closes the channel or the connection, the network does, or the library
\* gives up a connection it could not write to.  It closes the listeners; one that is
\* closed already is a panic.
LinkLost ==
    /\ reader = "running"
    /\ pc # "panic"
    /\ \/ link = "up" /\ link' \in {"channelClosed", "connClosed"} /\ Fault
       \/ link = "channelClosed" /\ link' = "connClosed" /\ Fault
       \/ link = "writeFailed" /\ link' = "connClosed" /\ UNCHANGED faults
    /\ pc' = IF listeners \cap closed = {} THEN pc ELSE "panic"
    /\ closed' = closed \cup listeners
    /\ listeners' = {}
    /\ inflight' = {}
    /\ UNCHANGED <<call, result, buffer, reader, acked>>

-----------------------------------------------------------------------------
Step ==
    \/ UseSession \/ CreateSession \/ DeclareExchange \/ ConfirmSelect \/ ConfirmFails
    \/ Publish \/ PublishFails \/ Receive

Next ==
    \/ Forward \/ Step \/ Restart
    \/ CreateSessionFails \/ DeclareExchangeFails \/ LinkLost
    \/ \E v \in {"ack", "nack"} : Confirmation(v)

Spec == Init /\ [][Next]_vars

\* The caller runs when it can and the broker answers what it was sent, as long as
\* the library's reader reads.
FairSpec ==
    /\ Spec
    /\ WF_vars(Step \/ DeclareExchangeFails)
    /\ WF_vars(\E v \in {"ack", "nack"} : Confirmation(v))
-----------------------------------------------------------------------------
(* What the forwarder promises *)

\* Every variable keeps its type.
TypeOK ==
    /\ pc \in {"idle", "session", "declare", "confirm", "publish", "wait", "panic"}
    /\ call \in 0..MaxCalls
    /\ pc \notin {"idle", "panic"} => call \in Calls
    /\ link \in {"none", "up", "writeFailed", "channelClosed", "connClosed"}
    /\ listeners \subseteq Calls
    /\ buffer \in [Calls -> {"empty", "ack", "nack"}]
    /\ closed \subseteq Calls
    /\ reader \in {"running", "stuck"}
    /\ inflight \subseteq Calls
    /\ result \in [Calls -> {"none", "ok", "error"}]
    /\ acked \subseteq Calls
    /\ faults \in 0..MaxFaults

\* A delivery that is reported a success was acknowledged by the broker: no call
\* takes the confirmation of another for its own, although the listeners of earlier
\* calls stay registered and get every later confirmation too.
OkMeansAcked == \A c \in Calls : result[c] = "ok" => c \in acked

\* The forwarder closes confirm channels that it shares with the library, which panics
\* when it sends to a closed one or closes it again.  It never does so while the link is
\* good or has been lost in good order, only after a write that failed.
ListenersAreOpen == link # "writeFailed" => listeners \cap closed = {}

\* The reader gets stuck at the third confirmation on a channel and not before: the
\* buffers of earlier listeners take one confirmation each.
StuckAtTheThird == reader = "stuck" => Cardinality(listeners) >= 3

\* The answer that would end the wait of the current call is there or on its way.
AnswerComes ==
    \/ buffer[call] # "empty"
    \/ call \in closed
    \/ link = "up" /\ call \in inflight /\ call \in listeners

\* A call that waits has something to wait for, through reconnects, failed writes and
\* the confirmations that earlier listeners get; and with the reader stuck it has
\* nothing any more, neither a confirmation nor the closing of its channel.
WaitsInVainIfStuck == pc = "wait" => (AnswerComes <=> reader = "running")

\* The wait for a confirmation has no timeout, and still a call ends, whatever becomes
\* of the session meanwhile, unless the library's reader is stuck; then it waits with
\* the mutex held until the process is restarted.
ReturnsUnlessStuck == pc = "session" ~> pc \in {"idle", "panic"} \/ reader = "stuck"

-----------------------------------------------------------------------------
(* A call's life *)

\* Where a call is in its life: one that a panic cut off is lost.
LifeOf(c) == IF c > call THEN "none"
             ELSE IF result[c] = "ok" THEN "delivered"
             ELSE IF c = call /\ pc \notin {"idle", "panic"} THEN "pending" ELSE "lost"

Lives == [p \in Calls \X {"broker"} |-> LifeOf(p[1])]
Got   == {<<c, "broker">> : c \in acked}

Life == INSTANCE TargetLife WITH
    Webhooks   <- Calls,
    Forwarders <- {"broker"},
    Services   <- {"service"},
    Config     <- [s \in {"service"} |-> {"broker"}],
    life       <- Lives,
    got        <- Got

\* A call lives as Delivery takes a target to live while a worker delivers it: it ends
\* once, and the broker acknowledges its message before that and not after, through
\* sessions that are lost, replaced and shared with the listeners of earlier calls.
ImplementsLife == Life!Spec
=============================================================================
