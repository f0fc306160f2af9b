----------------------------- MODULE WebhookLog -----------------------------
(***************************************************************************)
(* What the listener promises to those who send webhooks, and to the       *)
(* workers who read the tables.                                            *)
(*                                                                         *)
(* A webhook appears in the log in one step, with an attempt for each      *)
(* forwarder of a service it was sent to, and never changes.  A request is *)
(* answered once.  If the answer is "ok" the webhook is in the log; if it  *)
(* is "error" it may be there or not.                                      *)
(***************************************************************************)
CONSTANTS
    Requests,
    Config,     \* the forwarders of every service
    Addressed   \* the services a request may have been sent to

VARIABLES
    log,     \* the webhooks that were accepted
    answer   \* what the sender was told

Entry(r, s) == [request |-> r, forwarders |-> Config[s]]

Logged(r) == \E e \in log : e.request = r

TypeOK ==
    /\ log \subseteq UNION {{Entry(r, s) : s \in Addressed[r]} : r \in Requests}
    /\ answer \in [Requests -> {"none", "ok", "error"}]

Init == log = {} /\ answer = [r \in Requests |-> "none"]

\* The webhook is accepted; the sender may at once be told an error, when the
\* commit was applied and its confirmation lost.
Accept(r) ==
    /\ ~Logged(r)
    /\ answer[r] = "none"
    /\ \E s \in Addressed[r] : log' = log \cup {Entry(r, s)}
    /\ answer' \in {answer, [answer EXCEPT ![r] = "error"]}

AnswerOk(r) ==
    /\ answer[r] = "none"
    /\ Logged(r)
    /\ answer' = [answer EXCEPT ![r] = "ok"]
    /\ UNCHANGED log

\* Several requests at once when the webserver dies.
AnswerError ==
    /\ \E R \in SUBSET {r \in Requests : answer[r] = "none"} :
          answer' = [r \in Requests |-> IF r \in R THEN "error" ELSE answer[r]]
    /\ UNCHANGED log

Next == (\E r \in Requests : Accept(r) \/ AnswerOk(r)) \/ AnswerError

Spec == Init /\ [][Next]_<<log, answer>>
=============================================================================
