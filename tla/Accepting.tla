------------------------------ MODULE Accepting ------------------------------
(***************************************************************************)
(* The listener as Delivery sees it.                                       *)
(*                                                                         *)
(* Delivery lets a webserver store a webhook and its first attempts in one *)
(* step and send the notification in another.  Ingest does it statement by *)
(* statement, with a pool, rollbacks and crashes.  Here the tables of the  *)
(* one are read from the tables of the other: to the workers, the requests *)
(* that Ingest handles are the webservers of Delivery.                     *)
(***************************************************************************)
EXTENDS Ingest

AllForwarders == UNION {Config[s] : s \in Services}

\* The committed webhook of a request.
Visible(r) == \E x \in db : x.request = r
RowOf(r)   == CHOOSE x \in db : x.request = r

\* What a worker finds in the tables: a webhook's delivery_status, and that of the
\* first attempt of each of its targets.
WebhookStatus == [r \in Requests |-> IF Visible(r) THEN RowOf(r).status ELSE "absent"]

AttemptStatus ==
    [a \in Requests \X AllForwarders \X (1..1) |->
        IF Visible(a[1]) /\ a[2] \in RowOf(a[1]).targets THEN "scheduled" ELSE "absent"]

\* Webhooks that nobody was told of.  A notification that was lost is one that is not
\* sent, so a crash loses none: it never gets round to sending them.
Unnotified == {r \in Requests : Visible(r) /\ RowOf(r).id \notin sent}

\* The service a webhook was accepted for.
Received == {<<r, service[r]>> : r \in {q \in Requests : Visible(q)}}

\* Delivery without workers, whose steps the listener has no part in.
Webservers == INSTANCE Delivery WITH
    Webhooks      <- Requests,
    Forwarders    <- AllForwarders,
    Workers       <- {},
    Ticking       <- {},
    CrashProne    <- {},
    MaxFaults     <- 0,
    NoAttempt     <- NoService,
    webhook       <- WebhookStatus,
    attempts      <- AttemptStatus,
    due           <- {},
    unnotified    <- Unnotified,
    listeners     <- {},
    notifications <- [w \in {} |-> 0],
    pc            <- [w \in {} |-> "idle"],
    batch         <- [w \in {} |-> {}],
    cur           <- [w \in {} |-> NoService],
    received      <- Received,
    reached       <- {},
    abandoned     <- {},
    faults        <- 0

\* HandleEvent is what Delivery takes it for: for everyone who reads the tables or
\* listens, a webhook appears in one step with one open attempt for each forwarder of
\* its service, is notified after that step or never, and nothing is taken back,
\* whichever statement of whichever concurrent request fails.
ImplementsWebservers == Webservers!Spec
=============================================================================
