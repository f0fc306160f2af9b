--------------------------- MODULE MCIngestClaims ---------------------------
(* What a comment of the repository says of the listener, checked by a run  *)
(* of its own, which finds a behaviour of Ingest that does otherwise.       *)
EXTENDS MCIngest

\* handler.go:142 "Create webhook targets for each forwarder immediately": when
\* nothing fails, a webhook that was inserted gets its targets and is accepted.
TargetsAreCreated ==
    \A r \in Requests : pc[r] = "targets" ~> pc[r] = "ok"
=============================================================================
