-------------------------- MODULE MCAmqpForwarder --------------------------
(* What a comment of rabbitmq.go says of the forwarder; a run of its own    *)
(* finds a behaviour that does otherwise.                                   *)
EXTENDS AmqpForwarder

\* rabbitmq.go:80 "Single attempt to publish with proper error handling": an error of
\* the client library comes back as an error.
ErrorsAreReturned == pc # "panic"
=============================================================================
