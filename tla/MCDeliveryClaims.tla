-------------------------- MODULE MCDeliveryClaims --------------------------
(* What the repository's documentation says of the delivery.  A run finds   *)
(* a behaviour of Delivery that does otherwise.                             *)
EXTENDS MCDelivery

\* config.md:34 "Each webhook service can have multiple forwarders that define where
\* the webhook payload should be sent": with no fault at all, a webhook accepted for
\* a service gets to each of its forwarders.
EveryWebhookForwarded ==
    \A h \in Webhooks, s \in Services : \A f \in Config[s] :
        <<h, s>> \in received ~> \E a \in reached : TargetOf(a) = <<h, f>>
=============================================================================
