----------------------------- MODULE TargetLife -----------------------------
(***************************************************************************)
(* What the workers promise for a target, seen from outside: the forwarder *)
(* of an accepted webhook.                                                 *)
(*                                                                         *)
(* A target is created with its webhook, together with those of the other  *)
(* forwarders of the service.  It is pending until it is delivered, which  *)
(* takes that its receiver has had the webhook, or lost.  Both are for     *)
(* ever: what is delivered or lost is not sent again.                      *)
(***************************************************************************)
CONSTANTS
    Webhooks,
    Forwarders,
    Services,
    Config      \* the forwarders of every service

VARIABLES
    life,    \* where each target is in its life
    got      \* the targets whose receiver has had the webhook

Target == Webhooks \X Forwarders

TypeOK ==
    /\ life \in [Target -> {"none", "pending", "delivered", "lost"}]
    /\ got \subseteq Target

Init ==
    /\ life = [t \in Target |-> "none"]
    /\ got = {}

\* Target t ends in a way that it does not leave.
End(t, way) ==
    /\ life[t] = "pending"
    /\ life' = [life EXCEPT ![t] = way]

\* Webhook h is accepted for service s.
Accept(h, s) ==
    /\ \A f \in Forwarders : life[<<h, f>>] = "none"
    /\ life' = [t \in Target |-> IF t \in {h} \X Config[s] THEN "pending" ELSE life[t]]
    /\ UNCHANGED got

\* The receiver gets the webhook, perhaps not for the first time.
Receive(t) ==
    /\ life[t] = "pending"
    /\ got' = got \cup {t}
    /\ UNCHANGED life

Deliver(t) ==
    /\ t \in got
    /\ End(t, "delivered")
    /\ UNCHANGED got

Lose(t) ==
    /\ End(t, "lost")
    /\ UNCHANGED got

Next ==
    \/ \E h \in Webhooks, s \in Services : Accept(h, s)
    \/ \E t \in Target : Receive(t) \/ Deliver(t) \/ Lose(t)

Spec == Init /\ [][Next]_<<life, got>>
=============================================================================
