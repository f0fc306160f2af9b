----------------------------- MODULE MCDelivery -----------------------------
(* Instances of Delivery for TLC. *)
EXTENDS Delivery, TLC

CONSTANTS echo, queue

\* Two forwarders on the service without a name.
RootServices == {""}
RootConfig   == [s \in RootServices |-> {echo, queue}]

\* A single forwarder on the service without a name.
EchoConfig == [s \in RootServices |-> {echo}]

\* A service with a name as well, with a forwarder the other does not have.
MixedServices == {"", "github"}
MixedConfig   == [s \in MixedServices |-> IF s = "" THEN {echo} ELSE {echo, queue}]

\* The shape of the repository's webhook_config.toml.
NamedServices == {"github"}
NamedConfig   == [s \in NamedServices |-> {echo}]

Interchangeable == Permutations(Workers)
=============================================================================
