------------------------------ MODULE MCIngest ------------------------------
(* Instances of Ingest for TLC. *)
EXTENDS Accepting

CONSTANTS r1, r2, r3, r4

\* A service with two forwarders, found by its name, and one with one, by its path.
TwoServices == {"github", "stripe"}
TwoConfig   == [s \in TwoServices |-> IF s = "github" THEN {"echo", "queue"} ELSE {"echo"}]
TwoPaths    == [s \in TwoServices |-> IF s = "github" THEN "" ELSE "payments"]

\* Two requests for the one, one for the other, and one for neither.
TwoRequestPaths == [r \in Requests |->
    IF r \in {r1, r4} THEN "github" ELSE IF r = r2 THEN "payments" ELSE "unknown"]
=============================================================================
