----------------------------- MODULE MCForwarding -----------------------------
(* An instance of Forwarding for TLC: up to two services, one of them with an *)
(* empty key, and names of which one begins with another.                     *)
EXTENDS Forwarding, TLC

empty == <<"">>
a  == <<"a">>
ab == <<"a", "b">>
x  == <<"x">>

MCPaths == {empty, a, ab, x}

MCHeaders == {"X-Auth", "x-auth", "Laile-Idempotency-Key", "laile-idempotency-key"}
MCCanonical == [h \in MCHeaders |->
    IF h \in {"X-Auth", "x-auth"} THEN "X-Auth" ELSE "Laile-Idempotency-Key"]

Least == [type |-> "http", addressed |-> TRUE, retry_count |-> 0,
          retry_delay |-> Blank, exchange_type |-> Blank, headers |-> {}]

Broker == [Least EXCEPT !.type = "amqp"]

PartialFunctions(S, T) == UNION {[D -> T] : D \in SUBSET S}

\* Up to two services with the paths they may have, and the forwarders' names.
Named == PartialFunctions({empty, a},
    [path : {Blank, a, x}, forwarders : PartialFunctions({a, ab}, {Broker, Least})])

\* One service, with a path that has a dash or not, and a forwarder with headers in one
\* spelling or the other, or with settings of which some are refused.
Varied == PartialFunctions({empty},
    [path : {x, ab},
     forwarders : PartialFunctions({a},
         {[Least EXCEPT !.headers = hs] : hs \in SUBSET MCHeaders} \cup
         {[f EXCEPT !.retry_count = count, !.retry_delay = delay, !.exchange_type = type] :
             f \in {Least, Broker}, count \in {-1, 0, 1},
             delay \in {Blank, "fixed", "other"}, type \in {Blank, "fanout", "other"}} \cup
         {[Least EXCEPT !.addressed = FALSE], [Least EXCEPT !.type = "other"]})])

LeftOut == [ticker_enabled |-> Blank, ticker_interval |-> Blank,
            listener_port |-> Blank, admin_port |-> Blank]

\* Settings at the limits of what is allowed, and beyond.
Settings == [ticker_enabled : {Blank, FALSE, TRUE}, ticker_interval : {Blank, 0, 1},
             listener_port : {Blank, 0, 1}, admin_port : {Blank, 65535, 65536}]

MCFiles ==
    {[settings |-> LeftOut, services |-> services] : services \in Named \cup Varied} \cup
    {[settings |-> settings, services |-> <<>>] : settings \in Settings}
=============================================================================
