------------------------------ MODULE Forwarding ------------------------------
(***************************************************************************)
(* From the configuration file to what a receiver gets: loadConfig, the    *)
(* service of a request's path, the forwarder of a delivery, which for a   *)
(* broker is kept in a map, and the headers of the request it sends.       *)
(*                                                                         *)
(* A name is the sequence of what its dashes separate, so that joining two *)
(* with a dash is concatenation.  Go iterates over its maps in any order:  *)
(* what depends on it is a choice.  A header is represented by where its   *)
(* value comes from.                                                       *)
(***************************************************************************)
EXTENDS Integers, Sequences, FiniteSets

CONSTANTS
    Files,          \* configuration files that a process may be started with
    Parts,          \* what a name's dashes separate
    Paths,          \* what can follow /listener/, and path settings
    HeaderNames,    \* header names, in any spelling
    Canonical,      \* http.CanonicalHeaderKey
    KeyHeader,      \* laile-idempotency-key, as the code spells it
    Blank           \* a setting left out

ASSUME HeadersAssumption ==
    /\ Canonical \in [HeaderNames -> HeaderNames]
    /\ \A h \in HeaderNames : Canonical[Canonical[h]] = Canonical[h]
    /\ KeyHeader \in HeaderNames
ASSUME FilesAssumption ==
    \A file \in Files : \A s \in DOMAIN file.services :
        \A n \in DOMAIN file.services[s].forwarders :
            file.services[s].forwarders[n].headers \subseteq HeaderNames

ASSUME BlankAssumption ==
    Blank \notin {"exponential", "fixed", "direct", "fanout", "topic", "headers"}

ASSUME NamesAssumption ==
    /\ "" \in Parts
    /\ \A file \in Files : \A s \in DOMAIN file.services :
          \A n \in DOMAIN file.services[s].forwarders : n \in Seq(Parts)

VARIABLES
    file,           \* webhook_config.toml
    pc,             \* loading, serving, or stopped by a panic
    config,         \* the Config that was loaded
    connections,    \* globalConnections: whom a key's RMQForwarder was made for
    routed,         \* history: the services a path was answered with
    sent            \* history: the latest delivery that left the process

vars == <<file, pc, config, connections, routed, sent>>

CanonicalNames == {Canonical[h] : h \in HeaderNames}
NotLoaded == [settings |-> <<>>, services |-> <<>>]
NothingSent == [to |-> <<>>, by |-> <<>>, given |-> {}, headers |-> <<>>]

-----------------------------------------------------------------------------
(* loadConfig *)

\* Mutant: the forwarders of one service share a connection.
ServiceNameOnly(s, n) == s

generateUniqueName(s, n) == s \o n

OrElse(value, default) == IF value = Blank THEN default ELSE value

\* The settings hold their defaults before the file is decoded: only what is left out
\* keeps them, and a zero does not.
SettingsWithDefaults(raw) ==
    [ticker_enabled |-> OrElse(raw.ticker_enabled, TRUE),
     ticker_interval |-> OrElse(raw.ticker_interval, 5),
     listener_port |-> OrElse(raw.listener_port, 8080),
     admin_port |-> OrElse(raw.admin_port, 8081)]

\* A forwarder gets its defaults afterwards, for what is left out, zero or false.
WithDefaults(s, n, f) ==
    [type |-> f.type, addressed |-> f.addressed, headers |-> f.headers,
     hash |-> generateUniqueName(s, n),
     retry_count |-> IF f.retry_count = 0 THEN 3 ELSE f.retry_count,
     retry_delay |-> OrElse(f.retry_delay, "exponential"),
     exchange_type |-> IF f.type = "amqp" THEN OrElse(f.exchange_type, "direct")
                       ELSE f.exchange_type]

Loaded(raw) ==
    [settings |-> SettingsWithDefaults(raw.settings),
     services |-> [s \in DOMAIN raw.services |->
        [path |-> raw.services[s].path,
         forwarders |-> [n \in DOMAIN raw.services[s].forwarders |->
            WithDefaults(s, n, raw.services[s].forwarders[n])]]]]

Ports == 1..65535

\* The validate tags.  The interval must be 1 at least although the ticker be disabled.
ValidSettings(c) ==
    /\ c.ticker_interval \in Nat \ {0}
    /\ c.listener_port \in Ports
    /\ c.admin_port \in Ports

ValidForwarder(f) ==
    /\ f.type \in {"http", "amqp"}
    /\ f.addressed
    /\ f.retry_count >= 0
    /\ f.retry_delay \in {"exponential", "fixed"}
    /\ f.type = "amqp" => f.exchange_type # Blank
    /\ f.exchange_type \in {Blank, "direct", "fanout", "topic", "headers"}

\* A path is alphanumeric, and has no dash.
Valid(c) ==
    /\ ValidSettings(c.settings)
    /\ \A s \in DOMAIN c.services :
          /\ c.services[s].path # Blank => Len(c.services[s].path) = 1
          /\ \A n \in DOMAIN c.services[s].forwarders :
                ValidForwarder(c.services[s].forwarders[n])

-----------------------------------------------------------------------------
(* GetWebhookServiceByPath *)

HasPath(s, path) == config.services[s].path = path

\* Mutant: names and paths are looked up together.
ServiceByNameOrPath(path) == {s \in DOMAIN config.services : s = path \/ HasPath(s, path)}

\* The services it may answer with: a name comes first.
ServiceByPath(path) ==
    IF path \in DOMAIN config.services
      THEN {path}
      ELSE {s \in DOMAIN config.services : HasPath(s, path)}

-----------------------------------------------------------------------------
(* HTTPForwarder.Forward *)

\* The map of headers, by their spelling: the webhook's names are canonical, the key and
\* the configured names are as they were written.
MergedHeaders(given, configured) ==
    [h \in given \cup {KeyHeader} \cup configured |->
        IF h \in configured THEN "config" ELSE IF h = KeyHeader THEN "key" ELSE "webhook"]

\* req.Header.Add makes each name canonical and keeps what is there.
RequestHeaders(merged) ==
    [h \in CanonicalNames |-> {merged[n] : n \in {m \in DOMAIN merged : Canonical[m] = h}}]

-----------------------------------------------------------------------------
Init ==
    /\ file \in Files
    /\ pc = "loading"
    /\ config = NotLoaded
    /\ connections = <<>>
    /\ routed = [path \in Paths |-> {}]
    /\ sent = NothingSent

\* Mutant: the settings are validated before they get their defaults.
LoadValidatesFirst ==
    /\ pc = "loading"
    /\ config' = Loaded(file)
    /\ pc' = IF Valid(file) THEN "serving" ELSE "stopped"
    /\ UNCHANGED <<file, connections, routed, sent>>

\* A process starts, and panics when its configuration is not valid.
Load ==
    /\ pc = "loading"
    /\ config' = Loaded(file)
    /\ pc' = IF Valid(config') THEN "serving" ELSE "stopped"
    /\ UNCHANGED <<file, connections, routed, sent>>

Route(path) ==
    /\ pc = "serving"
    /\ \E s \in ServiceByPath(path) : routed' = [routed EXCEPT ![path] = @ \cup {s}]
    /\ UNCHANGED <<file, pc, config, connections, sent>>

\* HandleEvent stores every webhook without a WebhookServiceID, so that deliveries go to
\* the forwarders of the service whose key is empty, if there is one.
StoredServiceID == <<"">>
Forwarders(c) == c.services[StoredServiceID].forwarders

\* A broker's forwarder is made once for each key and then found in the map.
NewForwarder(n) ==
    LET key == Forwarders(config)[n].hash
    IN  connections' = [h \in DOMAIN connections \cup {key} |->
                           IF h \in DOMAIN connections THEN connections[h] ELSE n]

\* Mutant: every forwarder is kept in the map.
CachedHTTP(n, given) ==
    LET f == Forwarders(config)[n]
    IN  /\ f.type = "http"
        /\ NewForwarder(n)
        /\ sent' = [to |-> n, by |-> connections'[f.hash], given |-> given,
                    headers |-> RequestHeaders(MergedHeaders(given, f.headers))]

\* A request with the headers of a webhook.  One that fails leaves nothing here.
DeliverHTTP(n, given) ==
    LET f == Forwarders(config)[n]
    IN  /\ f.type = "http"
        /\ sent' = [to |-> n, by |-> n, given |-> given,
                    headers |-> RequestHeaders(MergedHeaders(given, f.headers))]
        /\ UNCHANGED connections

\* A message to a broker.  A body that is no JSON cannot be marshalled as a RawMessage:
\* the forwarder is in the map, and nothing is sent, as when the publish fails.
DeliverAMQP(n, isJSON) ==
    LET f == Forwarders(config)[n]
    IN  /\ f.type = "amqp"
        /\ NewForwarder(n)
        /\ sent' = IF isJSON
                     THEN [NothingSent EXCEPT !.to = n, !.by = connections'[f.hash]]
                     ELSE sent

\* processEvents finds the forwarder and deliverEvent delivers.
Deliver ==
    /\ pc = "serving"
    /\ StoredServiceID \in DOMAIN config.services
    /\ \E n \in DOMAIN Forwarders(config) :
          \/ \E given \in SUBSET CanonicalNames : DeliverHTTP(n, given)
          \/ \E isJSON \in BOOLEAN : DeliverAMQP(n, isJSON)
    /\ UNCHANGED <<file, pc, config, routed>>

\* The process is started again, with the same file.
Restart ==
    /\ pc # "loading"
    /\ pc' = "loading"
    /\ config' = NotLoaded
    /\ connections' = <<>>
    /\ UNCHANGED <<file, routed, sent>>

Next == Load \/ (\E path \in Paths : Route(path)) \/ Deliver \/ Restart

Spec == Init /\ [][Next]_vars
-----------------------------------------------------------------------------
(* What the configuration means *)

\* Every variable keeps its type, and the map's forwarders are configured ones, under
\* their own keys.
TypeOK ==
    /\ file \in Files
    /\ pc \in {"loading", "serving", "stopped"}
    /\ config \in {NotLoaded, Loaded(file)}
    /\ pc # "serving" => connections = <<>>
    /\ \A h \in DOMAIN connections :
          /\ StoredServiceID \in DOMAIN config.services
          /\ connections[h] \in DOMAIN Forwarders(config)
          /\ Forwarders(config)[connections[h]].hash = h
          /\ Forwarders(config)[connections[h]].type = "amqp"
    /\ \A path \in Paths : routed[path] \subseteq DOMAIN file.services

\* Only what is required must be given: a file that leaves out every setting with a
\* default is accepted, and an illegal value is noticed although defaults are set first.
Admissible ==
    /\ file.settings.ticker_interval \in {Blank} \cup (Nat \ {0})
    /\ file.settings.listener_port \in {Blank} \cup Ports
    /\ file.settings.admin_port \in {Blank} \cup Ports
    /\ \A s \in DOMAIN file.services :
          /\ file.services[s].path # Blank => Len(file.services[s].path) = 1
          /\ \A n \in DOMAIN file.services[s].forwarders :
                LET f == file.services[s].forwarders[n]
                IN  /\ f.type \in {"http", "amqp"}
                    /\ f.addressed
                    /\ f.retry_count >= 0
                    /\ f.retry_delay \in {Blank, "exponential", "fixed"}
                    /\ f.exchange_type \in {Blank, "direct", "fanout", "topic", "headers"}
OptionalIsOptional == pc # "loading" => (pc = "serving" <=> Admissible)

\* All requests to a path, after any restart, are answered for the same service, unless
\* several services have this path: a name that is another's path is no ambiguity.
RoutesAgree ==
    \A path \in Paths : \A s, t \in routed[path] :
        s # t => /\ path \notin DOMAIN file.services
                 /\ file.services[s].path = path
                 /\ file.services[t].path = path

\* A delivery is made by its own forwarder, and never over the connection that another
\* has left in the map: their keys differ, whatever dashes their names have.
OwnForwarder == sent.by = sent.to
=============================================================================
