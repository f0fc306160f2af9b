--------------------------- MODULE ForwardingProofs ---------------------------
(* What Forwarding.tla promises, for every set of configuration files, paths  *)
(* and headers.  The process is restarted with the same file, so every fact   *)
(* about what was answered or sent is stated of the file, and a fact about    *)
(* the loaded configuration is carried to the file by LoadedKeeps.            *)
EXTENDS Forwarding, SequenceTheorems, TLAPS

\* What loadConfig leaves of a file: its services, paths, forwarders, types and headers.
LEMMA LoadedKeeps ==
    ASSUME NEW raw
    PROVE  /\ DOMAIN Loaded(raw).services = DOMAIN raw.services
           /\ \A s \in DOMAIN raw.services :
                 /\ Loaded(raw).services[s].path = raw.services[s].path
                 /\ DOMAIN Loaded(raw).services[s].forwarders = DOMAIN raw.services[s].forwarders
                 /\ \A n \in DOMAIN raw.services[s].forwarders :
                       Loaded(raw).services[s].forwarders[n]
                           = WithDefaults(s, n, raw.services[s].forwarders[n])
BY DEF Loaded

\* And what a default leaves of a forwarder.
LEMMA DefaultsKeep ==
    ASSUME NEW s, NEW n, NEW f
    PROVE  /\ WithDefaults(s, n, f).type = f.type
           /\ WithDefaults(s, n, f).addressed = f.addressed
           /\ WithDefaults(s, n, f).headers = f.headers
           /\ WithDefaults(s, n, f).hash = s \o n
           /\ WithDefaults(s, n, f).retry_count = IF f.retry_count = 0 THEN 3 ELSE f.retry_count
           /\ WithDefaults(s, n, f).retry_delay = OrElse(f.retry_delay, "exponential")
           /\ WithDefaults(s, n, f).exchange_type =
                 IF f.type = "amqp" THEN OrElse(f.exchange_type, "direct") ELSE f.exchange_type
BY DEF WithDefaults, generateUniqueName

-----------------------------------------------------------------------------
(* The invariant *)

\* The services of the file that a path may be answered with.
Answers(path) ==
    IF path \in DOMAIN file.services THEN {path}
    ELSE {s \in DOMAIN file.services : file.services[s].path = path}

\* The process and its configuration: nothing is served without a loaded file.
Process ==
    /\ file \in Files
    /\ pc \in {"loading", "serving", "stopped"}
    /\ config \in {NotLoaded, Loaded(file)}
    /\ pc = "serving" => config = Loaded(file)
    /\ pc # "serving" => connections = <<>>

\* The map holds brokers' forwarders of the configuration, under their keys.
Kept == \A h \in DOMAIN connections :
    /\ StoredServiceID \in DOMAIN config.services
    /\ connections[h] \in DOMAIN Forwarders(config)
    /\ Forwarders(config)[connections[h]].hash = h
    /\ Forwarders(config)[connections[h]].type = "amqp"

Answered == routed \in [Paths -> SUBSET DOMAIN file.services]
         /\ \A path \in Paths : routed[path] \subseteq Answers(path)

IInv == Process /\ Kept /\ Answered /\ OwnForwarder /\ OptionalIsOptional

LEMMA Initial == Init => IInv
<1> SUFFICES ASSUME Init PROVE IInv
    OBVIOUS
<1>1. Process
    BY DEF Init, Process
<1>2. Kept
    BY DEF Init, Kept
<1>3. Answered
    BY DEF Init, Answered
<1>4. OwnForwarder
    BY DEF Init, NothingSent, OwnForwarder
<1>5. OptionalIsOptional
    BY DEF Init, OptionalIsOptional
<1> QED
    BY <1>1, <1>2, <1>3, <1>4, <1>5 DEF IInv

-----------------------------------------------------------------------------
(* Loading *)

\* With the defaults in place, the validator refuses just what is not admissible.
LEMMA DefaultsAreValid == Valid(Loaded(file)) <=> Admissible
<1> DEFINE Raw(s, n) == file.services[s].forwarders[n]
           Made(s, n) == Loaded(file).services[s].forwarders[n]
           Fine(f) == /\ f.type \in {"http", "amqp"}
                      /\ f.addressed
                      /\ f.retry_count >= 0
                      /\ f.retry_delay \in {Blank, "exponential", "fixed"}
                      /\ f.exchange_type \in {Blank, "direct", "fanout", "topic", "headers"}
<1>0. ValidSettings(Loaded(file).settings) <=>
          /\ file.settings.ticker_interval \in {Blank} \cup (Nat \ {0})
          /\ file.settings.listener_port \in {Blank} \cup Ports
          /\ file.settings.admin_port \in {Blank} \cup Ports
  <2>1. 5 \in Nat \ {0}
    OBVIOUS
  <2>2. 8080 \in Ports /\ 8081 \in Ports
    BY SMT DEF Ports
  <2> DEFINE raw == file.settings
             made == Loaded(file).settings
  <2>3. /\ made.ticker_interval = OrElse(raw.ticker_interval, 5)
        /\ made.listener_port = OrElse(raw.listener_port, 8080)
        /\ made.admin_port = OrElse(raw.admin_port, 8081)
    <3>1. made = SettingsWithDefaults(raw)
      BY DEF Loaded
    <3> QED
      BY <3>1 DEF SettingsWithDefaults
  <2> HIDE DEF raw, made
  <2>4. made.ticker_interval \in Nat \ {0} <=> raw.ticker_interval \in {Blank} \cup (Nat \ {0})
    BY <2>1, <2>3 DEF OrElse
  <2>5. made.listener_port \in Ports <=> raw.listener_port \in {Blank} \cup Ports
    BY <2>2, <2>3 DEF OrElse
  <2>6. made.admin_port \in Ports <=> raw.admin_port \in {Blank} \cup Ports
    BY <2>2, <2>3 DEF OrElse
  <2> QED
    BY <2>4, <2>5, <2>6 DEF ValidSettings, raw, made
<1>1. ASSUME NEW s \in DOMAIN file.services,
             NEW n \in DOMAIN file.services[s].forwarders
      PROVE  ValidForwarder(Made(s, n)) <=> Fine(Raw(s, n))
  <2>1. Made(s, n) = WithDefaults(s, n, Raw(s, n))
    BY LoadedKeeps
  <2> HIDE DEF Made, Raw
  <2>2. Made(s, n).retry_count >= 0 <=> Raw(s, n).retry_count >= 0
    BY <2>1, DefaultsKeep, 3 >= 0, 0 >= 0
  <2>3. Made(s, n).retry_delay \in {"exponential", "fixed"}
            <=> Raw(s, n).retry_delay \in {Blank, "exponential", "fixed"}
    BY <2>1, DefaultsKeep DEF OrElse
  <2>4. /\ Made(s, n).type = Raw(s, n).type
        /\ Made(s, n).addressed = Raw(s, n).addressed
        /\ Made(s, n).exchange_type =
               IF Raw(s, n).type = "amqp" THEN OrElse(Raw(s, n).exchange_type, "direct")
               ELSE Raw(s, n).exchange_type
    BY <2>1, DefaultsKeep
  <2>5. CASE Raw(s, n).type = "amqp"
    <3>1. /\ Made(s, n).exchange_type # Blank
          /\ Made(s, n).exchange_type \in {Blank, "direct", "fanout", "topic", "headers"}
                <=> Raw(s, n).exchange_type \in {Blank, "direct", "fanout", "topic", "headers"}
      BY <2>4, <2>5, BlankAssumption DEF OrElse
    <3> QED
      BY <2>2, <2>3, <2>4, <3>1 DEF ValidForwarder
  <2>6. CASE Raw(s, n).type # "amqp"
    BY <2>2, <2>3, <2>4, <2>6 DEF ValidForwarder
  <2> QED
    BY <2>5, <2>6
<1> QED
    BY <1>0, <1>1, LoadedKeeps DEF Valid, Admissible

LEMMA LoadPreserves == IInv /\ Load => IInv'
<1> SUFFICES ASSUME IInv, Load PROVE IInv'
    OBVIOUS
<1>1. Process' /\ connections' = <<>>
    BY DEF IInv, Process, Load
<1>2. Kept'
    BY <1>1 DEF Kept
<1>3. (Answered /\ OwnForwarder)'
    BY DEF IInv, Load, Answered, Answers, OwnForwarder
<1>4. OptionalIsOptional'
    BY DefaultsAreValid DEF Load, OptionalIsOptional, Admissible
<1> QED
    BY <1>1, <1>2, <1>3, <1>4 DEF IInv

LEMMA RestartPreserves == IInv /\ Restart => IInv'
<1> SUFFICES ASSUME IInv, Restart PROVE IInv'
    OBVIOUS
<1>1. Process' /\ connections' = <<>>
    BY DEF IInv, Process, Restart
<1>2. Kept'
    BY <1>1 DEF Kept
<1>3. Answered'
    BY DEF IInv, Restart, Answered, Answers
<1>4. (OwnForwarder /\ OptionalIsOptional)'
    BY DEF IInv, Restart, OwnForwarder, OptionalIsOptional
<1> QED
    BY <1>1, <1>2, <1>3, <1>4 DEF IInv

-----------------------------------------------------------------------------
(* Serving *)

\* The loaded configuration gives a path the services that the file gives it.
LEMMA RoutePreserves ==
    ASSUME NEW path \in Paths, IInv, Route(path)
    PROVE  IInv'
<1>1. config = Loaded(file)
    BY DEF IInv, Process, Route
<1>2. ServiceByPath(path) = Answers(path)
    BY <1>1, LoadedKeeps DEF ServiceByPath, HasPath, Answers
<1>3. Answers(path) \subseteq DOMAIN file.services
    BY DEF Answers
<1>4. Answered'
    BY <1>2, <1>3 DEF IInv, Answered, Answers, Route
<1>5. (Process /\ Kept /\ OwnForwarder /\ OptionalIsOptional)'
    BY DEF IInv, Route, Process, Kept, Forwarders, OwnForwarder, OptionalIsOptional,
           Admissible
<1> QED
    BY <1>4, <1>5 DEF IInv

\* The forwarders of one service have different keys.
LEMMA KeysDiffer ==
    ASSUME NEW n \in Seq(Parts), NEW m \in Seq(Parts),
           StoredServiceID \o n = StoredServiceID \o m
    PROVE  n = m
<1>1. StoredServiceID \in Seq(Parts)
  <2>1. PICK e \in Parts : e = ""
    BY NamesAssumption
  <2>2. <<e>> \in Seq(Parts)
    OBVIOUS
  <2> QED
    BY <2>1, <2>2 DEF StoredServiceID
<1> HIDE DEF StoredServiceID
<1> QED
    BY <1>1, ConcatSimplifications

\* The map gets at most one entry, for the forwarder that has none, and holds that of the
\* delivery then.
LEMMA MapGrows ==
    ASSUME StoredServiceID \in DOMAIN config.services,
           NEW n \in DOMAIN Forwarders(config),
           Forwarders(config)[n].type = "amqp",
           Kept, NewForwarder(n), UNCHANGED config
    PROVE  Kept' /\ Forwarders(config)[n].hash \in DOMAIN connections'
<1> DEFINE key == Forwarders(config)[n].hash
<1>1. connections' = [h \in DOMAIN connections \cup {key} |->
                         IF h \in DOMAIN connections THEN connections[h] ELSE n]
    BY DEF NewForwarder
<1>2. \A h \in DOMAIN connections' :
          \/ connections'[h] = n /\ h = key
          \/ h \in DOMAIN connections /\ connections'[h] = connections[h]
    BY <1>1
<1>3. Kept'
    BY <1>2 DEF Kept, Forwarders
<1> QED
    BY <1>1, <1>3

LEMMA DeliverPreserves == IInv /\ Deliver => IInv'
<1> SUFFICES ASSUME IInv, Deliver PROVE IInv'
    OBVIOUS
<1>1. /\ config = Loaded(file) /\ UNCHANGED <<file, pc, config, routed>>
      /\ pc = "serving" /\ StoredServiceID \in DOMAIN config.services
    BY DEF IInv, Process, Deliver
<1>2. PICK n \in DOMAIN Forwarders(config) :
          \/ \E given \in SUBSET CanonicalNames : DeliverHTTP(n, given)
          \/ \E isJSON \in BOOLEAN : DeliverAMQP(n, isJSON)
    BY DEF Deliver
<1> DEFINE f == Forwarders(config)[n]
<1>3. /\ StoredServiceID \in DOMAIN file.services
      /\ DOMAIN Forwarders(config) = DOMAIN Forwarders(file)
      /\ \A m \in DOMAIN Forwarders(file) :
            Forwarders(config)[m] = WithDefaults(StoredServiceID, m, Forwarders(file)[m])
    BY <1>1, LoadedKeeps DEF Forwarders
<1>4. Process' /\ Answered' /\ OptionalIsOptional'
    BY <1>1 DEF IInv, Process, Answered, Answers, OptionalIsOptional, Admissible
<1>5. CASE \E given \in SUBSET CanonicalNames : DeliverHTTP(n, given)
  <2>1. PICK given \in SUBSET CanonicalNames : DeliverHTTP(n, given)
    BY <1>5
  <2>2. UNCHANGED connections /\ sent'.to = n /\ sent'.by = n
    BY <2>1 DEF DeliverHTTP
  <2>3. Kept' /\ OwnForwarder'
    BY <1>1, <2>2 DEF IInv, Kept, Forwarders, OwnForwarder
  <2> QED
    BY <1>4, <2>3 DEF IInv
<1>6. CASE \E isJSON \in BOOLEAN : DeliverAMQP(n, isJSON)
  <2>1. PICK isJSON \in BOOLEAN : DeliverAMQP(n, isJSON)
    BY <1>6
  <2>2. f.type = "amqp" /\ NewForwarder(n)
    BY <2>1 DEF DeliverAMQP
  <2>3. Kept' /\ f.hash \in DOMAIN connections'
    BY <1>1, <2>2, MapGrows DEF IInv
  <2>4. CASE isJSON
    <3>1. sent' = [NothingSent EXCEPT !.to = n, !.by = connections'[f.hash]]
      BY <2>1, <2>4 DEF DeliverAMQP
    <3>2. sent'.to = n /\ sent'.by = connections'[f.hash]
      BY <3>1 DEF NothingSent
    <3>3. PICK by : by = connections'[f.hash]
      OBVIOUS
    <3>4. by \in DOMAIN Forwarders(config) /\ Forwarders(config)[by].hash = f.hash
      BY <1>1, <2>3, <3>3 DEF Kept, Forwarders
    <3>5. StoredServiceID \o by = StoredServiceID \o n
      <4>1. \A m \in DOMAIN Forwarders(config) : Forwarders(config)[m].hash = StoredServiceID \o m
        <5>1. \A m, g : WithDefaults(StoredServiceID, m, g).hash = StoredServiceID \o m
          BY DEF WithDefaults, generateUniqueName
        <5> QED
          BY <1>3, <5>1
      <4> QED
        BY <1>2, <3>4, <4>1
    <3>6. by \in Seq(Parts) /\ n \in Seq(Parts)
      BY <1>2, <1>3, <3>4, NamesAssumption DEF IInv, Process, Forwarders
    <3>7. OwnForwarder'
      BY <3>2, <3>3, <3>5, <3>6, KeysDiffer DEF OwnForwarder
    <3> QED
      BY <1>4, <2>3, <3>7 DEF IInv
  <2>5. CASE ~isJSON
    BY <1>1, <1>4, <2>1, <2>3, <2>5 DEF DeliverAMQP, IInv, OwnForwarder
  <2> QED
    BY <2>4, <2>5
<1> QED
    BY <1>2, <1>5, <1>6

-----------------------------------------------------------------------------
(* The theorems *)

LEMMA Inductive == IInv /\ [Next]_vars => IInv'
<1> SUFFICES ASSUME IInv, [Next]_vars PROVE IInv'
    OBVIOUS
<1>1. CASE UNCHANGED vars
  <2>1. UNCHANGED <<file, pc, config, connections, routed, sent>>
    BY <1>1 DEF vars
  <2>2. Process' /\ Kept'
    BY <2>1 DEF IInv, Process, Kept, Forwarders
  <2>3. Answered'
    BY <2>1 DEF IInv, Answered, Answers
  <2>4. OwnForwarder'
    BY <2>1 DEF IInv, OwnForwarder
  <2>5. OptionalIsOptional'
    BY <2>1 DEF IInv, OptionalIsOptional, Admissible
  <2> QED
    BY <2>2, <2>3, <2>4, <2>5 DEF IInv
<1>2. CASE Next
    BY <1>2, LoadPreserves, RoutePreserves, DeliverPreserves, RestartPreserves DEF Next
<1> QED
    BY <1>1, <1>2

THEOREM Invariant == Spec => []IInv
BY Initial, Inductive, PTL DEF Spec

\* The types, and a map that holds only brokers' forwarders, each under its own key.
THEOREM TypeCorrect == Spec => []TypeOK
<1>1. IInv => TypeOK
    BY DEF IInv, Process, Kept, Answered, TypeOK
<1> QED
    BY <1>1, Invariant, PTL

\* A process serves just when its file has what is required and nothing illegal: a
\* default is never refused, and does not hide a setting that has to be.
THEOREM DefaultsSuffice == Spec => []OptionalIsOptional
<1>1. IInv => OptionalIsOptional
    BY DEF IInv
<1> QED
    BY <1>1, Invariant, PTL

\* The answers to a path agree for ever, whatever order Go's map iteration takes, unless
\* the file gives one path to several services.
THEOREM PathsAreSettled == Spec => []RoutesAgree
<1>1. IInv => RoutesAgree
    BY DEF IInv, Answered, Answers, RoutesAgree
<1> QED
    BY <1>1, Invariant, PTL

\* A delivery is made by its own forwarder, whatever the names of the forwarders are.
THEOREM KeysSuffice == Spec => []OwnForwarder
<1>1. IInv => OwnForwarder
    BY DEF IInv
<1> QED
    BY <1>1, Invariant, PTL
=============================================================================
