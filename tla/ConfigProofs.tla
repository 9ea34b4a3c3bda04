---------------------------- MODULE ConfigProofs ----------------------------
(***************************************************************************)
(* Proofs about Config, for any settings an operator can write, any width  *)
(* of a duration and any defaults.                                         *)
(***************************************************************************)
EXTENDS Config, TLAPS

\* What parseConfig has accepted, from then on.
Accepted ==
    phase \in {"configured", "exit 1"} \/ Running =>
        /\ config = Read(given)
        /\ given.timeout.flag # Junk
        /\ config.url # "" /\ config.password # ""
        /\ config.exporter \in Exporters
        /\ secret = FALSE

\* What buildServer has made of it.
Built ==
    /\ push # None => push.transport \in {"grpc", "http", "stdout"}
    /\ Running =>
        /\ config.url # "invalid"
        /\ timeout = PositiveOrDefault(config.timeout)
        /\ routes = {"/healthz", "/alive"} \cup
                      IF config.exporter = "prometheus" THEN {"/metrics"} ELSE {}
        /\ IF config.exporter = "prometheus" THEN push = None
           ELSE Transport # None /\ push = [transport |-> Transport, interval |-> Interval(given.interval)]

\* Where the server listens, and what a health check has said.
Listening ==
    /\ phase \in {"starting", "configured", "built", "serving", "stopped", "exit 1", "exit 2"}
    /\ secret \in BOOLEAN
    /\ bound = IF phase = "serving" THEN BoundTo(config.listen) ELSE None
    /\ {health, imageHealth} \subseteq {"unknown", "healthy", "unhealthy"}

ConfigInv == given \in Inputs /\ Accepted /\ Built /\ Listening

-----------------------------------------------------------------------------
(* What the helpers return                                                 *)

\* The shape of what an operator wrote.
LEMMA Written ==
    ASSUME NEW g \in Inputs
    PROVE  /\ g.listen \in [flag : Optional(Addresses), env : Optional(Addresses)]
           /\ g.url \in [flag : Optional(Strings), env : Optional(Texts)]
           /\ g.password \in [flag : Optional(Strings), env : Optional(Texts)]
           /\ g.timeout \in [flag : Optional(Int \cup {Junk}),
                             env : Optional([dur : Int] \cup [int : Int] \cup {Junk})]
           /\ g.exporter \in [flag : Optional(Strings), env : Optional(Texts)]
           /\ g.metricsProtocol \in Optional(Texts) /\ g.protocol \in Optional(Texts)
           /\ g.interval \in Optional([int : Int] \cup {Junk})
<1>1. g \in Settings
  BY InputsAssumption
<1> QED
  BY <1>1 DEF Settings

\* Arithmetic of int64 leaves a duration that fits as it is.
LEMMA WrapFits == ASSUME NEW n \in Int, InRange(n) PROVE Wrap(n) = n
<1>1. Limit \in Nat \ {0} /\ n + Limit \in Int /\ 0 <= n + Limit /\ n + Limit < 2 * Limit
  BY DurationAssumption DEF InRange
<1>2. ASSUME NEW m \in Int, NEW k \in Nat, 0 <= m, m < k PROVE m % k = m
  BY <1>2
<1>3. (n + Limit) % (2 * Limit) = n + Limit
  BY <1>1, <1>2
<1> QED
  BY <1>1, <1>3 DEF Wrap

\* A duration is always an integer.
LEMMA WrapType == ASSUME NEW n \in Int PROVE Wrap(n) \in Int
<1>1. 2 * Limit \in Nat \ {0} /\ n + Limit \in Int
  BY DurationAssumption
<1>2. ASSUME NEW m \in Int, NEW k \in Nat \ {0} PROVE m % k \in Int
  BY <1>2
<1>3. (n + Limit) % (2 * Limit) \in Int
  BY <1>1, <1>2
<1> QED
  BY <1>3, DurationAssumption DEF Wrap

\* Whatever a variable holds, its duration is an integer.
LEMMA DurationType ==
    ASSUME NEW value \in Optional([dur : Int] \cup [int : Int] \cup {Junk})
    PROVE  DurationOrDefault(value) \in Int
<1>1. CASE value \in {None, Junk}
  BY <1>1, DurationAssumption DEF DurationOrDefault
<1>2. CASE value \notin {None, Junk} /\ value \in [dur : Int]
  BY <1>2 DEF DurationOrDefault
<1>3. CASE value \notin {None, Junk} /\ value \in [int : Int]
  <2>1. "dur" \notin DOMAIN value /\ value.int * Second \in Int
    BY <1>3, DurationAssumption
  <2> QED
    BY <1>3, <2>1, WrapType DEF DurationOrDefault
<1> QED
  BY <1>1, <1>2, <1>3 DEF Optional

\* An export interval is positive, and the one asked for if that fits.
LEMMA IntervalPositive ==
    ASSUME NEW value \in Optional([int : Int] \cup {Junk})
    PROVE  /\ Interval(value) \in Int /\ Interval(value) > 0
           /\ value \notin {None, Junk} /\ InRange(value.int) => Interval(value) = value.int
<1>1. CASE value \in {None, Junk}
  BY <1>1, DurationAssumption DEF Interval
<1>2. CASE value \notin {None, Junk}
  <2>1. value.int \in Int /\ Wrap(value.int) \in Int
    BY <1>2, WrapType DEF Optional
  <2>2. InRange(value.int) => Wrap(value.int) = value.int /\ value.int > 0
    BY <2>1, WrapFits DEF InRange
  <2> QED
    BY <1>2, <2>1, <2>2, DurationAssumption DEF Interval, PositiveOrDefault
<1> QED
  BY <1>1, <1>2

\* An address out of its parts.
LEMMA AddressOf ==
    ASSUME NEW h \in Strings, NEW p \in Nat, NEW f \in {"numeric", "named", "empty"}
    PROVE  [host |-> h, port |-> p, form |-> f] \in Addresses
  BY DEF Addresses

\* The default is one.
LEMMA DefaultIsAddress == DefaultListen \in Addresses
<1>1. DefaultListen.host \in Strings
  BY StringsAssumption DEF DefaultListen
<1>2. DefaultListen.port \in Nat
  BY DEF DefaultListen
<1>3. DefaultListen.form \in {"numeric", "named", "empty"}
  BY DEF DefaultListen
<1>4. DefaultListen = [host |-> DefaultListen.host, port |-> DefaultListen.port, form |-> DefaultListen.form]
  BY DEF DefaultListen
<1> QED
  BY <1>1, <1>2, <1>3, <1>4, AddressOf

\* What parseConfig reads has the types the rest relies on.
LEMMA ReadType ==
    ASSUME NEW g \in Inputs, g.timeout.flag # Junk
    PROVE  /\ Read(g).listen \in Addresses
           /\ Read(g).url \in Strings /\ Read(g).password \in Strings /\ Read(g).exporter \in Strings
           /\ Read(g).timeout \in Int
<1>1. Read(g).listen \in Addresses
  <2>1. g.listen.flag \in Addresses \cup {None} /\ g.listen.env \in Addresses \cup {None}
    BY Written DEF Optional
  <2>2. DefaultListen \in Addresses
    BY DefaultIsAddress
  <2> QED
    BY <2>1, <2>2 DEF Read, FlagOrEnv
<1>2. Read(g).url \in Strings /\ Read(g).password \in Strings
  <2>1. /\ g.url.flag \in Strings \cup {None} /\ g.url.env \in Strings \cup {None}
        /\ g.password.flag \in Strings \cup {None} /\ g.password.env \in Strings \cup {None}
    BY Written DEF Optional, Texts
  <2> QED
    BY <2>1, StringsAssumption DEF Read, FlagOrEnv
<1>3. Read(g).exporter \in Strings
  <2>1. g.exporter.flag \in Strings \cup {None} /\ g.exporter.env \in Strings \cup {None}
    BY Written DEF Optional, Texts
  <2> QED
    BY <2>1, StringsAssumption DEF Read, FlagOrEnv, MetricsExporter
<1>4. Read(g).timeout \in Int
  <2>1. g.timeout.flag \in Int \cup {None} /\ DurationOrDefault(g.timeout.env) \in Int
    BY Written, DurationType DEF Optional
  <2> QED
    BY <2>1 DEF Read
<1> QED
  BY <1>1, <1>2, <1>3, <1>4

\* A host and a port.
LEMMA HostPort ==
    ASSUME NEW h \in Strings, NEW p \in Nat
    PROVE  [host |-> h, port |-> p] \in [host : Strings, port : Nat]
  OBVIOUS

\* The server is bound to an address.
LEMMA BoundSomewhere ==
    ASSUME NEW address \in Addresses
    PROVE  BoundTo(address) \in [host : Strings, port : Nat]
<1>1. address.host \in Strings /\ address.port \in Nat /\ "" \in Strings
  BY StringsAssumption DEF Addresses
<1>2. address.form \in {"numeric", "named", "empty"}
  BY DEF Addresses
<1>3. CASE address.form = "empty"
  <2>1. BoundTo(address) = [host |-> "", port |-> 80]
    BY <1>3 DEF BoundTo
  <2> QED
    BY <1>1, <2>1, HostPort
<1>4. CASE address.form = "numeric" /\ address.port = 0
  <2>1. \A p \in Nat : [host |-> address.host, port |-> p] \in [host : Strings, port : Nat]
    BY <1>1, HostPort
  <2>2. PICK p \in Nat : p = 40000
    OBVIOUS
  <2>3. BoundTo(address) = [host |-> address.host, port |-> p]
    BY <1>4, <2>2 DEF BoundTo
  <2> QED
    BY <2>1, <2>3
<1>5. CASE address.form = "named" \/ (address.form = "numeric" /\ address.port # 0)
  <2>1. BoundTo(address) = [host |-> address.host, port |-> address.port]
    BY <1>5 DEF BoundTo
  <2>2. [host |-> address.host, port |-> address.port] \in [host : Strings, port : Nat]
    BY <1>1, HostPort
  <2> QED
    BY <2>1, <2>2
<1> QED
  BY <1>2, <1>3, <1>4, <1>5

-----------------------------------------------------------------------------
(* The invariant                                                           *)

\* The invariant holds when the container starts.
LEMMA InitInv == Init => ConfigInv
  BY DEF Init, ConfigInv, Accepted, Built, Listening, Running

\* Every step keeps it.
LEMMA ConfigStep == ConfigInv /\ [Next]_vars => ConfigInv'
<1> SUFFICES ASSUME ConfigInv, [Next]_vars PROVE ConfigInv'
  OBVIOUS
<1> USE DEF ConfigInv, checks
<1>1. CASE ParseConfig
  BY <1>1 DEF ParseConfig, Accepted, Built, Listening, Running
<1>2. CASE BuildServer
  <2>1. CASE phase' = "exit 1" /\ UNCHANGED <<routes, push, timeout>>
    BY <1>2, <2>1 DEF BuildServer, Accepted, Built, Listening, Running
  <2>2. CASE phase' = "built"
    <3>1. Accepted' /\ Listening' /\ given' \in Inputs
      BY <1>2, <2>2 DEF BuildServer, Accepted, Listening, Running
    <3>2. Transport' = Transport
      BY <1>2 DEF BuildServer, Transport, Protocol
    <3>3. config.exporter \in Exporters /\ config' = config
      BY <1>2, <2>2 DEF BuildServer, Accepted, Running
    <3>4. push' # None => push'.transport \in {"grpc", "http", "stdout"}
      <4>1. CASE config.exporter = "prometheus"
        BY <1>2, <2>2, <4>1 DEF BuildServer
      <4>2. CASE config.exporter # "prometheus"
        <5>1. Transport \in {"grpc", "http", "stdout"}
          BY <1>2, <2>2, <3>3, <4>2 DEF BuildServer, Transport, Exporters
        <5>2. push' = [transport |-> Transport, interval |-> Interval(given.interval)]
          BY <1>2, <2>2, <4>2 DEF BuildServer
        <5> QED
          BY <5>1, <5>2
      <4> QED
        BY <4>1, <4>2
    <3>5. Built'
      BY <1>2, <2>2, <3>2, <3>4 DEF BuildServer, Accepted, Built, Running
    <3> QED
      BY <3>1, <3>5
  <2> QED
    BY <1>2, <2>1, <2>2 DEF BuildServer
<1>3. CASE Listen
  <2>1. Accepted' /\ given' \in Inputs
    BY <1>3 DEF Listen, Accepted, Running
  <2>2. Transport' = Transport
    BY <1>3 DEF Listen, Transport, Protocol
  <2>3. Built'
    BY <1>3, <2>2 DEF Listen, Built, Running
  <2>4. Listening'
    BY <1>3 DEF Listen, Listening
  <2> QED
    BY <2>1, <2>3, <2>4
<1>4. CASE Stop
  BY <1>4 DEF Stop, Accepted, Built, Listening, Running, Transport, Protocol
<1>5. ASSUME HealthCheck \/ ImageHealthCheck PROVE ConfigInv'
  BY <1>5 DEF HealthCheck, ImageHealthCheck, Probe, Accepted, Built, Listening, Running, Transport, Protocol
<1>6. CASE UNCHANGED vars
  BY <1>6 DEF vars, Accepted, Built, Listening, Running, Transport, Protocol
<1> QED
  BY <1>1, <1>2, <1>3, <1>4, <1>5, <1>6 DEF Next

\* The invariant holds in every reachable state.
LEMMA ConfigInvariance == Spec => []ConfigInv
  BY InitInv, ConfigStep, PTL DEF Spec

-----------------------------------------------------------------------------
(* The theorems                                                            *)

\* What parseConfig has read and buildServer uses is well-formed.
LEMMA ConfigType ==
    ASSUME ConfigInv, phase \in {"configured", "exit 1"} \/ Running
    PROVE  /\ config.listen \in Addresses
           /\ config.timeout \in Int
           /\ config.exporter \in Exporters
  BY ReadType DEF ConfigInv, Accepted

\* Parts exist when they should: a listener while serving, a reader unless the
\* exporter is Prometheus (main.go:96-158).
THEOREM ConfigTypeCorrect == Spec => []TypeOK
<1>1. ASSUME ConfigInv PROVE TypeOK
  <2>1. (bound # None) <=> phase = "serving"
    <3>1. CASE phase = "serving"
      <4>1. bound \in [host : Strings, port : Nat]
        BY <1>1, <3>1, ConfigType, BoundSomewhere DEF ConfigInv, Listening, Running
      <4> QED
        BY <3>1, <4>1, NoneAssumption
    <3>2. CASE phase # "serving"
      BY <1>1, <3>2 DEF ConfigInv, Listening
    <3> QED
      BY <3>1, <3>2
  <2>2. ASSUME Running
        PROVE  /\ {"/healthz", "/alive"} \subseteq routes
               /\ push = None <=> "/metrics" \in routes
    <3>1. CASE config.exporter = "prometheus"
      BY <1>1, <2>2, <3>1 DEF ConfigInv, Built
    <3>2. CASE config.exporter # "prometheus"
      <4>1. config.exporter \in Exporters /\ Transport # None
        BY <1>1, <2>2, <3>2 DEF ConfigInv, Built, Accepted
      <4>2. Transport \in {"grpc", "http", "stdout"}
        BY <3>2, <4>1 DEF Transport, Exporters
      <4>3. Interval(given.interval) \in Int
        BY <1>1, Written, IntervalPositive DEF ConfigInv
      <4>4. push = [transport |-> Transport, interval |-> Interval(given.interval)]
        BY <1>1, <2>2, <3>2 DEF ConfigInv, Built
      <4>5. push \in [transport : {"grpc", "http", "stdout"}, interval : Int] /\ push.transport = Transport
        BY <4>2, <4>3, <4>4
      <4>6. push # None
        BY <4>5, NoneAssumption
      <4>7. "/metrics" \notin routes /\ {"/healthz", "/alive"} \subseteq routes
        BY <1>1, <2>2, <3>2 DEF ConfigInv, Built
      <4> QED
        BY <4>2, <4>5, <4>6, <4>7
    <3> QED
      BY <3>1, <3>2
  <2>3. /\ phase \in {"starting", "configured", "built", "serving", "stopped", "exit 1", "exit 2"}
        /\ secret \in BOOLEAN
        /\ {health, imageHealth} \subseteq {"unknown", "healthy", "unhealthy"}
    BY <1>1 DEF ConfigInv, Listening
  <2>4. push # None => push.transport \in {"grpc", "http", "stdout"}
    BY <1>1 DEF ConfigInv, Built
  <2> QED
    BY <2>1, <2>2, <2>3, <2>4 DEF TypeOK
<1> QED
  BY <1>1, ConfigInvariance, PTL

\* No exporter that got past parseConfig leaves the password in its environment,
\* whether or not a flag overrode it (main.go:197-204).
THEOREM PasswordIsRemoved == Spec => []PasswordRemoved
<1>1. ConfigInv => PasswordRemoved
  BY DEF ConfigInv, Accepted, PasswordRemoved, Running
<1> QED
  BY <1>1, ConfigInvariance, PTL

\* A flag whose default is the variable's value or the built-in one holds what
\* the table says (main.go:172-177, 301-306).
LEMMA FlagOrEnvChooses ==
    ASSUME NEW setting, NEW default
    PROVE  Chosen(setting, default, FlagOrEnv(setting, default))
  BY DEF Chosen, FlagOrEnv

\* An exporter listens, asks Pi-hole and serves or pushes as the flags, the
\* variables and the defaults say, in that order (main.go:172-217, 301-306,
\* otel.go:55-94).
THEOREM ExporterRunsAsConfigured == Spec => []RunsAsConfigured
<1>1. ASSUME ConfigInv, Running PROVE RunsAsConfigured
  <2>1. given \in Inputs /\ config = Read(given) /\ config.exporter \in Exporters
    BY <1>1 DEF ConfigInv, Accepted
  <2>2. Chosen(given.listen, [host |-> "", port |-> 9617, form |-> "numeric"], config.listen)
    <3>1. config.listen = FlagOrEnv(given.listen, DefaultListen)
      BY <2>1 DEF Read
    <3>2. Chosen(given.listen, DefaultListen, config.listen)
      BY <3>1, FlagOrEnvChooses
    <3> QED
      BY <3>2 DEF DefaultListen, Chosen
  <2>3. None # "" /\ None # "prometheus"
    BY StringsAssumption, NoneAssumption
  <2>4. Chosen(given.url, None, config.url) /\ config.url \notin {None, "", "invalid"}
    <3>1. config.url = FlagOrEnv(given.url, "") /\ config.url \notin {"", "invalid"}
      BY <1>1, <2>1 DEF ConfigInv, Accepted, Built, Read
    <3> QED
      BY <3>1, <2>3 DEF FlagOrEnv, Chosen
  <2>5. Chosen(given.password, None, config.password) /\ config.password \notin {None, ""}
    <3>1. config.password = FlagOrEnv(given.password, "") /\ config.password # ""
      BY <1>1, <2>1 DEF ConfigInv, Accepted, Read
    <3> QED
      BY <3>1, <2>3 DEF FlagOrEnv, Chosen
  <2>6. given.timeout = [flag |-> None, env |-> None] => timeout = Default
    <3>1. timeout = PositiveOrDefault(config.timeout)
      BY <1>1 DEF ConfigInv, Built
    <3> SUFFICES ASSUME given.timeout.flag = None, given.timeout.env = None PROVE timeout = Default
      OBVIOUS
    <3>2. config.timeout = DurationOrDefault(given.timeout.env)
      BY <2>1 DEF Read
    <3>3. config.timeout = Default
      BY <3>2 DEF DurationOrDefault
    <3> QED
      BY <3>1, <3>3 DEF PositiveOrDefault
  <2> DEFINE name == FlagOrEnv(given.exporter, "prometheus")
  <2>7. /\ name \in {given.exporter.flag, given.exporter.env, "prometheus"}
        /\ Chosen(given.exporter, "prometheus", name)
    BY FlagOrEnvChooses DEF FlagOrEnv
  <2>8. config.exporter = IF name = "" THEN "prometheus" ELSE name
    BY <2>1 DEF Read, MetricsExporter
  <2> HIDE DEF name
  <2>9. name \in Exporters \cup {""} /\ (config.exporter = "prometheus" <=> name \in {"", "prometheus"})
    BY <2>1, <2>8
  <2>10. "/metrics" \in routes <=> name \in {"", "prometheus"}
    BY <1>1, <2>9 DEF ConfigInv, Built
  <2>11. ASSUME config.exporter = "prometheus" PROVE ServesAsConfigured
    <3>1. push = None
      BY <1>1, <2>11 DEF ConfigInv, Built
    <3> QED
      BY <2>7, <2>9, <2>10, <2>11, <3>1 DEF ServesAsConfigured
  <2>12. ASSUME config.exporter # "prometheus" PROVE ServesAsConfigured
    <3>1. Transport # None /\ push = [transport |-> Transport, interval |-> Interval(given.interval)]
      BY <1>1, <2>12 DEF ConfigInv, Built
    <3>2. Transport \in {"grpc", "http", "stdout"} /\ push # None
      <4>1. push.transport = Transport
        BY <3>1
      <4>2. Transport \in {"grpc", "http", "stdout"}
        BY <2>1, <2>12, <3>1 DEF Exporters, Transport
      <4>3. Interval(given.interval) \in Int
        BY <2>1, Written, IntervalPositive
      <4>4. push \in [transport : {"grpc", "http", "stdout"}, interval : Int]
        BY <3>1, <4>2, <4>3
      <4> QED
        BY <4>2, <4>4, NoneAssumption
    <3>3. name = config.exporter /\ push.transport = Transport
      BY <2>8, <2>12, <3>1
    <3>4. Transport = "stdout" <=> name = "stdout"
      BY <2>1, <2>12, <3>1, <3>3 DEF Exporters, Transport
    <3>5. Transport = "http" <=> name = "otlphttp" \/ (name = "otlp" /\ HTTPAsked)
      <4>1. Protocol = IF given.metricsProtocol = None
                         THEN IF given.protocol = None THEN "" ELSE given.protocol
                         ELSE given.metricsProtocol
        BY DEF Protocol, FlagOrEnv
      <4>2. CASE name = "otlp"
        <5>1. Transport = CASE Protocol \in {"", "grpc"}   -> "grpc"
                            [] Protocol = "http/protobuf" -> "http"
                            [] OTHER                      -> None
          BY <3>3, <4>2 DEF Transport
        <5>2. Protocol = "http/protobuf" <=> HTTPAsked
          BY <4>1 DEF HTTPAsked, Chosen
        <5> QED
          BY <3>1, <4>2, <5>1, <5>2
      <4>3. CASE name # "otlp"
        BY <2>1, <2>12, <3>3, <4>3 DEF Exporters, Transport
      <4> QED
        BY <4>2, <4>3
    <3> QED
      BY <2>7, <2>9, <2>10, <2>12, <3>2, <3>3, <3>4, <3>5 DEF ServesAsConfigured
  <2>13. ServesAsConfigured
    BY <2>11, <2>12
  <2> QED
    BY <2>2, <2>4, <2>5, <2>6, <2>13 DEF RunsAsConfigured, Chosen
<1>2. ConfigInv => RunsAsConfigured
  BY <1>1 DEF RunsAsConfigured
<1> QED
  BY <1>2, ConfigInvariance, PTL

\* Every duration in use is positive and, if it fits an int64, the one asked for
\* (main.go:308-328, collector.go:40-55, otel.go:88-116).
THEOREM DurationsAreHonoured == Spec => []DurationsHonoured
<1>1. ASSUME ConfigInv, Running PROVE DurationsHonoured
  <2>1. /\ given \in Inputs /\ config = Read(given) /\ given.timeout.flag # Junk
        /\ config.timeout \in Int /\ timeout = PositiveOrDefault(config.timeout)
    BY <1>1, ConfigType DEF ConfigInv, Accepted, Built
  <2>2. timeout > 0 /\ (config.timeout > 0 => timeout = config.timeout)
    BY <2>1, DurationAssumption DEF PositiveOrDefault
  <2>3. given.timeout.flag \in Int \cup {None}
        /\ given.timeout.env \in Optional([dur : Int] \cup [int : Int] \cup {Junk})
    BY <2>1, Written DEF Optional
  <2>4. config.timeout = IF given.timeout.flag = None
                           THEN DurationOrDefault(given.timeout.env) ELSE given.timeout.flag
    BY <2>1 DEF Read
  <2>5. given.timeout.flag # None /\ given.timeout.flag > 0 => timeout = given.timeout.flag
    BY <2>2, <2>4
  <2>6. ASSUME given.timeout.flag = None, given.timeout.env \notin {None, Junk},
               NEW n \in ToTicks(given.timeout.env), InRange(n)
        PROVE  timeout = n
    <3>1. config.timeout = DurationOrDefault(given.timeout.env)
      BY <2>4, <2>6
    <3>2. CASE given.timeout.env \in [dur : Int]
      <4>1. "int" \notin DOMAIN given.timeout.env /\ n = given.timeout.env.dur
        BY <2>6, <3>2 DEF ToTicks
      <4>2. config.timeout = n /\ n \in Int
        BY <2>6, <3>1, <3>2, <4>1 DEF DurationOrDefault
      <4> QED
        BY <2>2, <2>6, <4>2 DEF InRange
    <3>3. CASE given.timeout.env \in [int : Int]
      <4>1. /\ "dur" \notin DOMAIN given.timeout.env
            /\ n = given.timeout.env.int * Second /\ n \in Int
        BY <2>6, <3>3, DurationAssumption DEF ToTicks
      <4>2. config.timeout = Wrap(n)
        BY <2>6, <3>1, <4>1 DEF DurationOrDefault
      <4> QED
        BY <2>2, <2>6, <4>1, <4>2, WrapFits DEF InRange
    <3> QED
      BY <2>3, <2>6, <3>2, <3>3 DEF Optional
  <2>7. ASSUME push # None
        PROVE  /\ push.interval > 0
               /\ given.interval \notin {None, Junk} /\ InRange(given.interval.int) =>
                     push.interval = given.interval.int
    <3>1. push = [transport |-> Transport, interval |-> Interval(given.interval)]
      BY <1>1, <2>7 DEF ConfigInv, Built
    <3> QED
      BY <2>1, <3>1, Written, IntervalPositive
  <2> QED
    BY <2>2, <2>5, <2>6, <2>7 DEF DurationsHonoured
<1>2. ConfigInv => DurationsHonoured
  BY <1>1 DEF DurationsHonoured
<1> QED
  BY <1>2, ConfigInvariance, PTL

\* A probe that finds a listener: it asks at the address the exporter listens on.
LEMMA ProbeTells ==
    ASSUME ConfigInv, NEW flag,
           LET listen == FlagOrEnv([flag |-> flag, env |-> given.listen.env], DefaultListen)
           IN  phase = "serving" => listen = config.listen
    PROVE  Probe(flag) = "healthy" <=> Serves
<1> DEFINE listen == FlagOrEnv([flag |-> flag, env |-> given.listen.env], DefaultListen)
<1>1. CASE phase # "serving"
  BY <1>1 DEF ConfigInv, Listening, Probe, Reaches, Serves
<1>2. CASE phase = "serving"
  <2>1. /\ config.listen \in Addresses /\ listen = config.listen
        /\ bound = BoundTo(config.listen) /\ "/healthz" \in routes
    BY <1>2, ConfigType DEF ConfigInv, Listening, Built, Running
  <2>2. bound # None
    BY <2>1, BoundSomewhere, NoneAssumption
  <2> HIDE DEF listen
  <2>3. CASE config.listen.form = "numeric"
    <3>1. Target(listen) = [host |-> IF config.listen.host \in Wildcards THEN "127.0.0.1" ELSE config.listen.host,
                            port |-> config.listen.port]
      BY <2>1, <2>3 DEF Target
    <3>2. Target(listen) \in [host : Strings, port : Nat]
      <4>1. config.listen.host \in Strings /\ config.listen.port \in Nat /\ "127.0.0.1" \in Strings
        BY <2>1, StringsAssumption DEF Addresses
      <4> QED
        BY <3>1, <4>1
    <3>3. Target(listen) # None
      BY <3>2, NoneAssumption
    <3>4. bound.host = config.listen.host
          /\ bound.port = IF config.listen.port = 0 THEN 40000 ELSE config.listen.port
      BY <2>1, <2>3 DEF BoundTo, Addresses
    <3>5. Target(listen).host \notin Wildcards /\ Target(listen).port = config.listen.port
          /\ (bound.host \in Wildcards \/ bound.host = Target(listen).host)
      <4>1. CASE config.listen.host \in Wildcards
        <5>1. "127.0.0.1" \notin Wildcards
          BY DEF Wildcards
        <5> QED
          BY <3>1, <3>4, <4>1, <5>1
      <4>2. CASE config.listen.host \notin Wildcards
        BY <3>1, <3>4, <4>2
      <4> QED
        BY <4>1, <4>2
    <3>6. Reaches(Target(listen)) <=> config.listen.port # 0
      BY <2>1, <2>2, <3>3, <3>4, <3>5 DEF Reaches, Addresses
    <3> QED
      BY <1>2, <2>1, <2>3, <3>6 DEF Probe, Serves, listen
  <2>4. CASE config.listen.form # "numeric"
    BY <1>2, <2>1, <2>4 DEF Probe, Target, Reaches, Serves, listen
  <2> QED
    BY <2>3, <2>4
<1> QED
  BY <1>1, <1>2

\* Both health checks tell whether the exporter serves, for every address
\* (main.go:186-188, 265-299).
THEOREM HealthCheckIsRight == Spec => HealthCheckTells
<1> DEFINE Step == /\ health' # health => (health' = "healthy" <=> Serves)
                   /\ imageHealth' # imageHealth /\ imageHealth' = "healthy" => phase = "serving"
                   /\ imageHealth' # imageHealth /\ given.listen.flag = None =>
                         (imageHealth' = "healthy" <=> Serves)
<1>1. ASSUME ConfigInv, [Next]_vars PROVE [Step]_vars
  <2>1. CASE HealthCheck
    <3>1. phase = "serving" =>
            FlagOrEnv([flag |-> given.listen.flag, env |-> given.listen.env], DefaultListen) = config.listen
      <4>1. ASSUME phase = "serving" PROVE config.listen = FlagOrEnv(given.listen, DefaultListen)
        <5>1. config = Read(given)
          BY <1>1, <4>1 DEF ConfigInv, Accepted, Running
        <5> QED
          BY <5>1 DEF Read
      <4> QED
        BY <4>1 DEF FlagOrEnv
    <3>2. Probe(given.listen.flag) = "healthy" <=> Serves
      BY <1>1, <3>1, ProbeTells
    <3> QED
      BY <2>1, <3>2 DEF HealthCheck
  <2>2. CASE ImageHealthCheck
    <3>1. imageHealth' = Probe(None) /\ health' = health
      BY <2>2 DEF ImageHealthCheck
    <3>2. imageHealth' = "healthy" => phase = "serving"
      BY <1>1, <3>1 DEF Probe, Reaches, ConfigInv, Listening
    <3>3. ASSUME given.listen.flag = None PROVE imageHealth' = "healthy" <=> Serves
      <4>1. phase = "serving" =>
              FlagOrEnv([flag |-> None, env |-> given.listen.env], DefaultListen) = config.listen
        <5>1. ASSUME phase = "serving" PROVE config.listen = FlagOrEnv(given.listen, DefaultListen)
          <6>1. config = Read(given)
            BY <1>1, <5>1 DEF ConfigInv, Accepted, Running
          <6> QED
            BY <6>1 DEF Read
        <5> QED
          BY <3>3, <5>1 DEF FlagOrEnv
      <4> QED
        BY <1>1, <3>1, <4>1, ProbeTells
    <3> QED
      BY <3>1, <3>2, <3>3
  <2>3. CASE ParseConfig \/ BuildServer \/ Listen \/ Stop \/ UNCHANGED vars
    BY <2>3 DEF ParseConfig, BuildServer, Listen, Stop, vars, checks
  <2> QED
    BY <1>1, <2>1, <2>2, <2>3 DEF Next
<1> QED
  BY <1>1, ConfigInvariance, PTL DEF Spec, HealthCheckTells
=============================================================================
