------------------------------- MODULE Config -------------------------------
(***************************************************************************)
(* Configuration of cmd/pihole-exporter: flags over environment over       *)
(* defaults, what is built from it, and the health check, a second process *)
(* that reads the same environment and asks the first for /healthz.        *)
(*                                                                         *)
(* A setting is [flag, env], each None or a value.  A value is the class   *)
(* of the text: addresses are [host, port, form] with form "numeric",      *)
(* "named" (a service name for a port) or "empty"; durations are           *)
(* [dur |-> ticks], [int |-> n] for a plain integer, or Junk.  An empty    *)
(* environment variable is None, as the code treats it.                    *)
(***************************************************************************)
EXTENDS Integers

CONSTANTS
    Inputs,      \* the combinations of settings a behaviour starts from
    Strings,     \* the texts a setting can have
    None, Junk,  \* no value; a value that does not parse
    Limit,       \* a time.Duration is at least -Limit and below Limit: 2^63 in the code
    Second,      \* ticks in a second
    Default      \* the default timeout and interval, in ticks

Exporters == {"prometheus", "otlp", "otlpgrpc", "otlphttp", "stdout"}

\* What an operator can write.
Addresses == [host : Strings, port : Nat, form : {"numeric", "named", "empty"}]
Texts == Strings \ {""}
Optional(values) == values \cup {None}
Settings ==
    [listen   : [flag : Optional(Addresses), env : Optional(Addresses)],
     url      : [flag : Optional(Strings), env : Optional(Texts)],
     password : [flag : Optional(Strings), env : Optional(Texts)],
     timeout  : [flag : Optional(Int \cup {Junk}),
                 env  : Optional([dur : Int] \cup [int : Int] \cup {Junk})],
     exporter : [flag : Optional(Strings), env : Optional(Texts)],
     metricsProtocol : Optional(Texts), protocol : Optional(Texts),
     interval : Optional([int : Int] \cup {Junk})]

ASSUME InputsAssumption == Inputs \subseteq Settings
ASSUME StringsAssumption == {"", "127.0.0.1", "prometheus"} \subseteq Strings
ASSUME DurationAssumption == {Limit, Second, Default} \subseteq Nat \ {0}
ASSUME NoneAssumption ==
    /\ None \notin Strings /\ None \notin Exporters
    /\ None \notin [host : Strings, port : Nat]
    /\ None \notin [transport : {"grpc", "http", "stdout"}, interval : Int]

VARIABLES
    given,     \* the settings of the behaviour
    phase,     \* starting, configured, built, serving, stopped, "exit 1", "exit 2"
    config,    \* what parseConfig returned
    secret,    \* whether PIHOLE_APP_PASSWORD is in the process environment
    routes,    \* what the mux serves
    push,      \* transport and interval of the OpenTelemetry reader
    timeout,   \* the timeout a scrape gets
    bound,     \* the address the server listens on
    health,    \* what the latest health check reported, run with the same -listen
    imageHealth  \* the same of the image's own, run without -listen

checks == <<health, imageHealth>>
vars == <<given, phase, config, secret, routes, push, timeout, bound, checks>>

\* int64 arithmetic of time.Duration.
Wrap(n) == ((n + Limit) % (2 * Limit)) - Limit

\* Mutant: plain integers are not scaled.
UnscaledOrDefault(value) ==
    CASE value \in {None, Junk}    -> Default
      [] "dur" \in DOMAIN value    -> value.dur
      [] "int" \in DOMAIN value    -> value.int

\* durationEnvOrDefault.
DurationOrDefault(value) ==
    IF value \in {None, Junk} THEN Default
    ELSE IF "dur" \in DOMAIN value THEN value.dur ELSE Wrap(value.int * Second)

\* Mutant: the environment wins.
EnvFirst(setting, fallback) ==
    IF setting.env # None THEN setting.env ELSE IF setting.flag # None THEN setting.flag ELSE fallback

\* envOrDefault as the default of a flag.
FlagOrEnv(setting, fallback) ==
    IF setting.flag # None THEN setting.flag ELSE IF setting.env # None THEN setting.env ELSE fallback

DefaultListen == [host |-> "", port |-> 9617, form |-> "numeric"]

\* parseMetricsExporter, of a value already trimmed and in lower case.
MetricsExporter(value) == IF value = "" THEN "prometheus" ELSE value

\* What parseConfig reads before it checks anything.
Read(settings) ==
    [listen   |-> FlagOrEnv(settings.listen, DefaultListen),
     url      |-> FlagOrEnv(settings.url, ""),
     password |-> FlagOrEnv(settings.password, ""),
     timeout  |-> IF settings.timeout.flag = None
                    THEN DurationOrDefault(settings.timeout.env) ELSE settings.timeout.flag,
     exporter |-> MetricsExporter(FlagOrEnv(settings.exporter, "prometheus"))]

Init ==
    /\ given \in Inputs
    /\ phase = "starting"
    /\ config = None
    /\ secret = (given.password.env # None)
    /\ routes = {}
    /\ push = None
    /\ timeout = 0
    /\ bound = None
    /\ health = "unknown"
    /\ imageHealth = "unknown"

-----------------------------------------------------------------------------
(* The exporter                                                            *)

\* Mutant: the variable is removed only when it was used.
ParseConfigKeeping ==
    LET read == Read(given)
    IN  /\ phase = "starting"
        /\ IF given.timeout.flag = Junk \/ read.url = "" \/ read.password = "" \/ read.exporter \notin Exporters
             THEN phase' = "exit 2" /\ config' = None
             ELSE phase' = "configured" /\ config' = read
        /\ secret' = (secret /\ given.password.flag # None)
        /\ UNCHANGED <<given, routes, push, timeout, bound, checks>>

\* parseConfig without -healthcheck: the checks in their order, the password
\* taken out of the environment between the last two.
ParseConfig ==
    LET read == Read(given)
        incomplete == given.timeout.flag = Junk \/ read.url = "" \/ read.password = ""
    IN  /\ phase = "starting"
        /\ secret' = (secret /\ incomplete)
        /\ IF incomplete \/ read.exporter \notin Exporters
             THEN phase' = "exit 2" /\ config' = None
             ELSE phase' = "configured" /\ config' = read
        /\ UNCHANGED <<given, routes, push, timeout, bound, checks>>

\* NewCollector and NewOpenTelemetryMeterProvider replace a timeout that is not
\* positive.
PositiveOrDefault(duration) == IF duration > 0 THEN duration ELSE Default

\* otlpProtocol: the variable for metrics goes before the general one.
Protocol == FlagOrEnv([flag |-> given.metricsProtocol, env |-> given.protocol], "")

\* Mutant: otlp takes any protocol the environment names.
AnyTransport ==
    CASE config.exporter = "stdout"   -> "stdout"
      [] config.exporter = "otlpgrpc" -> "grpc"
      [] config.exporter = "otlphttp" -> "http"
      [] config.exporter = "otlp"     -> IF Protocol = "" THEN "grpc" ELSE Protocol

\* newOpenTelemetryReader and newOTLPMetricExporter.
Transport ==
    CASE config.exporter = "stdout"   -> "stdout"
      [] config.exporter = "otlpgrpc" -> "grpc"
      [] config.exporter = "otlphttp" -> "http"
      [] config.exporter = "otlp"     -> CASE Protocol \in {"", "grpc"}    -> "grpc"
                                           [] Protocol = "http/protobuf"  -> "http"
                                           [] OTHER                       -> None

\* otelDurationFromMilliseconds, with a tick for a millisecond, so that the limit is
\* out of scale with it; the SDK keeps its default for a duration that is not positive.
Interval(value) ==
    IF value \in {None, Junk} THEN Default
    ELSE IF value.int <= 0 THEN Default ELSE PositiveOrDefault(Wrap(value.int))

\* buildServer: the client rejects a base URL without scheme or host; the mux
\* gets its routes, and the exporter its timeout.
BuildServer ==
    /\ phase = "configured"
    /\ IF config.url = "invalid" \/ (config.exporter # "prometheus" /\ Transport = None)
         THEN phase' = "exit 1" /\ UNCHANGED <<routes, push, timeout>>
         ELSE /\ phase' = "built"
              /\ timeout' = PositiveOrDefault(config.timeout)
              /\ routes' = {"/healthz", "/alive"} \cup
                              IF config.exporter = "prometheus" THEN {"/metrics"} ELSE {}
              /\ push' = IF config.exporter = "prometheus" THEN None
                         ELSE [transport |-> Transport, interval |-> Interval(given.interval)]
    /\ UNCHANGED <<given, config, secret, bound, checks>>

\* ListenAndServe: an empty address means the port named http; port 0 means a
\* port the system chooses.
BoundTo(address) ==
    CASE address.form = "empty"                          -> [host |-> "", port |-> 80]
      [] address.form = "numeric" /\ address.port = 0    -> [host |-> address.host, port |-> 40000]
      [] address.form = "named" \/ (address.form = "numeric" /\ address.port # 0)
                                                         -> [host |-> address.host, port |-> address.port]

\* The server listens, or fails to.
Listen ==
    /\ phase = "built"
    /\ \/ phase' = "serving" /\ bound' = BoundTo(config.listen)
       \/ phase' = "exit 1" /\ UNCHANGED bound
    /\ UNCHANGED <<given, config, secret, routes, push, timeout, checks>>

\* A signal, or the listener failing.
Stop ==
    /\ phase = "serving"
    /\ phase' = "stopped"
    /\ bound' = None
    /\ UNCHANGED <<given, config, secret, routes, push, timeout, checks>>

-----------------------------------------------------------------------------
(* The health check                                                        *)

Wildcards == {"", "0.0.0.0", "::"}

\* Mutant: only an empty host is rewritten.
TargetKeepingWildcards(address) ==
    IF address.form = "numeric"
      THEN [host |-> IF address.host = "" THEN "127.0.0.1" ELSE address.host, port |-> address.port]
      ELSE None

\* healthCheckURL: a wildcard host becomes loopback.  The URL of an empty
\* address has no host, and one with a named port does not parse: no request.
Target(address) ==
    IF address.form = "numeric"
      THEN [host |-> IF address.host \in Wildcards THEN "127.0.0.1" ELSE address.host, port |-> address.port]
      ELSE None

\* A server bound to a wildcard answers on loopback; nobody dials a wildcard.
Reaches(target) ==
    /\ bound # None /\ target # None
    /\ bound.port = target.port
    /\ target.host \notin Wildcards
    /\ bound.host \in Wildcards \/ bound.host = target.host

\* The exporter's binary with -healthcheck and perhaps -listen: parseConfig
\* returns the listen address without any check, and probeHealth asks for
\* /healthz there.
Probe(listenFlag) ==
    LET listen == FlagOrEnv([flag |-> listenFlag, env |-> given.listen.env], DefaultListen)
    IN  IF Reaches(Target(listen)) /\ "/healthz" \in routes THEN "healthy" ELSE "unhealthy"

HealthCheck ==
    /\ health' = Probe(given.listen.flag)
    /\ UNCHANGED <<given, phase, config, secret, routes, push, timeout, bound, imageHealth>>

\* The HEALTHCHECK of the image has no arguments but -healthcheck.
ImageHealthCheck ==
    /\ imageHealth' = Probe(None)
    /\ UNCHANGED <<given, phase, config, secret, routes, push, timeout, bound, health>>

Next == ParseConfig \/ BuildServer \/ Listen \/ Stop \/ HealthCheck \/ ImageHealthCheck

Spec == Init /\ [][Next]_vars

-----------------------------------------------------------------------------
(* Properties                                                              *)

Running == phase \in {"built", "serving", "stopped"}

\* Types, and which parts exist in which phase.
TypeOK ==
    /\ phase \in {"starting", "configured", "built", "serving", "stopped", "exit 1", "exit 2"}
    /\ secret \in BOOLEAN
    /\ (bound # None) <=> phase = "serving"
    /\ Running => {"/healthz", "/alive"} \subseteq routes /\ (push = None <=> "/metrics" \in routes)
    /\ push # None => push.transport \in {"grpc", "http", "stdout"}
    /\ {health, imageHealth} \subseteq {"unknown", "healthy", "unhealthy"}

\* The password an exporter runs with is not left in its environment, even if a
\* flag overrode it: "The exporter removes PIHOLE_APP_PASSWORD from its process
\* environment after configuration is parsed" (README.md:149, main.go:202).
PasswordRemoved == phase \in {"configured", "exit 1"} \/ Running => ~secret

\* The table of README.md:137-147: a value is the flag's, without one the
\* variable's, without either the default.
Chosen(setting, default, value) ==
    /\ setting.flag # None => value = setting.flag
    /\ setting.flag = None /\ setting.env # None => value = setting.env
    /\ setting.flag = None /\ setting.env = None => value = default

\* The OTLP variables ask for HTTP, the one for metrics before the general one.
HTTPAsked ==
    Chosen([flag |-> given.metricsProtocol, env |-> given.protocol], "", "http/protobuf")

\* What is served or pushed, and over which transport, is the exporter asked for.
ServesAsConfigured ==
    \E name \in {given.exporter.flag, given.exporter.env, "prometheus"} :
        /\ Chosen(given.exporter, "prometheus", name)
        /\ name \in Exporters \cup {""}
        /\ "/metrics" \in routes <=> name \in {"", "prometheus"}
        /\ push = None <=> name \in {"", "prometheus"}
        /\ push # None =>
              /\ push.transport = "stdout" <=> name = "stdout"
              /\ push.transport = "http" <=> name = "otlphttp" \/ (name = "otlp" /\ HTTPAsked)

\* An exporter runs with what the operator wrote (main.go:172-217, 301-306,
\* otel.go:55-94): where to listen, whom to ask, with which password, for how
\* long and through which exporter is what the table says, and complete.
RunsAsConfigured ==
    Running =>
        /\ Chosen(given.listen, [host |-> "", port |-> 9617, form |-> "numeric"], config.listen)
        /\ Chosen(given.url, None, config.url) /\ config.url \notin {None, "", "invalid"}
        /\ Chosen(given.password, None, config.password) /\ config.password \notin {None, ""}
        /\ given.timeout = [flag |-> None, env |-> None] => timeout = Default
        /\ ServesAsConfigured

ToTicks(value) == IF "int" \in DOMAIN value THEN {value.int * Second} ELSE {value.dur}
InRange(n) == n > 0 /\ n < Limit

\* Every duration in use is positive, and the one asked for if that fits an
\* int64 of nanoseconds: a plain integer counts as seconds for a scrape
\* (README.md:147) and as milliseconds for an export (README.md:164).
DurationsHonoured ==
    Running =>
        /\ timeout > 0
        /\ given.timeout.flag # None /\ given.timeout.flag > 0 => timeout = given.timeout.flag
        /\ given.timeout.flag = None /\ given.timeout.env \notin {None, Junk} =>
              \A n \in ToTicks(given.timeout.env) : InRange(n) => timeout = n
        /\ push # None => push.interval > 0
        /\ push # None /\ given.interval \notin {None, Junk} =>
              (InRange(given.interval.int) => push.interval = given.interval.int)

\* The health check tells whether the exporter serves, for every listen address
\* that names a port by number (main.go:267-301): run with the exporter's own
\* -listen always, as in the image (Dockerfile:20-21) if the exporter has none.
\* Neither calls an exporter healthy that does not serve.
Serves == phase = "serving" /\ config.listen.form = "numeric" /\ config.listen.port # 0
HealthCheckTells ==
    [][/\ health' # health => (health' = "healthy" <=> Serves)
       /\ imageHealth' # imageHealth /\ imageHealth' = "healthy" => phase = "serving"
       /\ imageHealth' # imageHealth /\ given.listen.flag = None => (imageHealth' = "healthy" <=> Serves)]_vars
=============================================================================
