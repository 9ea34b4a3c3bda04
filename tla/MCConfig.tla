------------------------------ MODULE MCConfig ------------------------------
(***************************************************************************)
(* Settings for Config: three families, each varying the settings that     *)
(* meet in the code and keeping the others as most operators have them.    *)
(***************************************************************************)
EXTENDS Config

Setting(flags, envs) == [flag : flags, env : envs]
Unset == {[flag |-> None, env |-> None]}
Usual == [listen |-> Unset, url |-> Setting({None}, {"pihole"}), password |-> Setting({None}, {"env"}),
          timeout |-> Unset, exporter |-> Unset, metricsProtocol |-> {None}, protocol |-> {None},
          interval |-> {None}]

All(s) == [listen : s.listen, url : s.url, password : s.password, timeout : s.timeout,
           exporter : s.exporter, metricsProtocol : s.metricsProtocol, protocol : s.protocol,
           interval : s.interval]

Numeric(host, port) == [host |-> host, port |-> port, form |-> "numeric"]
Listens == {Numeric("", 9617), Numeric("0.0.0.0", 8080), Numeric("::", 9617), Numeric("10.0.0.2", 8080),
              Numeric("127.0.0.1", 9617), Numeric("", 0),
              [host |-> "", port |-> 80, form |-> "named"], [host |-> "", port |-> 0, form |-> "empty"]}

Listening == All([Usual EXCEPT
    !.listen = Setting({None} \cup Listens, {None, Numeric("", 80), Numeric("", 8080), Numeric("10.0.0.2", 9617)}),
    !.exporter = Setting({None, "stdout"}, {None})])

Credentials == All([Usual EXCEPT
    !.url = Setting({None, "", "other", "invalid"}, {None, "pihole"}),
    !.password = Setting({None, "", "flag"}, {None, "env"}),
    !.exporter = Setting({None, "", "prometheus", "otlp", "none"}, {None, "prometheus", "stdout", "none"})])

\* With 8 bits and 4 ticks to the second, 40 s wraps below zero and 70 s above it.
Durations == All([Usual EXCEPT
    !.timeout = Setting({None, Junk, -4, 0, 12},
                        {None, Junk, [dur |-> 8], [dur |-> -8], [int |-> 0], [int |-> 2],
                         [int |-> 31], [int |-> 32], [int |-> 40], [int |-> 70]}),
    !.exporter = Setting({None, "otlp", "otlphttp"}, {None}),
    !.metricsProtocol = {None, "grpc", "http/protobuf", "http/json"},
    !.protocol = {None, "http/protobuf"},
    !.interval = {None, Junk, [int |-> -1], [int |-> 0], [int |-> 60], [int |-> 200], [int |-> 300]}])

AnyString == STRING
SomeInputs == Listening \cup Credentials \cup Durations
=============================================================================
