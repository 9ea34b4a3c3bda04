------------------------------ MODULE Metrics ------------------------------
(***************************************************************************)
(* CollectMetrics (pkg/pihole/metrics.go) and what the two exporters make  *)
(* of its result: Prometheus through a registry that checks every series   *)
(* (pkg/exporter/collector.go), OpenTelemetry through observations         *)
(* (pkg/exporter/otel.go).                                                 *)
(*                                                                         *)
(* A decoded JSON value is a record with one field that tells its kind:    *)
(* [obj |-> f], [num |-> n], [bool |-> b], [big |-> TRUE] for a number     *)
(* beyond float64, [other |-> TRUE] for null, a string or an array.        *)
(***************************************************************************)
EXTENDS Integers, SequencesExt

CONSTANTS
    Strings,  \* names, paths and keys
    Order,    \* Go's order of them, the pairs of a smaller and a larger one
    Numbers,  \* the finite values of a float64
    Json,     \* decoded JSON values
    Specs,    \* the metric specifications, rows of CompiledMetricSpecs
    Answers   \* what each endpoint may answer: JSON values, or NullBody

VARIABLES
    todo,      \* endpoints still to ask
    bodies,    \* the body of every endpoint asked, NoBody for a failure
    rows,      \* indices of the specifications still to extract from the last body
    metrics,   \* the metrics collected so far
    verdict,   \* "running", then what CollectMetrics returned: "ok" or "error"
    gathered,  \* what Prometheus is shown: "nothing yet", "500" or "200"
    shown,     \* the series of a 200
    observed   \* what OpenTelemetry exports: the observations, by series

exported == <<gathered, shown, observed>>
vars == <<todo, bodies, rows, metrics, verdict, exported>>

Before(a, b) == <<a, b>> \in Order

\* sort.Strings of a set: the one sequence of its elements in order.
InOrder(strings) ==
    {s \in [1..Cardinality(strings) -> strings] :
        ToSet(s) = strings /\ \A i, j \in DOMAIN s : i < j => Before(s[i], s[j])}

\* The label of a metric that is one number, and the key of its only value.
NoLabel == ""

Rows(endpoint) == {i \in DOMAIN Specs : Specs[i].endpoint = endpoint}
Endpoints == {Specs[i].endpoint : i \in DOMAIN Specs}

Missing == [missing |-> TRUE]
NoBody == [failed |-> TRUE]
NullBody == [null |-> TRUE]
IsObject(value) == "obj" \in DOMAIN value
Scalars == [num : Numbers] \cup [bool : BOOLEAN] \cup {[big |-> TRUE], [other |-> TRUE]}

ASSUME OrderAssumption ==
    /\ NoLabel \in Strings
    /\ \A a \in Strings : ~Before(a, a)
    /\ \A a, b \in Strings : a = b \/ Before(a, b) \/ Before(b, a)
    /\ \A a, b, c \in Strings : Before(a, b) /\ Before(b, c) => Before(a, c)
ASSUME NumbersAssumption == {0, 1} \subseteq Numbers
ASSUME JsonAssumption ==
    \A value \in Json \ Scalars :
        /\ DOMAIN value = {"obj"}
        /\ IsFiniteSet(DOMAIN value.obj) /\ DOMAIN value.obj \subseteq Strings
        /\ \A key \in DOMAIN value.obj : value.obj[key] \in Json
ASSUME AnswersAssumption == \A endpoint \in Endpoints : Answers[endpoint] \subseteq Json \cup {NullBody}
\* What the compiled table is like: names distinct, fields at the first or second level.
ASSUME SpecsAssumption ==
    /\ Specs \in Seq([name : Strings, endpoint : Strings, path : Seq(Strings), label : Strings])
    /\ \A i \in DOMAIN Specs : Len(Specs[i].path) \in {1, 2} /\ Specs[i].name # "scrape_success"
    /\ \A i, j \in DOMAIN Specs : Specs[i].name = Specs[j].name => i = j

-----------------------------------------------------------------------------
(* Extraction                                                              *)

\* GetJSONMap decodes an object; null decodes to an empty map; any other value
\* is an error.
Decoded(value) == IF value = NullBody THEN [obj |-> <<>>] ELSE value
BodyOf(spec) == Decoded(bodies[spec.endpoint])

\* One step of lookup, into a member.
Member(value, part) ==
    IF IsObject(value) /\ part \in DOMAIN value.obj THEN value.obj[part] ELSE Missing

\* lookup: what is at the path, or Missing.
Lookup(root, path) ==
    LET at[n \in 0..Len(path)] == IF n = 0 THEN root ELSE Member(at[n - 1], path[n])
    IN  at[Len(path)]

\* Mutant: booleans are not numbers.
NumberOnly(value) == IF "num" \in DOMAIN value THEN <<value.num>> ELSE <<>>

\* Mutant: a number out of range is passed on as infinity, here -1.
NumberUnchecked(value) ==
    CASE "num" \in DOMAIN value  -> <<value.num>>
      [] "bool" \in DOMAIN value -> <<IF value.bool THEN 1 ELSE 0>>
      [] "big" \in DOMAIN value  -> <<-1>>
      [] OTHER                   -> <<>>

\* numberValue: numbers within float64, and booleans as 0 and 1; else nothing.
NumberValue(value) ==
    CASE "num" \in DOMAIN value  -> <<value.num>>
      [] "bool" \in DOMAIN value -> <<IF value.bool THEN 1 ELSE 0>>
      [] OTHER                   -> <<>>

Metric(spec, key, number) == [name |-> spec.name, label |-> spec.label, key |-> key, value |-> number]

\* What extractMetric returns: metrics, or an error.
Extracted(found) == [metrics |-> found, failed |-> FALSE]
Failed == [metrics |-> <<>>, failed |-> TRUE]

\* extractMetric of a labelled specification: one metric per numeric member, in
\* key order; members that are not numeric are dropped.
Members(values, spec) ==
    LET keys == {key \in DOMAIN values : NumberValue(values[key]) # <<>>}
    IN  {Extracted([i \in DOMAIN sorted |-> Metric(spec, sorted[i], NumberValue(values[sorted[i]])[1])]) :
            sorted \in InOrder(keys)}

\* Mutant: a member that is not numeric fails the scrape.
ExtractStrict(root, spec) ==
    LET value == Lookup(root, spec.path)
    IN  CASE value = Missing -> {Extracted(<<>>)}
          [] value # Missing /\ spec.label # NoLabel ->
               IF IsObject(value) /\ \A k \in DOMAIN value.obj : NumberValue(value.obj[k]) # <<>>
                 THEN Members(value.obj, spec) ELSE {Failed}
          [] value # Missing /\ spec.label = NoLabel ->
               IF NumberValue(value) # <<>> THEN {Extracted(<<Metric(spec, NoLabel, NumberValue(value)[1])>>)} ELSE {Failed}

\* extractMetric: nothing for a missing field, an error for a field of the wrong
\* kind.
Extract(root, spec) ==
    LET value == Lookup(root, spec.path)
    IN  CASE value = Missing -> {Extracted(<<>>)}
          [] value # Missing /\ spec.label # NoLabel ->
               IF IsObject(value) THEN Members(value.obj, spec) ELSE {Failed}
          [] value # Missing /\ spec.label = NoLabel ->
               IF NumberValue(value) # <<>> THEN {Extracted(<<Metric(spec, NoLabel, NumberValue(value)[1])>>)} ELSE {Failed}

-----------------------------------------------------------------------------
(* One scrape                                                              *)

Init ==
    /\ todo = Endpoints
    /\ bodies = <<>>
    /\ rows = {}
    /\ metrics = <<>>
    /\ verdict = "running"
    /\ gathered = "nothing yet"
    /\ shown = {}
    /\ observed = <<>>

\* The scrape returns nil and an error.
Fail == verdict' = "error" /\ metrics' = <<>> /\ rows' = {}

\* The next endpoint in order is asked, and answers.
Ask(endpoint, body) ==
    /\ verdict = "running" /\ rows = {}
    /\ \A other \in todo \ {endpoint} : Before(endpoint, other)
    /\ todo' = todo \ {endpoint}
    /\ bodies' = [e \in DOMAIN bodies \cup {endpoint} |-> IF e = endpoint THEN body ELSE bodies[e]]
    /\ UNCHANGED exported

\* GetJSONMap of the next endpoint.
Fetch ==
    \E endpoint \in todo : \E value \in Answers[endpoint] :
        /\ Ask(endpoint, value)
        /\ IF IsObject(Decoded(value)) THEN rows' = Rows(endpoint) /\ UNCHANGED <<metrics, verdict>> ELSE Fail

\* GetJSONMap fails: no session, no connection, a status, a body that is not JSON.
FetchFails == \E endpoint \in todo : Ask(endpoint, NoBody) /\ Fail

\* The next metric, in the order of the table, is extracted from the body.
ExtractNext ==
    /\ verdict = "running"
    /\ \E i \in rows :
         /\ \A j \in rows : i <= j
         /\ \E result \in Extract(BodyOf(Specs[i]), Specs[i]) :
              IF result.failed THEN Fail
              ELSE metrics' = metrics \o result.metrics /\ rows' = rows \ {i} /\ UNCHANGED verdict
    /\ UNCHANGED <<todo, bodies, exported>>

\* By name, then by label.
Less(m, n) == Before(m.name, n.name) \/ (m.name = n.name /\ Before(m.key, n.key))

\* All endpoints answered: sort.Slice, which may leave equal metrics in any order.
Finish ==
    /\ verdict = "running" /\ rows = {} /\ todo = {}
    /\ verdict' = "ok"
    /\ \E perm \in Bijection(DOMAIN metrics, DOMAIN metrics) :
         /\ \A i, j \in DOMAIN metrics : i < j => ~Less(metrics[perm[j]], metrics[perm[i]])
         /\ metrics' = [i \in DOMAIN metrics |-> metrics[perm[i]]]
    /\ UNCHANGED <<todo, bodies, rows, exported>>

-----------------------------------------------------------------------------
(* The exporters                                                           *)

\* Mutant: label names are not described.
DescribeNames == {[name |-> Specs[i].name, label |-> NoLabel] : i \in DOMAIN Specs}

\* Describe: the descriptors the registry will accept from Collect.
Describe == {[name |-> Specs[i].name, label |-> Specs[i].label] : i \in DOMAIN Specs}

Series(m) == [name |-> m.name, key |-> m.key]

\* The registry refuses a series it was not told of and a series sent twice.
Refused ==
    \/ \E i \in DOMAIN metrics : [name |-> metrics[i].name, label |-> metrics[i].label] \notin Describe
    \/ \E i, j \in DOMAIN metrics : i # j /\ Series(metrics[i]) = Series(metrics[j])

\* Collect sends every metric; one error leaves the answer without series.
Gather ==
    /\ verdict # "running"
    /\ gathered = "nothing yet"
    /\ IF verdict = "error" \/ Refused
         THEN gathered' = "500" /\ shown' = {}
         ELSE gathered' = "200" /\ shown' = ToSet(metrics)
    /\ UNCHANGED <<todo, bodies, rows, metrics, verdict, observed>>

Success == [name |-> "scrape_success", key |-> NoLabel]

\* What is left of observations [series, value] made one after the other, on top
\* of the verdict: the last of each series.
Observations(seen) ==
    [s \in {Success} \cup {seen[i].series : i \in DOMAIN seen} |->
        IF \E i \in DOMAIN seen : seen[i].series = s
          THEN LET last == CHOOSE i \in DOMAIN seen :
                               seen[i].series = s /\ \A j \in DOMAIN seen : seen[j].series = s => j <= i
               IN  seen[last].value
          ELSE IF verdict = "ok" THEN 1 ELSE 0]

\* Mutant: observations carry no attributes.
ObserveBare ==
    /\ verdict # "running"
    /\ observed = <<>>
    /\ observed' = Observations([i \in DOMAIN metrics |->
                       [series |-> [name |-> metrics[i].name, key |-> NoLabel], value |-> metrics[i].value]])
    /\ UNCHANGED <<todo, bodies, rows, metrics, verdict, gathered, shown>>

\* The callback observes the verdict and every metric of a known name.
Observe ==
    /\ verdict # "running"
    /\ observed = <<>>
    /\ LET known == {i \in DOMAIN metrics : \E j \in DOMAIN Specs : Specs[j].name = metrics[i].name}
       IN  observed' = Observations([i \in known |-> [series |-> Series(metrics[i]), value |-> metrics[i].value]])
    /\ UNCHANGED <<todo, bodies, rows, metrics, verdict, gathered, shown>>

Next == Fetch \/ FetchFails \/ ExtractNext \/ Finish \/ Gather \/ Observe

Spec == Init /\ [][Next]_vars

-----------------------------------------------------------------------------
(* Properties                                                              *)

\* Values are finite, metrics belong to specifications, a failed scrape holds none.
TypeOK ==
    /\ verdict \in {"running", "ok", "error"}
    /\ gathered \in {"nothing yet", "200", "500"}
    /\ \A i \in DOMAIN metrics :
          /\ metrics[i].value \in Numbers
          /\ \E j \in DOMAIN Specs : metrics[i].name = Specs[j].name
    /\ verdict = "error" => metrics = <<>>
    /\ DOMAIN bodies = Endpoints \ todo

\* A reading of a body that does not follow the code: all its fields down to
\* the third level, each with its path.
Fields(value) == IF IsObject(value) THEN DOMAIN value.obj ELSE {}
Under(nodes) == UNION {{<<Append(node[1], key), node[2].obj[key]>> : key \in Fields(node[2])} : node \in nodes}
Nodes(body) ==
    LET first == Under({<<<<>>, body>>}) IN first \cup Under(first) \cup Under(Under(first))

Numeric(value) == {"num", "bool"} \cap DOMAIN value # {}
Number(value) == IF "num" \in DOMAIN value THEN value.num ELSE IF value = [bool |-> TRUE] THEN 1 ELSE 0

Expected(body, spec) ==
    {Metric(spec, IF spec.label = NoLabel THEN NoLabel ELSE Last(node[1]), Number(node[2])) :
        node \in {n \in Nodes(body) : /\ Numeric(n[2])
                                      /\ spec.path = IF spec.label = NoLabel THEN n[1] ELSE Front(n[1])}}

Unreadable(body, spec) ==
    \E node \in Nodes(body) :
        node[1] = spec.path /\ IF spec.label = NoLabel THEN ~Numeric(node[2]) ELSE ~IsObject(node[2])

\* A scrape that succeeds returns exactly the numbers Pi-hole sent for the
\* compiled table, from all endpoints, each series once, in name and label order
\* (metrics.go:40-76); a missing field is no metric and no error.
Complete ==
    verdict = "ok" =>
        /\ DOMAIN bodies = Endpoints
        /\ ToSet(metrics) = UNION {Expected(BodyOf(Specs[i]), Specs[i]) : i \in DOMAIN Specs}
        /\ \A i, j \in DOMAIN metrics : i < j => Less(metrics[i], metrics[j])

\* The scrape fails if and only if an endpoint failed or sent something other
\* than an object, or a field of the table was there and of the wrong kind
\* (metrics.go:78-124): a member of a labelled object never fails it.
ErrorHasCause ==
    verdict # "running" =>
        (verdict = "error" <=>
            \E endpoint \in DOMAIN bodies :
                \/ ~IsObject(Decoded(bodies[endpoint]))
                \/ \E i \in Rows(endpoint) : Unreadable(Decoded(bodies[endpoint]), Specs[i]))

\* The registry accepts every result of a successful scrape, whatever Pi-hole
\* sent: no series twice, none undescribed (collector.go:65-73, 103-120).
GatherAccepts == gathered = "500" => verdict = "error"

\* Both exporters show the same series with the same values, and OpenTelemetry
\* tells a failed scrape (otel.go:164-202).
SameSeries ==
    observed # <<>> /\ gathered # "nothing yet" =>
        /\ DOMAIN observed \ {Success} = {Series(m) : m \in shown}
        /\ \A m \in shown : observed[Series(m)] = m.value
        /\ observed[Success] = 1 <=> gathered = "200"
=============================================================================
