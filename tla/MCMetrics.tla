----------------------------- MODULE MCMetrics -----------------------------
(***************************************************************************)
(* Four rows of the compiled table, over three endpoints: a labelled       *)
(* object at the first level and one at the second, a nested number that   *)
(* sorts after its sibling, and a number at the first level.               *)
(***************************************************************************)
EXTENDS Metrics, MetricSpecs

SomeSpecs ==
    SelectSeq(CompiledMetricSpecs, LAMBDA spec :
        spec.name \in {"pihole_query_types_by_type", "pihole_summary_queries_percent_blocked",
                       "pihole_summary_queries_by_status", "pihole_upstreams_total_queries"})

\* SpecsAssumption of the whole compiled table: it is of the shape the theorems are about.
ASSUME TableAssumption ==
    LET table == CompiledMetricSpecs
    IN  /\ \A i \in DOMAIN table : Len(table[i].path) \in {1, 2} /\ table[i].name # "scrape_success"
        /\ \A i, j \in DOMAIN table : table[i].name = table[j].name => i = j

Sorted == <<"", "/stats/query_types", "/stats/summary", "/stats/upstreams", "A", "AAAA", "percent_blocked",
    "pihole_query_types_by_type", "pihole_summary_queries_by_status",
    "pihole_summary_queries_percent_blocked", "pihole_upstreams_total_queries",
    "queries", "status", "total_queries", "type", "types">>
SomeStrings == Range(Sorted)
SomeOrder == UNION {{<<Sorted[i], Sorted[j]>> : j \in i + 1..Len(Sorted)} : i \in DOMAIN Sorted}
SomeNumbers == 0..7

Leaves == {[num |-> 7], [bool |-> TRUE], [bool |-> FALSE], [big |-> TRUE], [other |-> TRUE]}
Objects(keys, values) == {[obj |-> f] : f \in UNION {[present -> values] : present \in SUBSET keys}}
Values == Leaves \cup Objects({"A", "AAAA"}, Leaves)
FewValues == {[num |-> 3], [other |-> TRUE]} \cup Objects({"A"}, {[num |-> 2], [big |-> TRUE]})

SomeAnswers == [endpoint \in {spec.endpoint : spec \in ToSet(SomeSpecs)} |->
    CASE endpoint = "/stats/query_types" -> Objects({"types"}, Values) \cup {NullBody, [other |-> TRUE]}
      [] endpoint = "/stats/summary" ->
           Objects({"queries"}, Leaves \cup Objects({"percent_blocked", "status"}, FewValues))
      [] endpoint = "/stats/upstreams" -> Objects({"total_queries"}, FewValues)]

\* Everything in an answer, down to the leaves.
Within(values) == UNION {Range(value.obj) : value \in values \ Scalars}
SomeJson ==
    LET roots == UNION {SomeAnswers[endpoint] : endpoint \in Endpoints} \ {NullBody}
        parts == roots \cup Within(roots)
    IN  parts \cup Within(parts) \cup Within(Within(parts))
=============================================================================
