---------------------------- MODULE MetricSpecs ----------------------------
(***************************************************************************)
(* pkg/pihole/metrics_gen.go: the table the exporter is compiled with, in  *)
(* its order.  Help texts are left out; the only kind is gauge.            *)
(***************************************************************************)

\* One MetricSpec; a label of "" is no label.
Row(name, endpoint, path, label) ==
    [name |-> name, endpoint |-> endpoint, path |-> path, label |-> label]

CompiledMetricSpecs == <<
    Row("pihole_query_types_by_type", "/stats/query_types", <<"types">>, "type"),
    Row("pihole_summary_clients_active", "/stats/summary", <<"clients", "active">>, ""),
    Row("pihole_summary_clients_total", "/stats/summary", <<"clients", "total">>, ""),
    Row("pihole_summary_gravity_domains_being_blocked", "/stats/summary", <<"gravity", "domains_being_blocked">>, ""),
    Row("pihole_summary_gravity_last_update_timestamp_seconds", "/stats/summary", <<"gravity", "last_update">>, ""),
    Row("pihole_summary_queries_blocked", "/stats/summary", <<"queries", "blocked">>, ""),
    Row("pihole_summary_queries_cached", "/stats/summary", <<"queries", "cached">>, ""),
    Row("pihole_summary_queries_forwarded", "/stats/summary", <<"queries", "forwarded">>, ""),
    Row("pihole_summary_queries_frequency", "/stats/summary", <<"queries", "frequency">>, ""),
    Row("pihole_summary_queries_percent_blocked", "/stats/summary", <<"queries", "percent_blocked">>, ""),
    Row("pihole_summary_queries_by_reply", "/stats/summary", <<"queries", "replies">>, "reply"),
    Row("pihole_summary_queries_by_status", "/stats/summary", <<"queries", "status">>, "status"),
    Row("pihole_summary_queries_total", "/stats/summary", <<"queries", "total">>, ""),
    Row("pihole_summary_queries_by_type", "/stats/summary", <<"queries", "types">>, "type"),
    Row("pihole_summary_queries_unique_domains", "/stats/summary", <<"queries", "unique_domains">>, ""),
    Row("pihole_top_clients_blocked_queries", "/stats/top_clients", <<"blocked_queries">>, ""),
    Row("pihole_top_clients_total_queries", "/stats/top_clients", <<"total_queries">>, ""),
    Row("pihole_top_domains_blocked_queries", "/stats/top_domains", <<"blocked_queries">>, ""),
    Row("pihole_top_domains_total_queries", "/stats/top_domains", <<"total_queries">>, ""),
    Row("pihole_upstreams_forwarded_queries", "/stats/upstreams", <<"forwarded_queries">>, ""),
    Row("pihole_upstreams_total_queries", "/stats/upstreams", <<"total_queries">>, "")>>
=============================================================================
