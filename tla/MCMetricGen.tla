---------------------------- MODULE MCMetricGen ----------------------------
(***************************************************************************)
(* Documents for MetricGen: one with the shape of the answers the tests    *)
(* keep of Pi-hole, whose own documents are not in the repository, and a   *)
(* family of small ones that vary what the generator looks at, in a file   *)
(* the main one refers to.                                                 *)
(***************************************************************************)
EXTENDS MetricGen

Number == [type |-> "integer"]
Text == [type |-> "string"]
Array == [type |-> "array"]
Object(props) == [type |-> "object", props |-> props]
Ref(file, at) == [ref |-> [file |-> file, at |-> at]]
Get(schema) == [tags |-> {"Metrics"}, schema |-> schema]

\* A document with the shape of the answers under internal/piholetest/testdata/
\* ftl-v6.7.1/stats, member by member, not of the compiled table.
Numbers(keys) == Object([key \in keys |-> Number])
Answered(props) == Get([allOf |-> <<Object(props), Ref("stats.yaml", "took")>>])
Types == Numbers({"A", "AAAA", "HTTPS"})
Summary ==
    [queries |-> Object([total |-> Number, blocked |-> Number, percent_blocked |-> Number,
                         unique_domains |-> Number, forwarded |-> Number, cached |-> Number,
                         frequency |-> Number, types |-> Types,
                         status |-> Numbers({"GRAVITY", "FORWARDED", "CACHE"}),
                         replies |-> Numbers({"IP", "NXDOMAIN", "NODATA"})]),
     clients |-> Numbers({"active", "total"}),
     gravity |-> Numbers({"domains_being_blocked", "last_update"})]
Answers ==
    [summary |-> Summary,
     query_types |-> [types |-> Types],
     top_clients |-> [clients |-> Array, total_queries |-> Number, blocked_queries |-> Number],
     top_domains |-> [domains |-> Array, total_queries |-> Number, blocked_queries |-> Number],
     upstreams |-> [upstreams |-> Array, forwarded_queries |-> Number, total_queries |-> Number]]

Pihole ==
    [paths |-> [endpoint \in {<<"stats", part>> : part \in DOMAIN Answers} |-> Ref("stats.yaml", endpoint[2])],
     files |-> ("main.yaml" :> <<>>)
                 @@ ("stats.yaml" :> (("took" :> Numbers({"took"}))
                       @@ [part \in DOMAIN Answers |-> Answered(Answers[part])]))]

\* Two members of a schema behind a reference, and the kinds of path item.
Members == <<Number, Text, Array, Object(<<>>), Object([A |-> Number, B |-> Number]),
             Object([A |-> Number, B |-> Text]), Object([A |-> Number, B |-> Object("~" :> Number)]), Object([A |-> Ref("stats.yaml", "counter")]),
             Ref("stats.yaml", "counter"), Ref("stats.yaml", "counts"), Ref("stats.yaml", "missing"),
             Ref("", "counter"), Ref("stats.yaml", "alias"),
             [allOf |-> <<Object([A |-> Number]), Object([B |-> Array])>>]>>
Document(first, second) ==
    [paths |-> (<<"stats", "summary">> :> Ref("stats.yaml", "summary"))
                  @@ (<<"stats", "upstreams">> :> Get(Object([types |-> first])))
                  @@ (<<"stats", "database", "summary">> :> Get(Number))
                  @@ (<<"auth">> :> Ref("stats.yaml", "missing"))
                  @@ (<<"stats", "top_clients">> :> [tags |-> {"Other"}, schema |-> Number]),
     files |-> ("main.yaml" :> ("counts" :> Number))
                 @@ ("stats.yaml" :> (("summary" :> Get([allOf |-> <<
                                          Object([status |-> first, last_update |-> second]),
                                          Object([took |-> Number])>>]))
                       @@ ("counter" :> Number) @@ ("alias" :> Ref("stats.yaml", "counter"))
                       @@ ("counts" :> Object([A |-> Number, B |-> Number]))))]
Family == (DOMAIN Members) \X (DOMAIN Members)

\* A path that leads nowhere.
Broken ==
    [paths |-> (<<"stats", "summary">> :> Ref("stats.yaml", "missing")) @@ (<<"stats", "upstreams">> :> Get(Number)),
     files |-> ("main.yaml" :> <<>>) @@ ("stats.yaml" :> <<>>)]

\* The parts of a schema that stands under a label, and all that can be reached
\* from the paths of a document: none of them is more than six levels deep.
Parts(d, schema, label) ==
    CASE IsRef(schema)             -> Reached(d, schema) \X {label}
      [] "allOf" \in DOMAIN schema -> Range(schema.allOf) \X {label}
      [] "props" \in DOMAIN schema -> {<<schema.props[key], LabelFor(<<key>>)>> : key \in DOMAIN schema.props}
      [] OTHER                     -> {}
Grown(d, places) == places \cup UNION {Parts(d, place[1], place[2]) : place \in places}
PlacesOf(d) ==
    LET items == UNION {Reached(d, d.paths[e]) : e \in StatsOf(d)}
        grown[depth \in 0..6] ==
            IF depth = 0 THEN {<<item.schema, NoLabel>> : item \in items} ELSE Grown(d, grown[depth - 1])
    IN  grown[6]

\* The meaning of each schema, by recursion: a reference is followed to its end
\* and within the file it stands in.
MeaningOf(d, schemas) ==
    LET meaning[schema \in schemas, file \in DOMAIN d.files, label \in Labels] ==
            CASE IsRef(schema) ->
                   LET target == IF schema.ref.file = "" THEN file ELSE schema.ref.file
                   IN  IF schema.ref.at \in DOMAIN d.files[target]
                         THEN meaning[d.files[target][schema.ref.at], target, label] ELSE {}
              [] "allOf" \in DOMAIN schema ->
                   UNION {meaning[part, file, label] : part \in Range(schema.allOf)}
              [] Numeric(schema) -> {[path |-> <<>>, label |-> ""]}
              [] Type(schema) \in {"object", ""} /\ "props" \in DOMAIN schema ->
                   IF label # "" /\ schema.props # <<>> /\ \A member \in Range(schema.props) : Numeric(member)
                     THEN {[path |-> <<>>, label |-> label]}
                     ELSE UNION {{[leaf EXCEPT !.path = <<key>> \o @] :
                                     leaf \in meaning[schema.props[key], file, LabelFor(<<key>>)]} :
                                 key \in DOMAIN schema.props}
              [] OTHER -> {}
    IN  [schema \in schemas |-> [label \in Labels |-> meaning[schema, Main, label]]]

\* How many visits each schema takes, by recursion.
VisitsOf(d, schemas) ==
    LET visits[schema \in schemas] ==
            CASE IsRef(schema)             -> Max({1} \cup {visits[target] : target \in Reached(d, schema)})
              [] "allOf" \in DOMAIN schema ->
                   FoldFunction(LAMBDA part, sum : visits[part] + sum, 1, schema.allOf)
              [] "props" \in DOMAIN schema ->
                   FoldFunction(LAMBDA part, sum : visits[part] + sum, 1, schema.props)
              [] OTHER                     -> 1
    IN  [schema \in schemas |-> visits[schema]]

WithMeaning(d) ==
    LET places == PlacesOf(d)
        schemas == {place[1] : place \in places}
    IN  [paths |-> d.paths, files |-> d.files, schemas |-> schemas, places |-> places,
         meaning |-> MeaningOf(d, schemas), visits |-> VisitsOf(d, schemas)]

\* The documents, by pairs of numbers.
PiholeName == <<0, 1>>
BrokenName == <<0, 2>>
PiholeAndFamily ==
    (PiholeName :> WithMeaning(Pihole)) @@ (BrokenName :> WithMeaning(Broken))
        @@ [name \in Family |-> WithMeaning(Document(Members[name[1]], Members[name[2]]))]

\* Capitals become small, and what is no letter leaves nothing.
SomeCleaned == ("A" :> "a") @@ ("B" :> "b") @@ ("~" :> "")
InOrder == <<"", "A", "AAAA", "B", "CACHE", "FORWARDED", "GRAVITY", "HTTPS", "IP", "NODATA", "NXDOMAIN",
    "a", "active", "auth", "b", "blocked", "blocked_queries", "cached", "clients", "database", "domains",
    "domains_being_blocked", "forwarded", "forwarded_queries", "frequency", "gravity", "last_update",
    "percent_blocked", "queries", "query_types", "replies", "reply", "stats", "status", "summary", "took",
    "top_clients", "top_domains", "total", "total_queries", "type", "types", "unique_domains", "upstreams", "~">>
PartsInOrder == Range(InOrder)
PairsInOrder == UNION {{<<InOrder[i], InOrder[j]>> : j \in i + 1..Len(InOrder)} : i \in DOMAIN InOrder}

\* The configuration names definitions that TLC evaluates whenever they are used;
\* these only name those above, which it evaluates once.
SomeOrder == PairsInOrder
SomeStrings == PartsInOrder
SomeDocuments == PiholeAndFamily
=============================================================================
