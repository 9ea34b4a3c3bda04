----------------------------- MODULE MetricGen -----------------------------
(***************************************************************************)
(* tools/pihole-metricgen: from Pi-hole's OpenAPI documents to the table   *)
(* of metric specifications.  The recursion of collectSchema is a stack of *)
(* schemas still to visit; the endpoints come in the order of a Go map,    *)
(* which is any order.                                                     *)
(*                                                                         *)
(* A schema is a record: [ref |-> [file, at]], [allOf |-> schemas],        *)
(* [type |-> t] or [type |-> t, props |-> f].  A path item is a [ref |-> r]*)
(* or an operation [tags |-> set, schema |-> s].  An endpoint is the       *)
(* sequence of its parts.                                                  *)
(*                                                                         *)
(* A document is [paths, files] as the generator reads it, files being     *)
(* [name -> [pointer -> node]], and [schemas, places, meaning, visits]:    *)
(* its schemas, the label each may stand under, as pairs, what each says,  *)
(* by schema and label, a set of leaves [path, label], and how many visits *)
(* each takes, with its parts.                                             *)
(***************************************************************************)
EXTENDS Integers, SequencesExt, MetricSpecs

CONSTANTS
    Strings,    \* names of fields and parts of endpoints
    Order,      \* Go's order of them, the pairs of a smaller and a larger one
    Documents,  \* documents by name
    PiholeDocument,  \* the name of the one with the shape of Pi-hole's answers
    Main,       \* the file that holds paths
    Cleaned     \* parts that sanitize changes, with what becomes of them

VARIABLES
    doc,        \* the name of the document read
    remaining,  \* endpoints generate has not looked at
    stack,      \* schemas collectSchema has to visit, the next one first
    specs,      \* the specifications found
    status      \* "running", "ok", "empty" or "error"

vars == <<doc, remaining, stack, specs, status>>

Paths == Documents[doc].paths
Files == Documents[doc].files

Before(a, b) == <<a, b>> \in Order

\* Sorting: the elements of a set by the number of those before them.
Arranged(set, relation) ==
    [n \in 1..Cardinality(set) |->
        CHOOSE x \in set : Cardinality({y \in set : <<y, x>> \in relation}) = n - 1]

-----------------------------------------------------------------------------
(* Names                                                                   *)

\* sanitize, part by part instead of on the joined text: a part without a letter or
\* a digit leaves nothing.
Sanitize(parts) ==
    SelectSeq([i \in DOMAIN parts |-> IF parts[i] \in DOMAIN Cleaned THEN Cleaned[parts[i]] ELSE parts[i]],
              LAMBDA part : part # "")

JoinWith(separator, parts) ==
    FoldLeft(LAMBDA text, part : IF text = "" THEN part ELSE text \o separator \o part, "", parts)

\* Mutant: the label replaces nothing in the name.
MetricNamePlain(endpoint, path, label) ==
    JoinWith("_", Sanitize(<<"pihole">> \o SelectSeq(endpoint, LAMBDA part : part # "stats")
                             \o IF label = "" THEN path ELSE Front(path)))

\* metricName.
MetricName(endpoint, path, label) ==
    LET last == IF path = <<>> THEN "" ELSE Last(path)
    IN  JoinWith("_", Sanitize(<<"pihole">> \o SelectSeq(endpoint, LAMBDA part : part # "stats")
                                 \o (IF label = "" THEN path ELSE Front(path) \o <<"by", label>>)
                                 \o (IF last = "last_update" THEN <<"timestamp", "seconds">> ELSE <<>>)))

Found(endpoint, path, label) ==
    [name |-> MetricName(endpoint, path, label), endpoint |-> endpoint, path |-> path, label |-> label]

-----------------------------------------------------------------------------
(* Schemas                                                                 *)

Type(schema) == IF "type" \in DOMAIN schema THEN schema.type ELSE ""
Numeric(schema) == Type(schema) \in {"integer", "number", "boolean"}
IsObject(schema) == Type(schema) \in {"object", ""}
IsRef(value) == "ref" \in DOMAIN value
FileOf(ref) == IF ref.file = "" THEN Main ELSE ref.file

\* Mutant: a reference to another file is looked up in the main one.
ResolveInMain(value) ==
    IF ~IsRef(value) THEN <<value>>
    ELSE IF value.ref.at \in DOMAIN Files[Main] THEN <<Files[Main][value.ref.at]>> ELSE <<>>

\* resolve with load and jsonPointer: one step along a reference, or nothing.
\* A reference without a file is looked up in the main file, wherever it stands:
\* currentFile stays what generate passed.
Resolve(value) ==
    IF ~IsRef(value) THEN <<value>>
    ELSE LET file == FileOf(value.ref)
         IN  IF file \in DOMAIN Files /\ value.ref.at \in DOMAIN Files[file]
               THEN <<Files[file][value.ref.at]>> ELSE <<>>

NoLabel == ""
LabelNames == [types |-> "type", status |-> "status", replies |-> "reply"]
Labels == {NoLabel} \cup {LabelNames[part] : part \in DOMAIN LabelNames}
LabelFor(path) ==
    IF path # <<>> /\ Last(path) \in DOMAIN LabelNames THEN LabelNames[Last(path)] ELSE NoLabel

\* labelForNumericObject: the members as they stand, references not followed.
Labelled(path, props) ==
    /\ LabelFor(path) # NoLabel
    /\ props # <<>> /\ \A key \in DOMAIN props : Numeric(props[key])

-----------------------------------------------------------------------------
(* generate                                                                *)

Init ==
    /\ doc \in DOMAIN Documents
    /\ remaining = DOMAIN Paths
    /\ stack = <<>>
    /\ specs = <<>>
    /\ status = "running"

\* An endpoint under /stats/, but not under /stats/database/.
UnderStats(endpoint) ==
    /\ Len(endpoint) > 1 /\ endpoint[1] = "stats"
    /\ ~(endpoint[2] = "database" /\ Len(endpoint) > 2)

\* A path item whose GET has the tag and a schema.
Wanted(item) == "Metrics" \in item.tags /\ "schema" \in DOMAIN item

Tasks(endpoint, items) ==
    IF items # <<>> /\ Wanted(items[1])
      THEN <<[endpoint |-> endpoint, path |-> <<>>, schema |-> items[1].schema]>> ELSE <<>>

\* Mutant: the endpoint is looked at, but not marked as such.
NextEndpointAgain ==
    /\ status = "running" /\ stack = <<>>
    /\ \E endpoint \in remaining :
         stack' = IF UnderStats(endpoint) THEN Tasks(endpoint, Resolve(Paths[endpoint])) ELSE <<>>
    /\ UNCHANGED <<doc, specs, remaining, status>>

\* The next endpoint of the map: it is skipped, or its path item leads nowhere
\* and ends the run, or its schema, if wanted, is to be collected.
NextEndpoint ==
    /\ status = "running" /\ stack = <<>>
    /\ \E endpoint \in remaining :
         LET items == Resolve(Paths[endpoint])
         IN  /\ remaining' = remaining \ {endpoint}
             /\ stack' = IF UnderStats(endpoint) THEN Tasks(endpoint, items) ELSE <<>>
             /\ status' = IF UnderStats(endpoint) /\ items = <<>> THEN "error" ELSE status
    /\ UNCHANGED <<doc, specs>>

Task == Head(stack)
Visiting == status = "running" /\ stack # <<>>
Resolved == Resolve(Task.schema)
IsAllOf == Resolved # <<>> /\ "allOf" \in DOMAIN Resolved[1]
IsPlain == Resolved # <<>> /\ "allOf" \notin DOMAIN Resolved[1]
Properties ==
    IF IsPlain /\ IsObject(Resolved[1]) /\ "props" \in DOMAIN Resolved[1]
      THEN Resolved[1].props ELSE <<>>

\* A reference that leads nowhere ends the run.
VisitBroken ==
    /\ Visiting /\ Resolved = <<>>
    /\ status' = "error"
    /\ UNCHANGED <<doc, remaining, stack, specs>>

\* allOf: each part in turn, under the same path.
VisitAllOf ==
    /\ Visiting /\ IsAllOf
    /\ stack' = [i \in DOMAIN Resolved[1].allOf |-> [Task EXCEPT !.schema = Resolved[1].allOf[i]]] \o Tail(stack)
    /\ UNCHANGED <<doc, remaining, specs, status>>

\* A number or boolean is a metric, except took at the top.
VisitNumber ==
    /\ Visiting /\ IsPlain /\ Numeric(Resolved[1])
    /\ specs' = IF Task.path = <<"took">> THEN specs
                ELSE Append(specs, Found(Task.endpoint, Task.path, NoLabel))
    /\ stack' = Tail(stack)
    /\ UNCHANGED <<doc, remaining, status>>

\* An object of numbers under a known name is one metric with a label.
VisitLabelled ==
    /\ Visiting /\ Labelled(Task.path, Properties)
    /\ specs' = Append(specs, Found(Task.endpoint, Task.path, LabelFor(Task.path)))
    /\ stack' = Tail(stack)
    /\ UNCHANGED <<doc, remaining, status>>

\* Mutant: the object is visited again after its members.
VisitPropertiesAgain ==
    /\ Visiting /\ Properties # <<>> /\ ~Labelled(Task.path, Properties)
    /\ LET keys == Arranged(DOMAIN Properties, Order)
       IN  stack' = [i \in DOMAIN keys |-> [Task EXCEPT !.path = Append(@, keys[i]),
                                                        !.schema = Properties[keys[i]]]] \o stack
    /\ UNCHANGED <<doc, remaining, specs, status>>

\* Any other object: its members, in order.
VisitProperties ==
    /\ Visiting /\ Properties # <<>> /\ ~Labelled(Task.path, Properties)
    /\ LET keys == Arranged(DOMAIN Properties, Order)
       IN  stack' = [i \in DOMAIN keys |-> [Task EXCEPT !.path = Append(@, keys[i]),
                                                        !.schema = Properties[keys[i]]]] \o Tail(stack)
    /\ UNCHANGED <<doc, remaining, specs, status>>

\* Arrays, strings, empty objects, and what a second reference hides: nothing.
VisitOther ==
    /\ Visiting /\ IsPlain /\ ~Numeric(Resolved[1]) /\ Properties = <<>>
    /\ stack' = Tail(stack)
    /\ UNCHANGED <<doc, remaining, specs, status>>

\* Two sequences of parts, in the order of their joined texts: no part holds a
\* character before the separator.
PathBefore(p, q) ==
    \E i \in 1..Len(q) :
        /\ i <= Len(p) + 1 /\ \A j \in 1..(i - 1) : p[j] = q[j]
        /\ i = Len(p) + 1 \/ (p[i] # q[i] /\ Before(p[i], q[i]))

\* Mutant: the endpoints are not sorted.
SortedByPath(a, b) == PathBefore(a.path, b.path)

\* The order of the table: endpoint, then path, then label.
Sorted(a, b) ==
    \/ PathBefore(a.endpoint, b.endpoint)
    \/ a.endpoint = b.endpoint /\ PathBefore(a.path, b.path)
    \/ a.endpoint = b.endpoint /\ a.path = b.path /\ Before(a.label, b.label)

\* Positions of the rows in that order; rows that agree in all three are equal.
Ahead ==
    {pair \in (DOMAIN specs) \X (DOMAIN specs) :
        LET a == specs[pair[1]]
            b == specs[pair[2]]
        IN  Sorted(a, b) \/ (~Sorted(b, a) /\ pair[1] < pair[2])}

\* All endpoints done: sort; main refuses to write an empty table.
Finish ==
    /\ status = "running" /\ stack = <<>> /\ remaining = {}
    /\ LET from == Arranged(DOMAIN specs, Ahead)
       IN  specs' = [n \in DOMAIN from |-> specs[from[n]]]
    /\ status' = IF specs = <<>> THEN "empty" ELSE "ok"
    /\ UNCHANGED <<doc, remaining, stack>>

Next ==
    \/ NextEndpoint \/ VisitBroken \/ VisitAllOf \/ VisitNumber
    \/ VisitLabelled \/ VisitProperties \/ VisitOther \/ Finish

Spec == Init /\ [][Next]_vars

-----------------------------------------------------------------------------
(* What documents mean                                                     *)

\* Where a reference leads that names its file.
Leads(d, ref) == ref.file \in DOMAIN d.files /\ ref.at \in DOMAIN d.files[ref.file]
Target(d, value) == IF IsRef(value) THEN d.files[value.ref.file][value.ref.at] ELSE value

StatsOf(d) == {endpoint \in DOMAIN d.paths : UnderStats(endpoint)}

\* Documents the generator reads as they are meant: references name their file and
\* lead to something that is not itself a reference, and what has members is an object.
Qualified(d) ==
    /\ \A value \in d.schemas \cup {d.paths[e] : e \in StatsOf(d)} :
          IsRef(value) => FileOf(value.ref) = value.ref.file /\ Leads(d, value.ref) /\ ~IsRef(Target(d, value))
    /\ \A schema \in d.schemas : "props" \in DOMAIN schema => IsObject(schema)

Leaf(path, label) == [path |-> path, label |-> label]
Under(key, leaves) == {Leaf(<<key>> \o leaf.path, leaf.label) : leaf \in leaves}

\* What a schema says, by what its parts say: the numbers in it, by path; an
\* object of numbers under a known name is one number with a label.
Says(d, schema, label) ==
    IF IsRef(schema) THEN d.meaning[Target(d, schema)][label]
    ELSE IF "allOf" \in DOMAIN schema
      THEN UNION {d.meaning[schema.allOf[i]][label] : i \in DOMAIN schema.allOf}
    ELSE IF "props" \notin DOMAIN schema
      THEN IF Numeric(schema) THEN {Leaf(<<>>, NoLabel)} ELSE {}
    ELSE IF label # NoLabel /\ schema.props # <<>> /\ \A key \in DOMAIN schema.props : Numeric(schema.props[key])
      THEN {Leaf(<<>>, label)}
    ELSE UNION {Under(key, d.meaning[schema.props[key]][LabelFor(<<key>>)]) : key \in DOMAIN schema.props}

\* No two parts of an allOf say the same, where it stands.
Disjoint(d) ==
    \A schema \in d.schemas : "allOf" \in DOMAIN schema =>
        \A i, j \in DOMAIN schema.allOf : \A label \in Labels :
            i # j /\ <<schema, label>> \in d.places =>
                d.meaning[schema.allOf[i]][label] \cap d.meaning[schema.allOf[j]][label] = {}
WellWritten(d) == Qualified(d) /\ Disjoint(d)

\* Where a reference may lead, in the file it names or in the main one.
Reached(d, value) ==
    IF ~IsRef(value) THEN {value}
    ELSE {d.files[file][value.ref.at] :
            file \in {f \in {value.ref.file, Main} : Leads(d, [file |-> f, at |-> value.ref.at])}}

ASSUME OrderAssumption ==
    /\ \A a \in Strings : ~Before(a, a)
    /\ \A a, b \in Strings : a = b \/ Before(a, b) \/ Before(b, a)
    /\ \A a, b, c \in Strings : Before(a, b) /\ Before(b, c) => Before(a, c)
ASSUME StringsAssumption == {"took"} \cup Labels \subseteq Strings

\* The visits to the parts of a schema, or to what is on the stack, by part.
VisitsTo(d, parts) == UNION {{i} \X (1..d.visits[parts[i]]) : i \in DOMAIN parts}

\* References do not form a cycle: a schema takes more visits than its parts.
Acyclic(d) ==
    \A schema \in d.schemas :
        /\ d.visits[schema] \in Nat \ {0}
        /\ \A target \in Reached(d, schema) : d.visits[target] <= d.visits[schema]
        /\ "allOf" \in DOMAIN schema => Cardinality(VisitsTo(d, schema.allOf)) < d.visits[schema]
        /\ "props" \in DOMAIN schema => Cardinality(VisitsTo(d, schema.props)) < d.visits[schema]

\* The shape of documents: their schemas are all that can be reached from a path,
\* and stand under a label where they are the member it is for.
ASSUME DocumentsAssumption ==
    \A d \in {Documents[name] : name \in DOMAIN Documents} :
        /\ DOMAIN d.paths \subseteq Seq(Strings)
        /\ \A e \in StatsOf(d) : \A item \in Reached(d, d.paths[e]) :
              Wanted(item) => item.schema \in d.schemas /\ <<item.schema, NoLabel>> \in d.places
        /\ \A schema \in d.schemas :
              /\ Reached(d, schema) \subseteq d.schemas
              /\ "allOf" \in DOMAIN schema => schema.allOf \in Seq(d.schemas)
              /\ "props" \in DOMAIN schema =>
                    /\ IsFiniteSet(DOMAIN schema.props) /\ DOMAIN schema.props \subseteq Strings
                    /\ \A key \in DOMAIN schema.props : schema.props[key] \in d.schemas
        /\ \A schema \in d.schemas : \A label \in Labels : <<schema, label>> \in d.places =>
              /\ \A target \in Reached(d, schema) : <<target, label>> \in d.places
              /\ "allOf" \in DOMAIN schema =>
                    \A i \in DOMAIN schema.allOf : <<schema.allOf[i], label>> \in d.places
              /\ "props" \in DOMAIN schema =>
                    \A key \in DOMAIN schema.props : <<schema.props[key], LabelFor(<<key>>)>> \in d.places
\* Meaning is a meaning: what a schema says follows from what its parts say.
ASSUME MeaningAssumption ==
    \A d \in {Documents[name] : name \in DOMAIN Documents} : \A schema \in d.schemas : \A label \in Labels :
        /\ d.meaning[schema][label] \subseteq [path : Seq(Strings), label : Labels]
        /\ Qualified(d) => d.meaning[schema][label] = Says(d, schema, label)

\* The rows an endpoint should have; took is left out at the top.
MeantAt(d, endpoint) ==
    LET item == Target(d, d.paths[endpoint])
    IN  IF UnderStats(endpoint) /\ Wanted(item)
          THEN {Found(endpoint, leaf.path, leaf.label) :
                   leaf \in {l \in d.meaning[item.schema][NoLabel] : l.path # <<"took">>}}
          ELSE {}

-----------------------------------------------------------------------------
(* Properties                                                              *)

\* What is found belongs to an endpoint already taken, and what is pending too.
TypeOK ==
    /\ status \in {"running", "ok", "empty", "error"}
    /\ remaining \subseteq DOMAIN Paths
    /\ \A i \in DOMAIN specs : specs[i].endpoint \in DOMAIN Paths \ remaining
    /\ \A i \in DOMAIN stack : stack[i].endpoint \in DOMAIN Paths \ remaining
    /\ status \in {"ok", "empty"} => stack = <<>> /\ remaining = {}

\* From well-written documents the table holds every number under the wanted
\* endpoints, once and in order, whatever the order of the map of paths
\* (main.go:69-207): two runs of the generator agree.
TableIsMeant ==
    status # "running" /\ WellWritten(Documents[doc]) =>
        /\ status # "error"
        /\ ToSet(specs) = UNION {MeantAt(Documents[doc], endpoint) : endpoint \in DOMAIN Paths}
        /\ \A i, j \in DOMAIN specs : i < j => specs[i] # specs[j] /\ ~Sorted(specs[j], specs[i])

\* From a document with the shape of the answers kept as test data, the generator
\* makes the table the exporter is compiled with, row by row (metrics_gen.go:8-160):
\* table, naming and sorting have not drifted from what Pi-hole is known to answer.
TableIsCompiled ==
    status = "ok" /\ doc = PiholeDocument =>
        [i \in DOMAIN specs |-> Row(specs[i].name, "/" \o JoinWith("/", specs[i].endpoint),
                                    specs[i].path, specs[i].label)] = CompiledMetricSpecs

\* No two rows of a table share a name, so that Prometheus takes every series
\* (main.go:383-433); for documents whose field names do not run together, also
\* where sanitize changes a part of the name or drops it.
NamesDistinct ==
    status = "ok" =>
        \A i, j \in DOMAIN specs : i # j => specs[i].name # specs[j].name

\* The visits left before the next endpoint.
VisitsLeft == Cardinality(VisitsTo(Documents[doc], [i \in DOMAIN stack |-> stack[i].schema]))

\* And so it comes to an end: a step ends it, takes an endpoint for good, or
\* uses up one of the visits left, however deep allOf, members and references
\* nest (main.go:128-206).
GeneratorProceeds ==
    [][ Acyclic(Documents[doc]) =>
            /\ status = "running"
            /\ \/ status' # "running"
               \/ remaining' \subseteq remaining /\ remaining' # remaining
               \/ remaining' = remaining /\ VisitsLeft' < VisitsLeft ]_vars
=============================================================================
