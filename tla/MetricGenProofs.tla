-------------------------- MODULE MetricGenProofs --------------------------
(***************************************************************************)
(* Proofs about MetricGen, for any documents whose schemas have a meaning. *)
(***************************************************************************)
EXTENDS MetricGen, FiniteSetTheorems, SequenceTheorems, WellFoundedInduction, TLAPS

-----------------------------------------------------------------------------
(* Sorting                                                                 *)

StrictTotal(set, relation) ==
    /\ \A x \in set : <<x, x>> \notin relation
    /\ \A x, y \in set : x = y \/ <<x, y>> \in relation \/ <<y, x>> \in relation
    /\ \A x, y, z \in set : <<x, y>> \in relation /\ <<y, z>> \in relation => <<x, z>> \in relation

Below(set, relation, x) == {y \in set : <<y, x>> \in relation}

\* Fewer elements are below a smaller one.
LEMMA BelowGrows ==
    ASSUME NEW set, IsFiniteSet(set), NEW relation, StrictTotal(set, relation),
           NEW x \in set, NEW y \in set, <<x, y>> \in relation
    PROVE  Cardinality(Below(set, relation, x)) < Cardinality(Below(set, relation, y))
<1> DEFINE bx == Below(set, relation, x)
           by == Below(set, relation, y)
<1>1. bx \subseteq by /\ x \in by /\ x \notin bx /\ by \subseteq set
  BY DEF StrictTotal, Below
<1> HIDE DEF bx, by
<1>2. IsFiniteSet(by)
  BY <1>1, FS_Subset
<1>3. IsFiniteSet(by \ {x}) /\ Cardinality(by \ {x}) = Cardinality(by) - 1
  BY <1>1, <1>2, FS_RemoveElement
<1>4. bx \subseteq by \ {x}
  BY <1>1
<1>5. Cardinality(bx) <= Cardinality(by \ {x})
  BY <1>3, <1>4, FS_Subset
<1>6. IsFiniteSet(bx) /\ Cardinality(bx) \in Nat /\ Cardinality(by) \in Nat
  BY <1>2, <1>3, <1>4, FS_Subset, FS_CardinalityType
<1>7. Cardinality(bx) < Cardinality(by)
  BY <1>3, <1>5, <1>6
<1> QED
  BY <1>7 DEF bx, by

\* Every position is that of one element.
LEMMA PlacesTaken ==
    ASSUME NEW set, IsFiniteSet(set), NEW relation, StrictTotal(set, relation)
    PROVE  /\ Cardinality(set) \in Nat
           /\ \A x \in set : Cardinality(Below(set, relation, x)) \in 0..(Cardinality(set) - 1)
           /\ \A n \in 0..(Cardinality(set) - 1) : \E x \in set : Cardinality(Below(set, relation, x)) = n
<1> DEFINE N == Cardinality(set)
           place == [x \in set |-> Cardinality(Below(set, relation, x))]
<1>1. N \in Nat
  BY FS_CardinalityType
<1>2. ASSUME NEW x \in set PROVE Cardinality(Below(set, relation, x)) \in 0..(N - 1)
  <2>1. Below(set, relation, x) \subseteq set \ {x}
    BY DEF StrictTotal, Below
  <2>2. IsFiniteSet(set \ {x}) /\ Cardinality(set \ {x}) = N - 1
    BY FS_RemoveElement
  <2>3. IsFiniteSet(Below(set, relation, x)) /\ Cardinality(Below(set, relation, x)) <= Cardinality(set \ {x})
    BY <2>1, <2>2, FS_Subset
  <2>4. Cardinality(Below(set, relation, x)) \in Nat
    BY <2>3, FS_CardinalityType
  <2> QED
    BY <1>1, <2>2, <2>3, <2>4
<1>3. \A x, y \in set : place[x] = place[y] => x = y
  <2>1. \A x \in set : place[x] = Cardinality(Below(set, relation, x))
    OBVIOUS
  <2>2. \A x, y \in set : <<x, y>> \in relation => place[x] < place[y]
    BY <2>1, BelowGrows
  <2>3. \A x \in set : place[x] \in Int
    BY <1>1, <1>2, <2>1
  <2>4. \A x, y \in set : x = y \/ <<x, y>> \in relation \/ <<y, x>> \in relation
    BY DEF StrictTotal
  <2> HIDE DEF place
  <2>5. ASSUME NEW x \in set, NEW y \in set, place[x] = place[y] PROVE x = y
    <3>1. ~(place[x] < place[y]) /\ ~(place[y] < place[x])
      BY <2>3, <2>5
    <3>2. <<x, y>> \notin relation /\ <<y, x>> \notin relation
      BY <2>2, <3>1, Zenon
    <3> QED
      BY <2>4, <3>2, Zenon
  <2> QED
    BY <2>5
<1>4. place \in [set -> 0..(N - 1)]
  BY <1>2
<1>5. place \in Injection(set, 0..(N - 1))
  BY <1>3, <1>4 DEF Injection, IsInjective
<1>6. IsFiniteSet(0..(N - 1)) /\ Cardinality(0..(N - 1)) = N
  <2>1. 0 \in Int /\ N - 1 \in Int
    BY <1>1
  <2>2. IsFiniteSet(0..(N - 1)) /\ Cardinality(0..(N - 1)) = IF 0 > N - 1 THEN 0 ELSE (N - 1) - 0 + 1
    BY <2>1, FS_Interval
  <2> QED
    BY <1>1, <2>2
<1>7. place \in Surjection(set, 0..(N - 1))
  BY <1>5, <1>6, FS_Injection
<1>8. \A n \in 0..(N - 1) : \E x \in set : place[x] = n
  BY <1>7 DEF Surjection
<1> QED
  BY <1>1, <1>2, <1>8

\* Arranged lists the elements of a set, each once, by a strict total order.
LEMMA ArrangedSorts ==
    ASSUME NEW set, IsFiniteSet(set), NEW relation, StrictTotal(set, relation)
    PROVE  /\ Cardinality(set) \in Nat
           /\ Arranged(set, relation) \in [1..Cardinality(set) -> set]
           /\ \A x \in set : \E n \in 1..Cardinality(set) : Arranged(set, relation)[n] = x
           /\ \A m, n \in 1..Cardinality(set) :
                m < n => <<Arranged(set, relation)[m], Arranged(set, relation)[n]>> \in relation
<1> DEFINE N == Cardinality(set)
           B(x) == Cardinality(Below(set, relation, x))
           a == Arranged(set, relation)
<1>1. N \in Nat /\ \A x \in set : B(x) \in 0..(N - 1)
  BY PlacesTaken
<1>2. ASSUME NEW n \in 1..N PROVE a[n] \in set /\ B(a[n]) = n - 1
  <2>1. a[n] = CHOOSE x \in set : B(x) = n - 1
    BY DEF Arranged, Below
  <2>2. n - 1 \in 0..(N - 1)
    BY <1>1
  <2>3. \E x \in set : B(x) = n - 1
    BY <2>2, PlacesTaken
  <2> HIDE DEF B, a
  <2> QED
    BY <2>1, <2>3
<1>3. a \in [1..N -> set]
  <2> DEFINE at(n) == CHOOSE x \in set : Cardinality({y \in set : <<y, x>> \in relation}) = n - 1
  <2>1. a = [n \in 1..N |-> at(n)]
    BY DEF Arranged
  <2> HIDE DEF a, at
  <2>2. \A n \in 1..N : a[n] = at(n)
    BY <2>1
  <2> QED
    BY <1>2, <2>1, <2>2
<1>4. \A x, y \in set : <<x, y>> \in relation => B(x) < B(y)
  BY BelowGrows
<1> HIDE DEF B, a, N
<1>0. \A x, y \in set : x = y \/ <<x, y>> \in relation \/ <<y, x>> \in relation
  BY DEF StrictTotal
<1>5. ASSUME NEW x \in set, NEW y \in set, B(x) = B(y) PROVE x = y
  <2>1. ~(B(x) < B(y)) /\ ~(B(y) < B(x))
    BY <1>1, <1>5
  <2>2. <<x, y>> \notin relation /\ <<y, x>> \notin relation
    BY <1>4, <2>1, Zenon
  <2> QED
    BY <1>0, <2>2, Zenon
<1>6. ASSUME NEW x \in set PROVE \E n \in 1..N : a[n] = x
  <2>1. B(x) + 1 \in 1..N /\ (B(x) + 1) - 1 = B(x)
    BY <1>1
  <2> QED
    BY <1>2, <1>5, <2>1
<1>7. ASSUME NEW m \in 1..N, NEW n \in 1..N, m < n PROVE <<a[m], a[n]>> \in relation
  <2>1. B(a[m]) < B(a[n]) /\ a[m] \in set /\ a[n] \in set
    BY <1>1, <1>2, <1>7
  <2>2. ~(B(a[n]) < B(a[m])) /\ B(a[m]) # B(a[n])
    BY <1>1, <2>1
  <2> QED
    BY <1>0, <1>4, <2>1, <2>2
<1> QED
  BY <1>1, <1>3, <1>6, <1>7 DEF a, N

-----------------------------------------------------------------------------
(* The order of the table                                                  *)

LEMMA LeastOf ==
    ASSUME NEW T, T \subseteq Nat, T # {}
    PROVE  \E n \in T : \A m \in T : n <= m
<1> DEFINE R == OpToRel(<, Nat)
<1>1. IsWellFoundedOn(R, Nat)
  BY NatLessThanWellFounded
<1>2. \A m, n \in Nat : m < n => <<m, n>> \in R
  BY DEF OpToRel
<1> HIDE DEF R
<1>3. PICK n \in T : \A m \in T : ~(<<m, n>> \in R)
  BY <1>1, WFMin
<1>4. \A m \in T : ~(m < n)
  BY <1>2, <1>3
<1> QED
  BY <1>4

\* p comes before q at i.
Differ(p, q, i) ==
    /\ i \in 1..Len(q) /\ i <= Len(p) + 1
    /\ \A j \in 1..(i - 1) : p[j] = q[j]
    /\ i = Len(p) + 1 \/ (p[i] # q[i] /\ Before(p[i], q[i]))

LEMMA DifferSomewhere ==
    ASSUME NEW p, NEW q
    PROVE  PathBefore(p, q) <=> \E i : Differ(p, q, i)
BY DEF PathBefore, Differ

LEMMA PathNotBeforeItself ==
    ASSUME NEW p \in Seq(Strings)
    PROVE  ~PathBefore(p, p)
BY DEF PathBefore

LEMMA PathBeforeTransitive ==
    ASSUME NEW p \in Seq(Strings), NEW q \in Seq(Strings), NEW r \in Seq(Strings),
           PathBefore(p, q), PathBefore(q, r)
    PROVE  PathBefore(p, r)
<1>1. PICK i : Differ(p, q, i)
  BY DifferSomewhere
<1>2. PICK k : Differ(q, r, k)
  BY DifferSomewhere
<1>3. Len(p) \in Nat /\ Len(q) \in Nat /\ Len(r) \in Nat /\ i \in Nat /\ k \in Nat
  BY <1>1, <1>2 DEF Differ
<1>4. CASE i < k
  <2>1. i \in 1..Len(r) /\ i \in 1..(k - 1) /\ i <= Len(p) + 1
    BY <1>1, <1>2, <1>3, <1>4 DEF Differ
  <2>2. \A j \in 1..(i - 1) : p[j] = r[j]
    BY <1>1, <1>2, <1>3, <1>4 DEF Differ
  <2>3. q[i] = r[i]
    BY <1>2, <2>1 DEF Differ
  <2>4. Differ(p, r, i)
    BY <1>1, <2>1, <2>2, <2>3 DEF Differ
  <2> QED
    BY <2>4, DifferSomewhere
<1>5. CASE i = k
  <2>1. i \in 1..Len(r) /\ i \in 1..Len(q) /\ i <= Len(p) + 1
    BY <1>1, <1>2, <1>5 DEF Differ
  <2>2. \A j \in 1..(i - 1) : p[j] = r[j]
    BY <1>1, <1>2, <1>5 DEF Differ
  <2>3. q[i] # r[i] /\ Before(q[i], r[i])
    BY <1>2, <1>3, <1>5, <2>1 DEF Differ
  <2>4. ASSUME i # Len(p) + 1 PROVE p[i] # r[i] /\ Before(p[i], r[i])
    <3>1. i \in 1..Len(p) /\ p[i] \in Strings /\ q[i] \in Strings /\ r[i] \in Strings
      BY <1>3, <2>1, <2>4, ElementOfSeq
    <3>2. Before(p[i], q[i])
      BY <1>1, <2>4 DEF Differ
    <3> QED
      BY <2>3, <3>1, <3>2, OrderAssumption
  <2>5. Differ(p, r, i)
    BY <2>1, <2>2, <2>4 DEF Differ
  <2> QED
    BY <2>5, DifferSomewhere
<1>6. CASE k < i
  <2>1. k \in 1..Len(r) /\ k \in 1..(i - 1) /\ k <= Len(p) + 1 /\ k # Len(q) + 1
    BY <1>1, <1>2, <1>3, <1>6 DEF Differ
  <2>2. \A j \in 1..(k - 1) : p[j] = r[j]
    BY <1>1, <1>2, <1>3, <1>6 DEF Differ
  <2>3. p[k] = q[k]
    BY <1>1, <2>1 DEF Differ
  <2>4. Differ(p, r, k)
    BY <1>2, <2>1, <2>2, <2>3 DEF Differ
  <2> QED
    BY <2>4, DifferSomewhere
<1> QED
  BY <1>3, <1>4, <1>5, <1>6

LEMMA PathBeforeTotal ==
    ASSUME NEW p \in Seq(Strings), NEW q \in Seq(Strings), p # q
    PROVE  PathBefore(p, q) \/ PathBefore(q, p)
<1> DEFINE D == {i \in 1..(Len(p) + 1) : i = Len(p) + 1 \/ i = Len(q) + 1 \/ p[i] # q[i]}
<1>1. Len(p) \in Nat /\ Len(q) \in Nat
  OBVIOUS
<1>2. D \subseteq Nat /\ Len(p) + 1 \in D
  BY <1>1
<1>3. PICK i \in D : \A j \in D : i <= j
  BY <1>2, LeastOf
<1>4. i \in 1..(Len(p) + 1) /\ i \in Nat
  BY <1>2, <1>3
<1>5. \A j \in 1..(i - 1) : j # Len(q) + 1 /\ p[j] = q[j]
  BY <1>1, <1>3, <1>4
<1>6. i <= Len(q) + 1
  BY <1>1, <1>4, <1>5
<1>7. CASE i = Len(p) + 1 /\ i = Len(q) + 1
  <2>1. Len(p) = Len(q) /\ \A j \in 1..Len(p) : p[j] = q[j]
    BY <1>1, <1>5, <1>7
  <2>2. p = q
    BY <2>1, SeqEqual
  <2> QED
    BY <2>2
<1>8. CASE i = Len(p) + 1 /\ i # Len(q) + 1
  <2>1. i \in 1..Len(q) /\ i <= Len(p) + 1
    BY <1>1, <1>4, <1>6, <1>8
  <2>2. Differ(p, q, i)
    BY <1>5, <1>8, <2>1 DEF Differ
  <2> QED
    BY <2>2, DifferSomewhere
<1>9. CASE i # Len(p) + 1 /\ i = Len(q) + 1
  <2>1. i \in 1..Len(p) /\ i <= Len(q) + 1
    BY <1>1, <1>4, <1>9
  <2>2. Differ(q, p, i)
    BY <1>5, <1>9, <2>1 DEF Differ
  <2> QED
    BY <2>2, DifferSomewhere
<1>10. CASE i # Len(p) + 1 /\ i # Len(q) + 1
  <2>1. i \in 1..Len(p) /\ i \in 1..Len(q) /\ i <= Len(p) + 1 /\ i <= Len(q) + 1
    BY <1>1, <1>4, <1>6, <1>10
  <2>2. p[i] # q[i] /\ p[i] \in Strings /\ q[i] \in Strings
    BY <1>3, <1>10, <2>1, ElementOfSeq
  <2>3. Before(p[i], q[i]) \/ Before(q[i], p[i])
    BY <2>2, OrderAssumption
  <2>4. Differ(p, q, i) \/ Differ(q, p, i)
    BY <1>5, <2>1, <2>2, <2>3 DEF Differ
  <2> QED
    BY <2>4, DifferSomewhere
<1> QED
  BY <1>7, <1>8, <1>9, <1>10

AnyRow == {Found(endpoint, path, label) : endpoint \in Seq(Strings), path \in Seq(Strings), label \in Labels}

LEMMA FoundFields ==
    ASSUME NEW endpoint, NEW path, NEW label
    PROVE  /\ Found(endpoint, path, label).endpoint = endpoint
           /\ Found(endpoint, path, label).path = path
           /\ Found(endpoint, path, label).label = label
BY DEF Found

LEMMA FoundEqual ==
    ASSUME NEW e, NEW p, NEW k, NEW f, NEW q, NEW l, Found(e, p, k) = Found(f, q, l)
    PROVE  e = f /\ p = q /\ k = l
BY DEF Found

\* A row is its endpoint, path and label.
LEMMA RowFields ==
    ASSUME NEW a \in AnyRow
    PROVE  /\ a.endpoint \in Seq(Strings) /\ a.path \in Seq(Strings)
           /\ a.label \in Labels /\ a.label \in Strings
           /\ a = Found(a.endpoint, a.path, a.label)
<1>1. PICK endpoint \in Seq(Strings), path \in Seq(Strings), label \in Labels : a = Found(endpoint, path, label)
  BY DEF AnyRow
<1>2. a.endpoint = endpoint /\ a.path = path /\ a.label = label
  BY <1>1, FoundFields
<1>3. Labels \subseteq Strings
  BY StringsAssumption
<1> QED
  BY <1>1, <1>2, <1>3

\* The table's order is a strict total order of rows.
LEMMA RowNotBeforeItself ==
    ASSUME NEW a \in AnyRow
    PROVE  ~Sorted(a, a)
BY RowFields, PathNotBeforeItself, OrderAssumption DEF Sorted

LEMMA RowsTransitive ==
    ASSUME NEW a \in AnyRow, NEW b \in AnyRow, NEW c \in AnyRow, Sorted(a, b), Sorted(b, c)
    PROVE  Sorted(a, c)
<1>1. /\ PathBefore(a.endpoint, b.endpoint) /\ PathBefore(b.endpoint, c.endpoint) => PathBefore(a.endpoint, c.endpoint)
      /\ PathBefore(a.path, b.path) /\ PathBefore(b.path, c.path) => PathBefore(a.path, c.path)
  BY RowFields, PathBeforeTransitive
<1>2. Before(a.label, b.label) /\ Before(b.label, c.label) => Before(a.label, c.label)
  BY RowFields, OrderAssumption
<1> QED
  BY <1>1, <1>2, Zenon DEF Sorted

LEMMA RowsTotal ==
    ASSUME NEW a \in AnyRow, NEW b \in AnyRow, a # b
    PROVE  Sorted(a, b) \/ Sorted(b, a)
<1>1. ~(a.endpoint = b.endpoint /\ a.path = b.path /\ a.label = b.label)
  BY RowFields
<1>2. /\ a.endpoint = b.endpoint \/ PathBefore(a.endpoint, b.endpoint) \/ PathBefore(b.endpoint, a.endpoint)
      /\ a.path = b.path \/ PathBefore(a.path, b.path) \/ PathBefore(b.path, a.path)
  BY RowFields, PathBeforeTotal
<1>3. a.label = b.label \/ Before(a.label, b.label) \/ Before(b.label, a.label)
  BY RowFields, OrderAssumption
<1> QED
  BY <1>1, <1>2, <1>3, Zenon DEF Sorted

LEMMA AheadTotal ==
    ASSUME specs \in Seq(AnyRow)
    PROVE  StrictTotal(DOMAIN specs, Ahead)
<1>1. \A i \in DOMAIN specs : i \in Nat /\ specs[i] \in AnyRow
  OBVIOUS
<1>2. \A i, j \in DOMAIN specs : <<i, j>> \in Ahead <=>
        Sorted(specs[i], specs[j]) \/ (~Sorted(specs[j], specs[i]) /\ i < j)
  BY DEF Ahead
<1>3. \A i, j \in DOMAIN specs : ~Sorted(specs[i], specs[j]) /\ ~Sorted(specs[j], specs[i]) => specs[i] = specs[j]
  BY <1>1, RowsTotal
<1>4. \A i, j \in DOMAIN specs : <<i, j>> \in Ahead <=>
        Sorted(specs[i], specs[j]) \/ (specs[i] = specs[j] /\ i < j)
  BY <1>1, <1>2, <1>3, RowNotBeforeItself
<1>5. ASSUME NEW i \in DOMAIN specs PROVE <<i, i>> \notin Ahead
  BY <1>1, <1>2, RowNotBeforeItself
<1>6. ASSUME NEW i \in DOMAIN specs, NEW j \in DOMAIN specs PROVE i = j \/ <<i, j>> \in Ahead \/ <<j, i>> \in Ahead
  <2>1. i = j \/ i < j \/ j < i
    BY <1>1
  <2> QED
    BY <1>3, <1>4, <2>1
<1>7. ASSUME NEW i \in DOMAIN specs, NEW j \in DOMAIN specs, NEW k \in DOMAIN specs, <<i, j>> \in Ahead, <<j, k>> \in Ahead
      PROVE  <<i, k>> \in Ahead
  <2>1. i < j /\ j < k => i < k
    BY <1>1
  <2>2. Sorted(specs[i], specs[j]) /\ Sorted(specs[j], specs[k]) => Sorted(specs[i], specs[k])
    BY <1>1, RowsTransitive
  <2>3. /\ Sorted(specs[i], specs[j]) \/ (specs[i] = specs[j] /\ i < j)
        /\ Sorted(specs[j], specs[k]) \/ (specs[j] = specs[k] /\ j < k)
    BY <1>4, <1>7, Zenon
  <2>4. Sorted(specs[i], specs[k]) \/ (specs[i] = specs[k] /\ i < k)
    BY <2>1, <2>2, <2>3, Zenon
  <2> QED
    BY <1>4, <2>4, Zenon
<1> QED
  BY <1>5, <1>6, <1>7 DEF StrictTotal

-----------------------------------------------------------------------------
(* Schemas                                                                 *)

AnyDocument == {Documents[name] : name \in DOMAIN Documents}

\* Paths; the provers take these names as they are.
Along(path, rest) == path \o rest
Member(path, key) == Append(path, key)
Leaves(d, schema, path) == d.meaning[schema][LabelFor(path)]
IsFound(row, endpoint, path, label) == path # <<"took">> /\ row = Found(endpoint, path, label)

\* The rows that a schema gives at a path of an endpoint.
Gives(d, endpoint, path, schema) ==
    {Found(endpoint, Along(path, leaf.path), leaf.label) :
        leaf \in {l \in Leaves(d, schema, path) : Along(path, l.path) # <<"took">>}}

LEMMA LabelForTyped ==
    ASSUME NEW path
    PROVE  LabelFor(path) \in Labels
BY DEF LabelFor, Labels

LEMMA MeaningTyped ==
    ASSUME NEW d \in AnyDocument, NEW schema \in d.schemas, NEW label \in Labels
    PROVE  \A leaf \in d.meaning[schema][label] :
              leaf.path \in Seq(Strings) /\ leaf.label \in Labels /\ leaf = Leaf(leaf.path, leaf.label)
<1>1. d.meaning[schema][label] \subseteq [path : Seq(Strings), label : Labels]
  BY MeaningAssumption DEF AnyDocument
<1>2. \A leaf \in [path : Seq(Strings), label : Labels] :
         leaf.path \in Seq(Strings) /\ leaf.label \in Labels /\ leaf = Leaf(leaf.path, leaf.label)
  BY DEF Leaf
<1> QED
  BY <1>1, <1>2

LEMMA MeaningSays ==
    ASSUME NEW d \in AnyDocument, Qualified(d), NEW schema \in d.schemas, NEW label \in Labels
    PROVE  d.meaning[schema][label] = Says(d, schema, label)
BY MeaningAssumption DEF AnyDocument

LEMMA PartsTyped ==
    ASSUME NEW d \in AnyDocument, NEW schema \in d.schemas
    PROVE  /\ Reached(d, schema) \subseteq d.schemas
           /\ "allOf" \in DOMAIN schema => schema.allOf \in Seq(d.schemas)
           /\ "props" \in DOMAIN schema =>
                 /\ IsFiniteSet(DOMAIN schema.props) /\ DOMAIN schema.props \subseteq Strings
                 /\ \A key \in DOMAIN schema.props : schema.props[key] \in d.schemas
BY DocumentsAssumption DEF AnyDocument

\* A schema that may be visited at a path, and so its parts.
Stands(d, schema, path) == <<schema, LabelFor(path)>> \in d.places

LEMMA PartsStand ==
    ASSUME NEW d \in AnyDocument, NEW schema \in d.schemas, NEW path, Stands(d, schema, path)
    PROVE  /\ \A target \in Reached(d, schema) : Stands(d, target, path)
           /\ "allOf" \in DOMAIN schema => \A i \in DOMAIN schema.allOf : Stands(d, schema.allOf[i], path)
           /\ "props" \in DOMAIN schema =>
                 \A key \in DOMAIN schema.props : <<schema.props[key], LabelFor(<<key>>)>> \in d.places
BY DocumentsAssumption, LabelForTyped DEF AnyDocument, Stands

LEMMA GivesReference ==
    ASSUME NEW d \in AnyDocument, Qualified(d), NEW endpoint, NEW path, NEW schema \in d.schemas
    PROVE  Gives(d, endpoint, path, schema) = Gives(d, endpoint, path, Target(d, schema))
<1>1. Leaves(d, schema, path) = Leaves(d, Target(d, schema), path)
  <2>1. CASE IsRef(schema)
    BY <2>1, MeaningSays, LabelForTyped DEF Says, Leaves
  <2>2. CASE ~IsRef(schema)
    BY <2>2 DEF Target
  <2> QED
    BY <2>1, <2>2
<1> QED
  BY <1>1 DEF Gives

LEMMA RowGiven ==
    ASSUME NEW d, NEW endpoint, NEW path, NEW schema, NEW row
    PROVE  row \in Gives(d, endpoint, path, schema) <=>
              \E leaf \in Leaves(d, schema, path) : IsFound(row, endpoint, Along(path, leaf.path), leaf.label)
BY DEF Gives, IsFound

\* Two leaves that give the same row are the same.
LEMMA SameRowSameLeaf ==
    ASSUME NEW endpoint, NEW path \in Seq(Strings), NEW p \in Seq(Strings), NEW q \in Seq(Strings), NEW k, NEW l,
           Found(endpoint, Along(path, p), k) = Found(endpoint, Along(path, q), l)
    PROVE  p = q /\ k = l
<1>1. Along(path, p) = Along(path, q) /\ k = l
  BY FoundEqual
<1>2. \A S : \A s, t, v \in Seq(S) : s \o t = s \o v => t = v
  BY ConcatSimplifications, Zenon
<1> QED
  BY <1>1, <1>2 DEF Along

LEMMA GivesAllOf ==
    ASSUME NEW d \in AnyDocument, Qualified(d), NEW endpoint, NEW path \in Seq(Strings), NEW schema \in d.schemas,
           Stands(d, schema, path), ~IsRef(schema), "allOf" \in DOMAIN schema
    PROVE  /\ Gives(d, endpoint, path, schema) =
                UNION {Gives(d, endpoint, path, schema.allOf[i]) : i \in DOMAIN schema.allOf}
           /\ Disjoint(d) => \A i, j \in DOMAIN schema.allOf :
                i # j => Gives(d, endpoint, path, schema.allOf[i]) \cap Gives(d, endpoint, path, schema.allOf[j]) = {}
<1> DEFINE label == LabelFor(path)
           says(i) == Leaves(d, schema.allOf[i], path)
<1>1. label \in Labels
  BY LabelForTyped
<1>2. Leaves(d, schema, path) = UNION {says(i) : i \in DOMAIN schema.allOf}
  BY <1>1, MeaningSays DEF Says, Leaves
<1>3. \A i \in DOMAIN schema.allOf : schema.allOf[i] \in d.schemas
  BY PartsTyped
<1>4. \A i \in DOMAIN schema.allOf : \A leaf \in says(i) :
         leaf.path \in Seq(Strings) /\ leaf = Leaf(leaf.path, leaf.label)
  BY <1>1, <1>3, MeaningTyped DEF Leaves
<1>5. ASSUME NEW row
      PROVE  row \in Gives(d, endpoint, path, schema) <=>
                \E i \in DOMAIN schema.allOf : row \in Gives(d, endpoint, path, schema.allOf[i])
  <2> DEFINE Gave(leaf) == IsFound(row, endpoint, Along(path, leaf.path), leaf.label)
  <2>1. row \in Gives(d, endpoint, path, schema) <=> \E leaf \in UNION {says(i) : i \in DOMAIN schema.allOf} : Gave(leaf)
    BY <1>2, RowGiven
  <2>2. \A i : row \in Gives(d, endpoint, path, schema.allOf[i]) <=> \E leaf \in says(i) : Gave(leaf)
    BY RowGiven
  <2> HIDE DEF label, says, Gave
  <2> QED
    BY <2>1, <2>2
<1>6. ASSUME Disjoint(d), NEW i \in DOMAIN schema.allOf, NEW j \in DOMAIN schema.allOf, i # j,
             NEW row \in Gives(d, endpoint, path, schema.allOf[i]), row \in Gives(d, endpoint, path, schema.allOf[j])
      PROVE  FALSE
  <2>1. PICK k \in says(i) : row = Found(endpoint, Along(path, k.path), k.label)
    BY <1>6, RowGiven DEF IsFound
  <2>2. PICK l \in says(j) : row = Found(endpoint, Along(path, l.path), l.label)
    BY <1>6, RowGiven DEF IsFound
  <2>3. k.path = l.path /\ k.label = l.label
    <3>1. k.path \in Seq(Strings) /\ l.path \in Seq(Strings)
      BY <1>4
    <3>2. Found(endpoint, Along(path, k.path), k.label) = Found(endpoint, Along(path, l.path), l.label)
      BY <2>1, <2>2
    <3>3. \A p, q \in Seq(Strings) : \A a, b :
             Found(endpoint, Along(path, p), a) = Found(endpoint, Along(path, q), b) => p = q /\ a = b
      BY SameRowSameLeaf
    <3> QED
      BY <3>1, <3>2, <3>3, Zenon
  <2>4. k = l
    BY <1>4, <2>3
  <2>5. says(i) \cap says(j) = {}
    BY <1>1, <1>6 DEF Disjoint, Leaves, Stands
  <2> QED
    BY <2>4, <2>5
<1> QED
  BY <1>5, <1>6

LEMMA GivesNumber ==
    ASSUME NEW d \in AnyDocument, Qualified(d), NEW endpoint, NEW path \in Seq(Strings), NEW schema \in d.schemas,
           ~IsRef(schema), "allOf" \notin DOMAIN schema, Numeric(schema)
    PROVE  Gives(d, endpoint, path, schema) =
             IF path = <<"took">> THEN {} ELSE {Found(endpoint, path, NoLabel)}
<1>1. ~IsObject(schema)
  BY Zenon DEF IsObject, Numeric
<1>2. "props" \notin DOMAIN schema
  BY <1>1 DEF Qualified
<1>3. Leaves(d, schema, path) = {Leaf(<<>>, NoLabel)}
  BY <1>2, MeaningSays, LabelForTyped DEF Says, Leaves
<1>4. PICK leaf : leaf = Leaf(<<>>, NoLabel)
  OBVIOUS
<1>5. leaf.path = <<>> /\ leaf.label = NoLabel
  BY <1>4 DEF Leaf
<1>6. Along(path, leaf.path) = path
  BY <1>5, ConcatEmptySeq DEF Along
<1>7. Leaves(d, schema, path) = {leaf}
  BY <1>3, <1>4
<1>8. ASSUME NEW row
      PROVE  row \in Gives(d, endpoint, path, schema) <=> path # <<"took">> /\ row = Found(endpoint, path, NoLabel)
  <2>1. row \in Gives(d, endpoint, path, schema) <=>
          \E l \in Leaves(d, schema, path) : IsFound(row, endpoint, Along(path, l.path), l.label)
    BY RowGiven, Zenon
  <2> QED
    BY <1>5, <1>6, <1>7, <2>1, Zenon DEF IsFound
<1> QED
  BY <1>8

LEMMA GivesLabelled ==
    ASSUME NEW d \in AnyDocument, Qualified(d), NEW endpoint, NEW path \in Seq(Strings), NEW schema \in d.schemas,
           ~IsRef(schema), "allOf" \notin DOMAIN schema, "props" \in DOMAIN schema, Labelled(path, schema.props)
    PROVE  Gives(d, endpoint, path, schema) = {Found(endpoint, path, LabelFor(path))}
<1>1. Leaves(d, schema, path) = Says(d, schema, LabelFor(path))
  BY MeaningSays, LabelForTyped DEF Leaves
<1>2. Says(d, schema, LabelFor(path)) = {Leaf(<<>>, LabelFor(path))}
  BY DEF Says, Labelled
<1>3. PICK leaf : leaf = Leaf(<<>>, LabelFor(path))
  OBVIOUS
<1>4. path # <<"took">>
  <2>1. LabelFor(path) # NoLabel
    BY DEF Labelled
  <2>2. path # <<>> /\ Last(path) \in DOMAIN LabelNames
    BY <2>1 DEF LabelFor
  <2>3. Last(path) = path[Len(path)]
    BY DEF Last
  <2> QED
    BY <2>2, <2>3 DEF LabelNames
<1>5. leaf.path = <<>> /\ leaf.label = LabelFor(path)
  BY <1>3 DEF Leaf
<1>6. Along(path, leaf.path) = path
  BY <1>5, ConcatEmptySeq DEF Along
<1>7. Leaves(d, schema, path) = {leaf}
  BY <1>1, <1>2, <1>3
<1>8. ASSUME NEW row
      PROVE  row \in Gives(d, endpoint, path, schema) <=> row = Found(endpoint, path, LabelFor(path))
  <2>1. row \in Gives(d, endpoint, path, schema) <=>
          \E l \in Leaves(d, schema, path) : IsFound(row, endpoint, Along(path, l.path), l.label)
    BY RowGiven, Zenon
  <2> QED
    BY <1>4, <1>5, <1>6, <1>7, <2>1, Zenon DEF IsFound
<1> QED
  BY <1>8

LEMMA GivesNothing ==
    ASSUME NEW d \in AnyDocument, Qualified(d), NEW endpoint, NEW path \in Seq(Strings), NEW schema \in d.schemas,
           ~IsRef(schema), "allOf" \notin DOMAIN schema, ~Numeric(schema),
           "props" \notin DOMAIN schema \/ schema.props = <<>>
    PROVE  Gives(d, endpoint, path, schema) = {}
<1>1. Leaves(d, schema, path) = Says(d, schema, LabelFor(path))
  BY MeaningSays, LabelForTyped DEF Leaves
<1>2. Says(d, schema, LabelFor(path)) = {}
  <2>1. CASE "props" \notin DOMAIN schema
    BY <2>1 DEF Says
  <2>2. CASE "props" \in DOMAIN schema
    <3>1. schema.props = <<>> /\ DOMAIN schema.props = {}
      BY <2>2
    <3> QED
      BY <2>2, <3>1 DEF Says
  <2> QED
    BY <2>1, <2>2
<1>3. \A row : row \notin Gives(d, endpoint, path, schema)
  BY <1>1, <1>2, RowGiven
<1> QED
  BY <1>3

\* A member adds its key to the path.
LEMMA PathOfMember ==
    ASSUME NEW path \in Seq(Strings), NEW key \in Strings
    PROVE  /\ Member(path, key) \in Seq(Strings)
           /\ LabelFor(Member(path, key)) = LabelFor(<<key>>)
           /\ \A p \in Seq(Strings) : Along(path, <<key>> \o p) = Along(Member(path, key), p)
           /\ \A p \in Seq(Strings) : Along(Member(path, key), p)[Len(path) + 1] = key
<1> DEFINE here == Append(path, key)
<1>1. here \in Seq(Strings) /\ here # <<>> /\ Last(here) = key
  BY DEF Last
<1>2. <<key>> # <<>> /\ Last(<<key>>) = key
  BY DEF Last
<1>3. LabelFor(here) = LabelFor(<<key>>)
  BY <1>1, <1>2, Zenon DEF LabelFor
<1>4. ASSUME NEW p \in Seq(Strings) PROVE path \o (<<key>> \o p) = here \o p /\ (here \o p)[Len(path) + 1] = key
  <2>1. <<key>> \in Seq(Strings) /\ here = path \o <<key>>
    OBVIOUS
  <2>2. (path \o <<key>>) \o p = path \o (<<key>> \o p)
    BY <2>1, ConcatAssociative
  <2>3. (here \o p)[Len(path) + 1] = key
    OBVIOUS
  <2> QED
    BY <2>1, <2>2, <2>3, Zenon
<1> QED
  BY <1>1, <1>3, <1>4 DEF Along, Member

LEMMA GivesProperties ==
    ASSUME NEW d \in AnyDocument, Qualified(d), NEW endpoint, NEW path \in Seq(Strings), NEW schema \in d.schemas,
           ~IsRef(schema), "allOf" \notin DOMAIN schema, "props" \in DOMAIN schema,
           schema.props # <<>>, ~Labelled(path, schema.props)
    PROVE  /\ Gives(d, endpoint, path, schema) =
                UNION {Gives(d, endpoint, Member(path, key), schema.props[key]) : key \in DOMAIN schema.props}
           /\ \A j, k \in DOMAIN schema.props : j # k =>
                Gives(d, endpoint, Member(path, j), schema.props[j])
                  \cap Gives(d, endpoint, Member(path, k), schema.props[k]) = {}
<1> DEFINE props == schema.props
           keys == DOMAIN props
           part(key) == d.meaning[props[key]][LabelFor(<<key>>)]
<1>1. \A key \in keys : key \in Strings /\ props[key] \in d.schemas
  BY PartsTyped
<1>2. \A key \in keys : \A leaf \in part(key) : leaf.path \in Seq(Strings)
  BY <1>1, LabelForTyped, MeaningTyped
<1>3. Leaves(d, schema, path) = UNION {Under(key, part(key)) : key \in keys}
  <2>1. Leaves(d, schema, path) = Says(d, schema, LabelFor(path))
    BY MeaningSays, LabelForTyped DEF Leaves
  <2>2. Says(d, schema, LabelFor(path)) = UNION {Under(key, part(key)) : key \in keys}
    BY Zenon DEF Says, Labelled
  <2> QED
    BY <2>1, <2>2
<1>4. \A key : \A leaf : leaf \in Under(key, part(key)) <=>
         \E l \in part(key) : leaf = Leaf(<<key>> \o l.path, l.label)
  BY DEF Under
<1>5. \A p, l : Leaf(p, l).path = p /\ Leaf(p, l).label = l
  BY DEF Leaf
<1>6. ASSUME NEW row, NEW key \in keys
      PROVE  row \in Gives(d, endpoint, Member(path, key), props[key]) <=>
                \E leaf \in Under(key, part(key)) : IsFound(row, endpoint, Along(path, leaf.path), leaf.label)
  <2>1. LabelFor(Member(path, key)) = LabelFor(<<key>>)
    BY <1>1, PathOfMember
  <2>2. /\ part(key) = Leaves(d, props[key], Member(path, key))
        /\ row \in Gives(d, endpoint, Member(path, key), props[key]) <=>
             \E l \in Leaves(d, props[key], Member(path, key)) :
                IsFound(row, endpoint, Along(Member(path, key), l.path), l.label)
    BY <2>1, RowGiven, Zenon DEF Leaves
  <2>3. \A l \in part(key) : Along(path, <<key>> \o l.path) = Along(Member(path, key), l.path)
    BY <1>1, <1>2, PathOfMember
  <2> HIDE DEF part, keys, props
  <2>4. \A l \in part(key) : /\ Leaf(<<key>> \o l.path, l.label) \in Under(key, part(key))
                             /\ Along(path, Leaf(<<key>> \o l.path, l.label).path) = Along(Member(path, key), l.path)
                             /\ Leaf(<<key>> \o l.path, l.label).label = l.label
    BY <1>4, <1>5, <2>3, Zenon
  <2>5. ASSUME NEW leaf \in Under(key, part(key))
        PROVE  \E l \in part(key) : Along(path, leaf.path) = Along(Member(path, key), l.path) /\ leaf.label = l.label
    <3>1. PICK l \in part(key) : leaf = Leaf(<<key>> \o l.path, l.label)
      BY <1>4
    <3> QED
      BY <2>4, <3>1, Zenon
  <2>6. ASSUME NEW l \in part(key), IsFound(row, endpoint, Along(Member(path, key), l.path), l.label)
        PROVE  \E leaf \in Under(key, part(key)) : IsFound(row, endpoint, Along(path, leaf.path), leaf.label)
    BY <2>4, <2>6, Zenon
  <2>7. ASSUME NEW leaf \in Under(key, part(key)), IsFound(row, endpoint, Along(path, leaf.path), leaf.label)
        PROVE  \E l \in part(key) : IsFound(row, endpoint, Along(Member(path, key), l.path), l.label)
    BY <2>5, <2>7, Zenon
  <2> QED
    BY <2>2, <2>6, <2>7, Zenon
<1>7. ASSUME NEW row
      PROVE  row \in Gives(d, endpoint, path, schema) <=>
                \E key \in keys : row \in Gives(d, endpoint, Member(path, key), props[key])
  <2>1. row \in Gives(d, endpoint, path, schema) <=>
          \E leaf \in UNION {Under(key, part(key)) : key \in keys} : IsFound(row, endpoint, Along(path, leaf.path), leaf.label)
    BY <1>3, RowGiven
  <2> HIDE DEF part, keys, props
  <2> QED
    BY <1>6, <2>1, Zenon
<1>8. ASSUME NEW j \in keys, NEW k \in keys, j # k,
             NEW row \in Gives(d, endpoint, Member(path, j), props[j]),
             row \in Gives(d, endpoint, Member(path, k), props[k])
      PROVE  FALSE
  <2>1. \A key \in keys : row \in Gives(d, endpoint, Member(path, key), props[key]) =>
           \E p \in Seq(Strings) : row.path = Along(Member(path, key), p)
    <3>1. ASSUME NEW key \in keys, row \in Gives(d, endpoint, Member(path, key), props[key])
          PROVE  \E p \in Seq(Strings) : row.path = Along(Member(path, key), p)
      <4>0. part(key) = Leaves(d, props[key], Member(path, key))
        BY <1>1, PathOfMember DEF Leaves
      <4>1. PICK leaf \in Leaves(d, props[key], Member(path, key)) :
               IsFound(row, endpoint, Along(Member(path, key), leaf.path), leaf.label)
        BY <3>1, RowGiven, Zenon
      <4>2. leaf.path \in Seq(Strings)
        BY <1>2, <4>0
      <4>3. \A p, l : Found(endpoint, p, l).path = p
        BY FoundFields
      <4>4. row.path = Along(Member(path, key), leaf.path)
        BY <4>1, <4>3, Zenon DEF IsFound
      <4> QED
        BY <4>2, <4>4
    <3> QED
      BY <3>1
  <2>2. PICK p \in Seq(Strings) : row.path = Along(Member(path, j), p)
    BY <1>8, <2>1
  <2>3. PICK q \in Seq(Strings) : row.path = Along(Member(path, k), q)
    BY <1>8, <2>1
  <2>4. \A key \in Strings : \A s \in Seq(Strings) : Along(Member(path, key), s)[Len(path) + 1] = key
    BY PathOfMember
  <2>5. j \in Strings /\ k \in Strings
    BY <1>1
  <2>6. row.path[Len(path) + 1] = j /\ row.path[Len(path) + 1] = k
    BY <2>2, <2>3, <2>4, <2>5, Zenon
  <2> QED
    BY <1>8, <2>6
<1> QED
  BY <1>7, <1>8

-----------------------------------------------------------------------------
(* What is pending and what has been found                                 *)

AnyTask(d, taken) ==
    {task \in [endpoint : taken, path : Seq(Strings), schema : d.schemas] : Stands(d, task.schema, task.path)}
RowsIn(d, task) == Gives(d, task.endpoint, task.path, task.schema)

Listed(rows, row) == \E i \in DOMAIN rows : row = rows[i]
Pending(d, tasks, row) == \E i \in DOMAIN tasks : row \in RowsIn(d, tasks[i])
Apart(d, tasks) == \A i, j \in DOMAIN tasks : i # j => RowsIn(d, tasks[i]) \cap RowsIn(d, tasks[j]) = {}

\* Rows found and rows pending are those meant by the endpoints taken, each once.
Accounts(d, taken, tasks, rows) ==
    /\ \A row : Listed(rows, row) \/ Pending(d, tasks, row) <=> \E endpoint \in taken : row \in MeantAt(d, endpoint)
    /\ \A i, j \in DOMAIN rows : i # j => rows[i] # rows[j]
    /\ \A row : ~(Listed(rows, row) /\ Pending(d, tasks, row))
    /\ Apart(d, tasks)

\* Replacing the first task of a stack by its parts.
Replaces(new, tasks, parts) ==
    /\ \A i \in DOMAIN parts : i \in DOMAIN new /\ new[i] = parts[i]
    /\ \A k \in DOMAIN tasks : k # 1 => \E i \in DOMAIN new : new[i] = tasks[k]
    /\ \A i \in DOMAIN new : i \notin DOMAIN parts =>
         /\ (i - Len(parts)) + 1 \in DOMAIN tasks /\ (i - Len(parts)) + 1 # 1
         /\ new[i] = tasks[(i - Len(parts)) + 1]

LEMMA Unfolded ==
    ASSUME NEW T, NEW tasks \in Seq(T), tasks # <<>>, NEW parts \in Seq(T), NEW new, new = parts \o Tail(tasks)
    PROVE  new \in Seq(T) /\ Replaces(new, tasks, parts)
<1> DEFINE rest == Tail(tasks)
<1>1. /\ rest \in Seq(T) /\ Len(tasks) \in Nat /\ Len(rest) = Len(tasks) - 1 /\ Len(parts) \in Nat
      /\ \A i \in 1..Len(rest) : rest[i] = tasks[i + 1]
  BY HeadTailProperties, LenProperties
<1>2. /\ new \in Seq(T) /\ Len(new) = Len(parts) + Len(rest)
      /\ \A i \in 1..Len(parts) + Len(rest) : new[i] = IF i <= Len(parts) THEN parts[i] ELSE rest[i - Len(parts)]
  BY <1>1, ConcatProperties
<1>3. DOMAIN new = 1..Len(new) /\ DOMAIN tasks = 1..Len(tasks) /\ DOMAIN parts = 1..Len(parts)
  BY <1>2, LenProperties
<1> HIDE DEF rest
<1>4. \A i \in DOMAIN parts : i \in DOMAIN new /\ new[i] = parts[i]
  BY <1>1, <1>2, <1>3
<1>5. ASSUME NEW k \in DOMAIN tasks, k # 1 PROVE \E i \in DOMAIN new : new[i] = tasks[k]
  <2>1. k - 1 \in 1..Len(rest) /\ (k - 1) + 1 = k
    BY <1>1, <1>3, <1>5
  <2>2. PICK n : n = Len(parts) + (k - 1)
    OBVIOUS
  <2>3. n \in 1..Len(parts) + Len(rest) /\ ~(n <= Len(parts)) /\ n - Len(parts) = k - 1
    BY <1>1, <1>3, <2>1, <2>2
  <2>4. new[n] = rest[k - 1] /\ rest[k - 1] = tasks[k]
    BY <1>1, <1>2, <2>1, <2>3
  <2>5. n \in DOMAIN new
    BY <1>2, <1>3, <2>3
  <2> QED
    BY <2>4, <2>5
<1>6. ASSUME NEW i \in DOMAIN new, i \notin DOMAIN parts
      PROVE  /\ (i - Len(parts)) + 1 \in DOMAIN tasks /\ (i - Len(parts)) + 1 # 1
             /\ new[i] = tasks[(i - Len(parts)) + 1]
  <2>1. i - Len(parts) \in 1..Len(rest) /\ ~(i <= Len(parts))
    BY <1>1, <1>2, <1>3, <1>6
  <2> QED
    BY <1>1, <1>2, <1>3, <2>1
<1> QED
  BY <1>2, <1>4, <1>5, <1>6 DEF Replaces

\* A task may give way to parts that give the same rows, each once.
LEMMA Unfolds ==
    ASSUME NEW d, NEW taken, NEW T, NEW tasks \in Seq(T), tasks # <<>>, NEW parts \in Seq(T), NEW rows,
           Accounts(d, taken, tasks, rows), Apart(d, parts),
           \A row : row \in RowsIn(d, Head(tasks)) <=> Pending(d, parts, row)
    PROVE  Accounts(d, taken, parts \o Tail(tasks), rows)
<1> DEFINE at(i) == (i - Len(parts)) + 1
<1>0. PICK new : new = parts \o Tail(tasks)
  OBVIOUS
<1>1. /\ \A i \in DOMAIN parts : i \in DOMAIN new /\ new[i] = parts[i]
      /\ \A k \in DOMAIN tasks : k # 1 => \E i \in DOMAIN new : new[i] = tasks[k]
      /\ \A i \in DOMAIN new : i \notin DOMAIN parts => at(i) \in DOMAIN tasks /\ at(i) # 1 /\ new[i] = tasks[at(i)]
  <2>1. Replaces(new, tasks, parts)
    BY <1>0, Unfolded
  <2> QED
    BY <2>1, Zenon DEF Replaces
<1>2. Head(tasks) = tasks[1] /\ 1 \in DOMAIN tasks
  OBVIOUS
<1>3. \A i, j \in DOMAIN new : at(i) = at(j) => i = j
  <2>1. new \in Seq(T) /\ Len(parts) \in Nat
    BY <1>0, Unfolded
  <2>2. \A i \in DOMAIN new : i \in Nat
    BY <2>1
  <2> QED
    BY <2>1, <2>2
<1> HIDE DEF at
<1>4. ASSUME NEW row PROVE Pending(d, tasks, row) <=> Pending(d, new, row)
  <2>1. ASSUME Pending(d, tasks, row) PROVE Pending(d, new, row)
    <3>1. PICK k \in DOMAIN tasks : row \in RowsIn(d, tasks[k])
      BY <2>1 DEF Pending
    <3>2. CASE k = 1
      <4>1. PICK i \in DOMAIN parts : row \in RowsIn(d, parts[i])
        BY <1>2, <3>1, <3>2, Zenon DEF Pending
      <4> QED
        BY <1>1, <4>1, Zenon DEF Pending
    <3>3. CASE k # 1
      BY <1>1, <3>1, <3>3, Zenon DEF Pending
    <3> QED
      BY <3>2, <3>3
  <2>2. ASSUME Pending(d, new, row) PROVE Pending(d, tasks, row)
    <3>1. PICK i \in DOMAIN new : row \in RowsIn(d, new[i])
      BY <2>2 DEF Pending
    <3>2. CASE i \in DOMAIN parts
      <4>1. row \in RowsIn(d, tasks[1])
        BY <1>1, <1>2, <3>1, <3>2, Zenon DEF Pending
      <4> QED
        BY <1>2, <4>1, Zenon DEF Pending
    <3>3. CASE i \notin DOMAIN parts
      BY <1>1, <3>1, <3>3, Zenon DEF Pending
    <3> QED
      BY <3>2, <3>3
  <2> QED
    BY <2>1, <2>2
<1>5. ASSUME NEW i \in DOMAIN new, NEW j \in DOMAIN new, i # j,
             NEW row \in RowsIn(d, new[i]), row \in RowsIn(d, new[j])
      PROVE  FALSE
  <2>1. \A k \in DOMAIN tasks : k # 1 => ~(row \in RowsIn(d, tasks[1]) /\ row \in RowsIn(d, tasks[k]))
    BY <1>2, Zenon DEF Accounts, Apart
  <2>2. \A k \in DOMAIN parts : row \in RowsIn(d, parts[k]) => row \in RowsIn(d, tasks[1])
    BY <1>2, Zenon DEF Pending
  <2>3. CASE i \in DOMAIN parts /\ j \in DOMAIN parts
    <3>1. row \in RowsIn(d, parts[i]) /\ row \in RowsIn(d, parts[j])
      BY <1>1, <1>5, <2>3, Zenon
    <3> QED
      BY <1>5, <2>3, <3>1, Zenon DEF Apart
  <2>4. CASE i \in DOMAIN parts /\ j \notin DOMAIN parts
    <3>1. row \in RowsIn(d, parts[i]) /\ row \in RowsIn(d, tasks[at(j)]) /\ at(j) \in DOMAIN tasks /\ at(j) # 1
      BY <1>1, <1>5, <2>4, Zenon
    <3> QED
      BY <2>1, <2>2, <2>4, <3>1, Zenon
  <2>5. CASE i \notin DOMAIN parts /\ j \in DOMAIN parts
    <3>1. row \in RowsIn(d, parts[j]) /\ row \in RowsIn(d, tasks[at(i)]) /\ at(i) \in DOMAIN tasks /\ at(i) # 1
      BY <1>1, <1>5, <2>5, Zenon
    <3> QED
      BY <2>1, <2>2, <2>5, <3>1, Zenon
  <2>6. CASE i \notin DOMAIN parts /\ j \notin DOMAIN parts
    <3>1. /\ row \in RowsIn(d, tasks[at(i)]) /\ row \in RowsIn(d, tasks[at(j)])
          /\ at(i) \in DOMAIN tasks /\ at(j) \in DOMAIN tasks /\ at(i) # at(j)
      BY <1>1, <1>3, <1>5, <2>6, Zenon
    <3> QED
      BY <3>1, Zenon DEF Accounts, Apart
  <2> QED
    BY <2>3, <2>4, <2>5, <2>6
<1>6. Apart(d, new)
  BY <1>5 DEF Apart
<1> QED
  BY <1>0, <1>4, <1>6, Zenon DEF Accounts

LEMMA Skips ==
    ASSUME NEW d, NEW taken, NEW T, NEW tasks \in Seq(T), tasks # <<>>, NEW rows,
           Accounts(d, taken, tasks, rows), RowsIn(d, Head(tasks)) = {}
    PROVE  Accounts(d, taken, Tail(tasks), rows)
<1>1. <<>> \in Seq(T) /\ <<>> \o Tail(tasks) = Tail(tasks)
  BY HeadTailProperties, ConcatEmptySeq, EmptySeq
<1>2. Apart(d, <<>>) /\ \A row : ~Pending(d, <<>>, row)
  BY DEF Apart, Pending
<1>3. Accounts(d, taken, <<>> \o Tail(tasks), rows)
  BY <1>1, <1>2, Unfolds
<1> QED
  BY <1>1, <1>3

\* A task of one row may give way to that row.
LEMMA Lists ==
    ASSUME NEW d, NEW taken, NEW T, NEW tasks \in Seq(T), tasks # <<>>, NEW R, NEW rows \in Seq(R),
           Accounts(d, taken, tasks, rows), NEW found \in R, RowsIn(d, Head(tasks)) = {found}
    PROVE  Accounts(d, taken, Tail(tasks), Append(rows, found))
<1> DEFINE rest == Tail(tasks)
           more == Append(rows, found)
<1>1. Head(tasks) = tasks[1] /\ 1 \in DOMAIN tasks
  OBVIOUS
<1>2. /\ \A i \in DOMAIN rest : i + 1 \in DOMAIN tasks /\ i + 1 # 1 /\ rest[i] = tasks[i + 1]
      /\ \A k \in DOMAIN tasks : k # 1 => k - 1 \in DOMAIN rest /\ rest[k - 1] = tasks[k]
      /\ \A i, j \in DOMAIN rest : i + 1 = j + 1 => i = j
  <2>1. /\ rest \in Seq(T) /\ Len(tasks) \in Nat /\ Len(rest) = Len(tasks) - 1
        /\ \A i \in 1..Len(rest) : rest[i] = tasks[i + 1]
    BY HeadTailProperties, LenProperties
  <2>2. DOMAIN rest = 1..Len(rest) /\ DOMAIN tasks = 1..Len(tasks)
    BY <2>1, LenProperties
  <2> HIDE DEF rest
  <2> QED
    BY <2>1, <2>2
<1>3. \A row : Listed(more, row) <=> Listed(rows, row) \/ row = found
  <2>1. /\ DOMAIN more = 1..(Len(rows) + 1) /\ DOMAIN rows = 1..Len(rows) /\ Len(rows) \in Nat
        /\ more[Len(rows) + 1] = found /\ \A i \in 1..Len(rows) : more[i] = rows[i]
    OBVIOUS
  <2> HIDE DEF more
  <2> QED
    BY <2>1 DEF Listed
<1>4. ~Listed(rows, found)
  BY <1>1, Zenon DEF Accounts, Pending
<1>5. \A i, j \in DOMAIN more : i # j => more[i] # more[j]
  <2>1. /\ DOMAIN more = 1..(Len(rows) + 1) /\ DOMAIN rows = 1..Len(rows) /\ Len(rows) \in Nat
        /\ more[Len(rows) + 1] = found /\ \A i \in 1..Len(rows) : more[i] = rows[i]
    OBVIOUS
  <2>2. \A i \in DOMAIN rows : rows[i] # found
    BY <1>4 DEF Listed
  <2>3. \A i, j \in DOMAIN rows : i # j => rows[i] # rows[j]
    BY DEF Accounts
  <2> HIDE DEF more
  <2> QED
    BY <2>1, <2>2, <2>3
<1> HIDE DEF rest, more
<1>6. \A row : Pending(d, tasks, row) <=> row = found \/ Pending(d, rest, row)
  <2>1. ASSUME NEW row, Pending(d, tasks, row) PROVE row = found \/ Pending(d, rest, row)
    <3>1. PICK k \in DOMAIN tasks : row \in RowsIn(d, tasks[k])
      BY <2>1 DEF Pending
    <3> QED
      BY <1>1, <1>2, <3>1, Zenon DEF Pending
  <2>2. ASSUME NEW row, Pending(d, rest, row) PROVE Pending(d, tasks, row)
    BY <1>2, <2>2, Zenon DEF Pending
  <2>3. Pending(d, tasks, found)
    BY <1>1, Zenon DEF Pending
  <2> QED
    BY <2>1, <2>2, <2>3
<1>7. Apart(d, rest)
  <2>1. \A i, j \in DOMAIN rest : i # j => RowsIn(d, tasks[i + 1]) \cap RowsIn(d, tasks[j + 1]) = {}
    BY <1>2, Zenon DEF Accounts, Apart
  <2> QED
    BY <1>2, <2>1, Zenon DEF Apart
<1>8. ~Pending(d, rest, found)
  <2>1. \A i \in DOMAIN rest : found \notin RowsIn(d, rest[i])
    <3>1. \A k \in DOMAIN tasks : k # 1 => RowsIn(d, tasks[1]) \cap RowsIn(d, tasks[k]) = {}
      BY <1>1, Zenon DEF Accounts, Apart
    <3>2. found \in RowsIn(d, tasks[1])
      BY <1>1
    <3> QED
      BY <1>2, <3>1, <3>2
  <2> QED
    BY <2>1 DEF Pending
<1>9. \A row : ~(Listed(more, row) /\ Pending(d, rest, row))
  BY <1>3, <1>6, <1>8, Zenon DEF Accounts
<1>10. \A row : Listed(more, row) \/ Pending(d, rest, row) <=> Listed(rows, row) \/ Pending(d, tasks, row)
  BY <1>3, <1>6, Zenon
<1> QED
  BY <1>5, <1>7, <1>9, <1>10, Zenon DEF Accounts, rest, more

-----------------------------------------------------------------------------
(* The inductive invariant                                                 *)

Doc == Documents[doc]

\* What is pending and what has been found belong to endpoints already taken.
Taken == DOMAIN Paths \ remaining
Typed ==
    /\ doc \in DOMAIN Documents
    /\ status \in {"running", "ok", "empty", "error"}
    /\ remaining \subseteq DOMAIN Paths
    /\ stack \in Seq(AnyTask(Doc, Taken))
    /\ specs \in Seq(AnyRow) /\ \A i \in DOMAIN specs : specs[i].endpoint \in Taken
    /\ status \in {"ok", "empty"} => stack = <<>> /\ remaining = {}

Accounted == WellWritten(Doc) => status # "error" /\ Accounts(Doc, Taken, stack, specs)

InTableOrder ==
    status \in {"ok", "empty"} => \A i, j \in DOMAIN specs : i < j => ~Sorted(specs[j], specs[i])

Inv == Typed /\ Accounted /\ InTableOrder

LEMMA DocIsDocument ==
    ASSUME doc \in DOMAIN Documents
    PROVE  Doc \in AnyDocument /\ Paths = Doc.paths /\ Files = Doc.files
BY DEF Doc, AnyDocument, Paths, Files

\* A reference leads somewhere in the document, or nowhere.
LEMMA ResolveReaches ==
    ASSUME doc \in DOMAIN Documents, NEW value, Resolve(value) # <<>>
    PROVE  \E target \in Reached(Doc, value) : Resolve(value) = <<target>>
<1>1. CASE ~IsRef(value)
  BY <1>1 DEF Resolve, Reached
<1>2. CASE IsRef(value)
  <2> DEFINE file == FileOf(value.ref)
             at == value.ref.at
  <2>1. file \in {value.ref.file, Main}
    BY Zenon DEF FileOf
  <2>2. file \in DOMAIN Doc.files /\ at \in DOMAIN Doc.files[file] /\ Resolve(value) = <<Doc.files[file][at]>>
    BY <1>2, DocIsDocument DEF Resolve
  <2> HIDE DEF file
  <2>3. Leads(Doc, [file |-> file, at |-> at])
    BY <2>2 DEF Leads
  <2>4. Doc.files[file][at] \in Reached(Doc, value)
    BY <1>2, <2>1, <2>3 DEF Reached
  <2> QED
    BY <2>2, <2>4
<1> QED
  BY <1>1, <1>2

\* In a well-written document it leads to its target.
LEMMA ResolveMeant ==
    ASSUME doc \in DOMAIN Documents, Qualified(Doc),
           NEW value \in Doc.schemas \cup {Doc.paths[e] : e \in StatsOf(Doc)}
    PROVE  Resolve(value) = <<Target(Doc, value)>> /\ ~IsRef(Target(Doc, value))
<1>1. CASE ~IsRef(value)
  BY <1>1 DEF Resolve, Target
<1>2. CASE IsRef(value)
  <2>1. FileOf(value.ref) = value.ref.file /\ Leads(Doc, value.ref) /\ ~IsRef(Target(Doc, value))
    BY <1>2 DEF Qualified
  <2> QED
    BY <1>2, <2>1, DocIsDocument DEF Resolve, Target, Leads
<1> QED
  BY <1>1, <1>2

-----------------------------------------------------------------------------
(* Steps                                                                   *)

LEMMA InvInit ==
    ASSUME Init
    PROVE  Inv
<1>1. Taken = {}
  BY DEF Init, Taken
<1>2. Typed
  <2>1. <<>> \in Seq(AnyTask(Doc, Taken)) /\ <<>> \in Seq(AnyRow) /\ DOMAIN <<>> = {}
    BY EmptySeq
  <2> QED
    BY <2>1, Zenon DEF Init, Typed
<1>3. Accounts(Doc, Taken, stack, specs)
  BY <1>1 DEF Init, Accounts, Listed, Pending, Apart
<1> QED
  BY <1>2, <1>3 DEF Init, Inv, Accounted, InTableOrder

LEMMA TaskTyped ==
    ASSUME Typed, Visiting
    PROVE  /\ stack # <<>> /\ stack \in Seq(AnyTask(Doc, Taken)) /\ Doc \in AnyDocument
           /\ Head(stack) = Task /\ Task \in AnyTask(Doc, Taken)
           /\ Task.endpoint \in Taken /\ Task.path \in Seq(Strings) /\ Task.schema \in Doc.schemas
           /\ Stands(Doc, Task.schema, Task.path)
           /\ Tail(stack) \in Seq(AnyTask(Doc, Taken))
           /\ Taken \subseteq DOMAIN Doc.paths
<1>1. stack # <<>> /\ stack \in Seq(AnyTask(Doc, Taken)) /\ Doc \in AnyDocument
  BY DocIsDocument DEF Typed, Visiting
<1>2. Task \in AnyTask(Doc, Taken) /\ Tail(stack) \in Seq(AnyTask(Doc, Taken))
  BY <1>1, HeadTailProperties DEF Task
<1>3. /\ Task.endpoint \in Taken /\ Task.path \in Seq(Strings) /\ Task.schema \in Doc.schemas
      /\ Stands(Doc, Task.schema, Task.path)
  BY <1>2 DEF AnyTask
<1>4. Taken \subseteq DOMAIN Doc.paths
  BY DocIsDocument DEF Taken, Typed
<1> QED
  BY <1>1, <1>2, <1>3, <1>4 DEF Task

\* The schema under visit.
LEMMA ResolvedTyped ==
    ASSUME Typed, Visiting, Resolved # <<>>
    PROVE  Resolved[1] \in Doc.schemas /\ Stands(Doc, Resolved[1], Task.path)
<1>1. PICK target \in Reached(Doc, Task.schema) : Resolved = <<target>>
  BY ResolveReaches DEF Typed, Resolved
<1>2. /\ Reached(Doc, Task.schema) \subseteq Doc.schemas
      /\ \A schema \in Reached(Doc, Task.schema) : Stands(Doc, schema, Task.path)
  BY TaskTyped, PartsTyped, PartsStand
<1> QED
  BY <1>1, <1>2

LEMMA ResolvedMeant ==
    ASSUME Typed, Visiting, Qualified(Doc)
    PROVE  /\ Resolved # <<>> /\ ~IsRef(Resolved[1])
           /\ RowsIn(Doc, Head(stack)) = Gives(Doc, Task.endpoint, Task.path, Resolved[1])
<1>1. Resolved = <<Target(Doc, Task.schema)>> /\ ~IsRef(Target(Doc, Task.schema))
  BY TaskTyped, ResolveMeant DEF Typed, Resolved
<1>2. Gives(Doc, Task.endpoint, Task.path, Task.schema) =
        Gives(Doc, Task.endpoint, Task.path, Target(Doc, Task.schema))
  BY TaskTyped, GivesReference
<1>3. Resolved # <<>> /\ Resolved[1] = Target(Doc, Task.schema)
  BY <1>1
<1> QED
  BY <1>1, <1>2, <1>3, TaskTyped DEF RowsIn

\* A visit changes what is pending and what has been found.
LEMMA VisitKeeps ==
    ASSUME Inv, Visiting, UNCHANGED <<doc, remaining, status>>,
           stack' \in Seq(AnyTask(Doc, Taken)),
           specs' \in Seq(AnyRow), \A i \in DOMAIN specs' : specs'[i].endpoint \in Taken,
           WellWritten(Doc) => Accounts(Doc, Taken, stack', specs')
    PROVE  Inv'
<1>1. Doc' = Doc /\ Taken' = Taken /\ Paths' = Paths /\ status' = "running"
  BY DEF Doc, Taken, Paths, Visiting
<1>2. Typed'
  BY <1>1 DEF Inv, Typed
<1>3. Accounted'
  BY <1>1 DEF Accounted
<1>4. InTableOrder'
  BY <1>1 DEF InTableOrder
<1> QED
  BY <1>2, <1>3, <1>4 DEF Inv

\* A visit that finds a row.
LEMMA FindKeeps ==
    ASSUME Inv, Visiting, UNCHANGED <<doc, remaining, status>>, stack' = Tail(stack),
           NEW label \in Labels, specs' = Append(specs, Found(Task.endpoint, Task.path, label)),
           WellWritten(Doc) => RowsIn(Doc, Head(stack)) = {Found(Task.endpoint, Task.path, label)}
    PROVE  Inv'
<1>1. PICK found : found = Found(Task.endpoint, Task.path, label)
  OBVIOUS
<1>2. found \in AnyRow /\ found.endpoint \in Taken
  <2>1. Doc.paths = Paths /\ DOMAIN Doc.paths \subseteq Seq(Strings)
    BY DocIsDocument, DocumentsAssumption DEF Inv, Typed, AnyDocument
  <2>2. Task.endpoint \in Seq(Strings) /\ Task.endpoint \in Taken /\ Task.path \in Seq(Strings)
    BY <2>1, TaskTyped DEF Inv
  <2>3. found.endpoint = Task.endpoint
    BY <1>1, FoundFields
  <2> QED
    BY <1>1, <2>2, <2>3 DEF AnyRow
<1>3. specs \in Seq(AnyRow) /\ specs' = Append(specs, found) /\ \A i \in DOMAIN specs : specs[i].endpoint \in Taken
  BY <1>1 DEF Inv, Typed
<1>4. specs' \in Seq(AnyRow) /\ \A i \in DOMAIN specs' : specs'[i].endpoint \in Taken
  BY <1>2, <1>3
<1>5. ASSUME WellWritten(Doc) PROVE Accounts(Doc, Taken, stack', specs')
  <2>1. Accounts(Doc, Taken, stack, specs) /\ RowsIn(Doc, Head(stack)) = {found}
    BY <1>1, <1>5 DEF Inv, Accounted
  <2>2. stack \in Seq(AnyTask(Doc, Taken)) /\ stack # <<>>
    BY TaskTyped DEF Inv
  <2>3. Accounts(Doc, Taken, Tail(stack), Append(specs, found))
    BY <1>2, <1>3, <2>1, <2>2, Lists
  <2> QED
    BY <1>3, <2>3
<1>6. stack' \in Seq(AnyTask(Doc, Taken))
  BY TaskTyped DEF Inv
<1> QED
  BY <1>4, <1>5, <1>6, VisitKeeps

\* A visit that finds nothing.
LEMMA SkipKeeps ==
    ASSUME Inv, Visiting, UNCHANGED <<doc, remaining, status, specs>>, stack' = Tail(stack),
           WellWritten(Doc) => RowsIn(Doc, Head(stack)) = {}
    PROVE  Inv'
<1>1. stack \in Seq(AnyTask(Doc, Taken)) /\ stack # <<>> /\ stack' \in Seq(AnyTask(Doc, Taken))
  BY TaskTyped DEF Inv
<1>2. ASSUME WellWritten(Doc) PROVE Accounts(Doc, Taken, stack', specs')
  <2>1. Accounts(Doc, Taken, stack, specs) /\ RowsIn(Doc, Head(stack)) = {}
    BY <1>2 DEF Inv, Accounted
  <2>2. Accounts(Doc, Taken, Tail(stack), specs)
    BY <1>1, <2>1, Skips
  <2> QED
    BY <2>2
<1>3. specs' \in Seq(AnyRow) /\ \A i \in DOMAIN specs' : specs'[i].endpoint \in Taken
  BY DEF Inv, Typed
<1> QED
  BY <1>1, <1>2, <1>3, VisitKeeps

\* A visit that leaves the parts of the schema to be visited.
LEMMA UnfoldKeeps ==
    ASSUME Inv, Visiting, UNCHANGED <<doc, remaining, status, specs>>,
           NEW parts \in Seq(AnyTask(Doc, Taken)), stack' = parts \o Tail(stack),
           WellWritten(Doc) => /\ Apart(Doc, parts)
                               /\ \A row : row \in RowsIn(Doc, Head(stack)) <=> Pending(Doc, parts, row)
    PROVE  Inv'
<1>1. stack \in Seq(AnyTask(Doc, Taken)) /\ stack # <<>> /\ stack' \in Seq(AnyTask(Doc, Taken))
  BY TaskTyped, Unfolded DEF Inv
<1>2. ASSUME WellWritten(Doc) PROVE Accounts(Doc, Taken, stack', specs')
  <2>1. Accounts(Doc, Taken, stack, specs)
    BY <1>2 DEF Inv, Accounted
  <2>2. Accounts(Doc, Taken, parts \o Tail(stack), specs)
    BY <1>1, <1>2, <2>1, Unfolds
  <2> QED
    BY <2>2
<1>3. specs' \in Seq(AnyRow) /\ \A i \in DOMAIN specs' : specs'[i].endpoint \in Taken
  BY DEF Inv, Typed
<1> QED
  BY <1>1, <1>2, <1>3, VisitKeeps

LEMMA BrokenKeeps ==
    ASSUME Inv, VisitBroken
    PROVE  Inv'
<1>1. Doc' = Doc /\ Taken' = Taken /\ Paths' = Paths /\ stack' = stack /\ specs' = specs /\ status' = "error"
  BY DEF VisitBroken, Doc, Taken, Paths
<1>2. ~WellWritten(Doc)
  BY ResolvedMeant DEF VisitBroken, Inv, WellWritten
<1>3. Typed'
  BY <1>1 DEF VisitBroken, Inv, Typed
<1>4. Accounted' /\ InTableOrder'
  BY <1>1, <1>2 DEF Accounted, InTableOrder
<1> QED
  BY <1>3, <1>4 DEF Inv

\* A task with another path and schema.
TaskWith(task, path, schema) == [task EXCEPT !.path = path, !.schema = schema]

LEMMA TaskOf ==
    ASSUME NEW d, NEW taken, NEW task \in AnyTask(d, taken), NEW path \in Seq(Strings), NEW schema \in d.schemas,
           Stands(d, schema, path)
    PROVE  /\ TaskWith(task, path, schema) \in AnyTask(d, taken)
           /\ RowsIn(d, TaskWith(task, path, schema)) = Gives(d, task.endpoint, path, schema)
BY DEF AnyTask, RowsIn, TaskWith

\* The parts of an allOf take its place on the stack.
LEMMA PartsPushed ==
    ASSUME Inv, VisitAllOf
    PROVE  \E parts \in Seq(AnyTask(Doc, Taken)) :
              /\ stack' = parts \o Tail(stack) /\ DOMAIN parts = DOMAIN Resolved[1].allOf
              /\ \A i \in DOMAIN parts : /\ Resolved[1].allOf[i] \in Doc.schemas
                                         /\ Stands(Doc, Resolved[1].allOf[i], Task.path)
                                         /\ parts[i] = TaskWith(Task, Task.path, Resolved[1].allOf[i])
<1> DEFINE t == Resolved[1]
           parts == [i \in DOMAIN t.allOf |-> [Task EXCEPT !.schema = t.allOf[i]]]
<1>1. Typed /\ Visiting /\ Resolved # <<>> /\ "allOf" \in DOMAIN t
  BY DEF VisitAllOf, IsAllOf, Inv
<1>2. /\ t \in Doc.schemas /\ Stands(Doc, t, Task.path) /\ Doc \in AnyDocument
      /\ Task \in AnyTask(Doc, Taken) /\ Task.path \in Seq(Strings)
  BY <1>1, ResolvedTyped, TaskTyped
<1>3. t.allOf \in Seq(Doc.schemas) /\ \A i \in DOMAIN t.allOf : Stands(Doc, t.allOf[i], Task.path)
  BY <1>1, <1>2, PartsTyped, PartsStand
<1>4. ASSUME NEW i \in DOMAIN t.allOf
      PROVE  /\ t.allOf[i] \in Doc.schemas /\ Stands(Doc, t.allOf[i], Task.path)
             /\ parts[i] = TaskWith(Task, Task.path, t.allOf[i]) /\ parts[i] \in AnyTask(Doc, Taken)
  <2>1. t.allOf[i] \in Doc.schemas /\ Stands(Doc, t.allOf[i], Task.path)
    BY <1>3
  <2>2. parts[i] = TaskWith(Task, Task.path, t.allOf[i])
    BY <1>2 DEF TaskWith, AnyTask
  <2> HIDE DEF parts, t
  <2>3. TaskWith(Task, Task.path, t.allOf[i]) \in AnyTask(Doc, Taken)
    BY <1>2, <2>1, TaskOf
  <2> QED
    BY <2>1, <2>2, <2>3
<1>5. parts \in Seq(AnyTask(Doc, Taken)) /\ DOMAIN parts = DOMAIN t.allOf
  <2>1. parts = [i \in DOMAIN t.allOf |-> parts[i]] /\ DOMAIN parts = DOMAIN t.allOf
    OBVIOUS
  <2>2. DOMAIN t.allOf = 1..Len(t.allOf) /\ Len(t.allOf) \in Nat
    BY <1>3
  <2>3. \A i \in DOMAIN t.allOf : parts[i] \in AnyTask(Doc, Taken)
    BY <1>4
  <2> HIDE DEF parts, t
  <2> QED
    BY <2>1, <2>2, <2>3
<1>6. stack' = parts \o Tail(stack)
  BY DEF VisitAllOf
<1> HIDE DEF parts
<1> QED
  BY <1>4, <1>5, <1>6

LEMMA AllOfKeeps ==
    ASSUME Inv, VisitAllOf
    PROVE  Inv'
<1> DEFINE t == Resolved[1]
<1>1. Typed /\ Visiting /\ Resolved # <<>> /\ "allOf" \in DOMAIN t /\ UNCHANGED <<doc, remaining, status, specs>>
  BY DEF VisitAllOf, IsAllOf, Inv
<1>2. /\ t \in Doc.schemas /\ Stands(Doc, t, Task.path) /\ Doc \in AnyDocument
      /\ Task \in AnyTask(Doc, Taken) /\ Task.path \in Seq(Strings)
  BY <1>1, ResolvedTyped, TaskTyped
<1>3. PICK parts \in Seq(AnyTask(Doc, Taken)) :
        /\ stack' = parts \o Tail(stack) /\ DOMAIN parts = DOMAIN t.allOf
        /\ \A i \in DOMAIN parts : /\ t.allOf[i] \in Doc.schemas /\ Stands(Doc, t.allOf[i], Task.path)
                                   /\ parts[i] = TaskWith(Task, Task.path, t.allOf[i])
  BY PartsPushed
<1> HIDE DEF t
<1>4. \A i \in DOMAIN t.allOf : RowsIn(Doc, parts[i]) = Gives(Doc, Task.endpoint, Task.path, t.allOf[i])
  BY <1>2, <1>3, TaskOf
<1>5. ASSUME WellWritten(Doc)
      PROVE  Apart(Doc, parts) /\ \A row : row \in RowsIn(Doc, Head(stack)) <=> Pending(Doc, parts, row)
  <2>1. Qualified(Doc) /\ Disjoint(Doc)
    BY <1>5 DEF WellWritten
  <2>2. ~IsRef(t) /\ RowsIn(Doc, Head(stack)) = Gives(Doc, Task.endpoint, Task.path, t)
    BY <1>1, <2>1, ResolvedMeant DEF t
  <2>3. /\ Gives(Doc, Task.endpoint, Task.path, t) =
             UNION {Gives(Doc, Task.endpoint, Task.path, t.allOf[i]) : i \in DOMAIN t.allOf}
        /\ \A i, j \in DOMAIN t.allOf : i # j =>
             Gives(Doc, Task.endpoint, Task.path, t.allOf[i]) \cap Gives(Doc, Task.endpoint, Task.path, t.allOf[j]) = {}
    BY <1>1, <1>2, <2>1, <2>2, GivesAllOf
  <2>4. Apart(Doc, parts)
    BY <1>3, <1>4, <2>3 DEF Apart
  <2>5. ASSUME NEW row PROVE row \in RowsIn(Doc, Head(stack)) <=> Pending(Doc, parts, row)
    BY <1>3, <1>4, <2>2, <2>3 DEF Pending
  <2> QED
    BY <2>4, <2>5
<1> QED
  BY <1>1, <1>3, <1>5, UnfoldKeeps

LEMMA NumberKeeps ==
    ASSUME Inv, VisitNumber
    PROVE  Inv'
<1>1. Typed /\ Visiting /\ Resolved # <<>> /\ "allOf" \notin DOMAIN Resolved[1] /\ Numeric(Resolved[1])
  BY DEF VisitNumber, IsPlain, Inv
<1>2. Resolved[1] \in Doc.schemas /\ Doc \in AnyDocument /\ Task.path \in Seq(Strings)
  BY <1>1, ResolvedTyped, TaskTyped
<1>3. ASSUME WellWritten(Doc)
      PROVE  RowsIn(Doc, Head(stack)) = IF Task.path = <<"took">> THEN {} ELSE {Found(Task.endpoint, Task.path, NoLabel)}
  <2>1. Qualified(Doc)
    BY <1>3 DEF WellWritten
  <2> QED
    BY <1>1, <1>2, <2>1, ResolvedMeant, GivesNumber
<1>4. CASE Task.path = <<"took">>
  <2>1. UNCHANGED <<doc, remaining, status, specs>> /\ stack' = Tail(stack)
    BY <1>4 DEF VisitNumber
  <2> QED
    BY <1>1, <1>3, <1>4, <2>1, SkipKeeps
<1>5. CASE Task.path # <<"took">>
  <2>1. /\ UNCHANGED <<doc, remaining, status>> /\ stack' = Tail(stack)
        /\ specs' = Append(specs, Found(Task.endpoint, Task.path, NoLabel))
    BY <1>5 DEF VisitNumber
  <2>2. NoLabel \in Labels
    BY DEF Labels
  <2> QED
    BY <1>1, <1>3, <1>5, <2>1, <2>2, FindKeeps
<1> QED
  BY <1>4, <1>5

\* Properties are those of the schema under visit.
LEMMA PropertiesMeant ==
    ASSUME Typed, Visiting, Resolved # <<>>, "allOf" \notin DOMAIN Resolved[1], Qualified(Doc)
    PROVE  Properties = IF "props" \in DOMAIN Resolved[1] THEN Resolved[1].props ELSE <<>>
<1>1. Resolved[1] \in Doc.schemas
  BY ResolvedTyped
<1>2. "props" \in DOMAIN Resolved[1] => IsObject(Resolved[1])
  BY <1>1 DEF Qualified
<1> QED
  BY <1>2, Zenon DEF Properties, IsPlain

LEMMA LabelledKeeps ==
    ASSUME Inv, VisitLabelled
    PROVE  Inv'
<1>1. Typed /\ Visiting /\ Labelled(Task.path, Properties) /\ Properties # <<>>
  BY DEF VisitLabelled, Labelled, Inv
<1>2. Resolved # <<>> /\ "allOf" \notin DOMAIN Resolved[1]
      /\ "props" \in DOMAIN Resolved[1] /\ Properties = Resolved[1].props
  BY <1>1, Zenon DEF Properties, IsPlain
<1>3. Resolved[1] \in Doc.schemas /\ Doc \in AnyDocument /\ Task.path \in Seq(Strings)
  BY <1>1, <1>2, ResolvedTyped, TaskTyped
<1>4. ASSUME WellWritten(Doc)
      PROVE  RowsIn(Doc, Head(stack)) = {Found(Task.endpoint, Task.path, LabelFor(Task.path))}
  <2>1. Qualified(Doc)
    BY <1>4 DEF WellWritten
  <2>2. ~IsRef(Resolved[1]) /\ RowsIn(Doc, Head(stack)) = Gives(Doc, Task.endpoint, Task.path, Resolved[1])
    BY <1>1, <2>1, ResolvedMeant
  <2>3. Labelled(Task.path, Resolved[1].props)
    BY <1>1, <1>2
  <2> QED
    BY <1>2, <1>3, <2>1, <2>2, <2>3, GivesLabelled
<1>5. /\ UNCHANGED <<doc, remaining, status>> /\ stack' = Tail(stack)
      /\ specs' = Append(specs, Found(Task.endpoint, Task.path, LabelFor(Task.path)))
  BY DEF VisitLabelled
<1> QED
  BY <1>1, <1>4, <1>5, LabelForTyped, FindKeeps

\* The members of an object take its place on the stack, each once.
LEMMA MembersPushed ==
    ASSUME Inv, VisitProperties
    PROVE  \E keys : \E parts \in Seq(AnyTask(Doc, Taken)) :
              /\ stack' = parts \o Tail(stack) /\ keys \in [DOMAIN parts -> DOMAIN Properties]
              /\ \A key \in DOMAIN Properties : \E i \in DOMAIN parts : keys[i] = key
              /\ \A i, j \in DOMAIN parts : keys[i] = keys[j] => i = j
              /\ \A i \in DOMAIN parts :
                    /\ Properties[keys[i]] \in Doc.schemas
                    /\ Member(Task.path, keys[i]) \in Seq(Strings)
                    /\ Stands(Doc, Properties[keys[i]], Member(Task.path, keys[i]))
                    /\ parts[i] = TaskWith(Task, Member(Task.path, keys[i]), Properties[keys[i]])
<1> DEFINE t == Resolved[1]
           props == t.props
           keys == Arranged(DOMAIN props, Order)
           parts == [i \in DOMAIN keys |-> [Task EXCEPT !.path = Append(@, keys[i]), !.schema = props[keys[i]]]]
           N == Cardinality(DOMAIN props)
<1>1. Typed /\ Visiting /\ Properties # <<>> /\ ~Labelled(Task.path, Properties)
  BY DEF VisitProperties, Inv
<1>2. Resolved # <<>> /\ "allOf" \notin DOMAIN t /\ "props" \in DOMAIN t /\ Properties = props
  BY <1>1, Zenon DEF Properties, IsPlain
<1>3. /\ t \in Doc.schemas /\ Stands(Doc, t, Task.path) /\ Doc \in AnyDocument
      /\ Task \in AnyTask(Doc, Taken) /\ Task.path \in Seq(Strings)
  BY <1>1, <1>2, ResolvedTyped, TaskTyped
<1>4. /\ IsFiniteSet(DOMAIN props) /\ DOMAIN props \subseteq Strings
      /\ \A key \in DOMAIN props : props[key] \in Doc.schemas /\ <<props[key], LabelFor(<<key>>)>> \in Doc.places
  BY <1>2, <1>3, PartsTyped, PartsStand
<1>5. StrictTotal(DOMAIN props, Order)
  BY <1>4, OrderAssumption DEF StrictTotal, Before
<1>6. /\ N \in Nat /\ keys \in [1..N -> DOMAIN props]
      /\ \A key \in DOMAIN props : \E n \in 1..N : keys[n] = key
      /\ \A m, n \in 1..N : m < n => <<keys[m], keys[n]>> \in Order
  BY <1>4, <1>5, ArrangedSorts
<1>7. stack' = parts \o Tail(stack)
  BY <1>2 DEF VisitProperties
<1>8. ASSUME NEW i \in 1..N
      PROVE  /\ keys[i] \in DOMAIN props /\ parts[i] \in AnyTask(Doc, Taken) /\ props[keys[i]] \in Doc.schemas
             /\ Member(Task.path, keys[i]) \in Seq(Strings) /\ Stands(Doc, props[keys[i]], Member(Task.path, keys[i]))
             /\ parts[i] = TaskWith(Task, Member(Task.path, keys[i]), props[keys[i]])
  <2>1. /\ keys[i] \in DOMAIN props /\ keys[i] \in Strings /\ props[keys[i]] \in Doc.schemas
        /\ <<props[keys[i]], LabelFor(<<keys[i]>>)>> \in Doc.places
    BY <1>4, <1>6
  <2>2. Member(Task.path, keys[i]) \in Seq(Strings) /\ Stands(Doc, props[keys[i]], Member(Task.path, keys[i]))
    BY <1>3, <2>1, PathOfMember DEF Stands
  <2>3. parts[i] = TaskWith(Task, Member(Task.path, keys[i]), props[keys[i]])
    BY <1>6 DEF Member, TaskWith
  <2> HIDE DEF parts, keys, props
  <2> DEFINE path == Member(Task.path, keys[i])
  <2>4. TaskWith(Task, path, props[keys[i]]) \in AnyTask(Doc, Taken)
    BY <1>3, <2>1, <2>2, TaskOf
  <2> QED
    BY <2>1, <2>2, <2>3, <2>4
<1>9. DOMAIN parts = 1..N /\ parts \in Seq(AnyTask(Doc, Taken))
  <2>1. parts = [i \in 1..N |-> parts[i]] /\ DOMAIN parts = 1..N
    BY <1>6
  <2>2. N \in Nat /\ \A i \in 1..N : parts[i] \in AnyTask(Doc, Taken)
    BY <1>6, <1>8
  <2> HIDE DEF parts, N, props
  <2> QED
    BY <2>1, <2>2
<1>10. \A i, j \in 1..N : i # j => keys[i] # keys[j]
  <2>1. \A key \in DOMAIN props : <<key, key>> \notin Order
    BY <1>5 DEF StrictTotal
  <2>2. \A i, j \in 1..N : i # j => i < j \/ j < i
    BY <1>6
  <2> HIDE DEF keys, N, props
  <2> QED
    BY <1>6, <1>8, <2>1, <2>2
<1> HIDE DEF parts, keys, props, N
<1>11. /\ keys \in [DOMAIN parts -> DOMAIN Properties]
       /\ \A key \in DOMAIN Properties : \E i \in DOMAIN parts : keys[i] = key
       /\ \A i, j \in DOMAIN parts : keys[i] = keys[j] => i = j
  BY <1>2, <1>6, <1>9, <1>10
<1>12. \A i \in DOMAIN parts :
          /\ Properties[keys[i]] \in Doc.schemas
          /\ Member(Task.path, keys[i]) \in Seq(Strings)
          /\ Stands(Doc, Properties[keys[i]], Member(Task.path, keys[i]))
          /\ parts[i] = TaskWith(Task, Member(Task.path, keys[i]), Properties[keys[i]])
  BY <1>2, <1>8, <1>9
<1>13. parts \in Seq(AnyTask(Doc, Taken))
  BY <1>9
<1> QED
  BY <1>7, <1>11, <1>12, <1>13, Zenon

LEMMA PropertiesKeep ==
    ASSUME Inv, VisitProperties
    PROVE  Inv'
<1> DEFINE t == Resolved[1]
           props == t.props
<1>1. Typed /\ Visiting /\ Properties # <<>> /\ ~Labelled(Task.path, Properties)
  BY DEF VisitProperties, Inv
<1>2. Resolved # <<>> /\ "allOf" \notin DOMAIN t /\ "props" \in DOMAIN t /\ Properties = props
  BY <1>1, Zenon DEF Properties, IsPlain
<1>3. /\ t \in Doc.schemas /\ Doc \in AnyDocument
      /\ Task \in AnyTask(Doc, Taken) /\ Task.path \in Seq(Strings)
  BY <1>1, <1>2, ResolvedTyped, TaskTyped
<1>4. PICK keys : \E parts \in Seq(AnyTask(Doc, Taken)) :
        /\ stack' = parts \o Tail(stack) /\ keys \in [DOMAIN parts -> DOMAIN props]
        /\ \A key \in DOMAIN props : \E i \in DOMAIN parts : keys[i] = key
        /\ \A i, j \in DOMAIN parts : keys[i] = keys[j] => i = j
        /\ \A i \in DOMAIN parts :
              /\ props[keys[i]] \in Doc.schemas
              /\ Member(Task.path, keys[i]) \in Seq(Strings)
              /\ Stands(Doc, props[keys[i]], Member(Task.path, keys[i]))
              /\ parts[i] = TaskWith(Task, Member(Task.path, keys[i]), props[keys[i]])
  BY <1>2, MembersPushed, Zenon
<1>5. PICK parts \in Seq(AnyTask(Doc, Taken)) :
        /\ stack' = parts \o Tail(stack) /\ keys \in [DOMAIN parts -> DOMAIN props]
        /\ \A key \in DOMAIN props : \E i \in DOMAIN parts : keys[i] = key
        /\ \A i, j \in DOMAIN parts : keys[i] = keys[j] => i = j
        /\ \A i \in DOMAIN parts :
              /\ props[keys[i]] \in Doc.schemas
              /\ Member(Task.path, keys[i]) \in Seq(Strings)
              /\ Stands(Doc, props[keys[i]], Member(Task.path, keys[i]))
              /\ parts[i] = TaskWith(Task, Member(Task.path, keys[i]), props[keys[i]])
  BY <1>4, Zenon
<1> DEFINE give(key) == Gives(Doc, Task.endpoint, Member(Task.path, key), props[key])
<1>6. \A i \in DOMAIN parts : keys[i] \in DOMAIN props /\ RowsIn(Doc, parts[i]) = give(keys[i])
  <2> HIDE DEF props
  <2> QED
    BY <1>3, <1>5, TaskOf
<1>7. ASSUME WellWritten(Doc)
      PROVE  Apart(Doc, parts) /\ \A row : row \in RowsIn(Doc, Head(stack)) <=> Pending(Doc, parts, row)
  <2>1. Qualified(Doc)
    BY <1>7 DEF WellWritten
  <2>2. ~IsRef(t) /\ RowsIn(Doc, Head(stack)) = Gives(Doc, Task.endpoint, Task.path, t)
    BY <1>1, <2>1, ResolvedMeant
  <2>3. props # <<>> /\ ~Labelled(Task.path, props)
    BY <1>1, <1>2
  <2>4. /\ Gives(Doc, Task.endpoint, Task.path, t) = UNION {give(key) : key \in DOMAIN props}
        /\ \A j, k \in DOMAIN props : j # k => give(j) \cap give(k) = {}
    BY <1>2, <1>3, <2>1, <2>2, <2>3, GivesProperties
  <2> HIDE DEF t, props, give
  <2>5. Apart(Doc, parts)
    BY <1>5, <1>6, <2>4 DEF Apart
  <2>6. ASSUME NEW row PROVE row \in RowsIn(Doc, Head(stack)) <=> Pending(Doc, parts, row)
    <3>1. row \in RowsIn(Doc, Head(stack)) <=> \E key \in DOMAIN props : row \in give(key)
      BY <2>2, <2>4
    <3>2. (\E key \in DOMAIN props : row \in give(key)) <=> \E i \in DOMAIN parts : row \in RowsIn(Doc, parts[i])
      BY <1>5, <1>6
    <3> QED
      BY <3>1, <3>2 DEF Pending
  <2> QED
    BY <2>5, <2>6
<1>8. UNCHANGED <<doc, remaining, status, specs>>
  BY DEF VisitProperties
<1> QED
  BY <1>1, <1>5, <1>7, <1>8, UnfoldKeeps

LEMMA OtherKeeps ==
    ASSUME Inv, VisitOther
    PROVE  Inv'
<1>1. /\ Typed /\ Visiting /\ Resolved # <<>> /\ "allOf" \notin DOMAIN Resolved[1]
      /\ ~Numeric(Resolved[1]) /\ Properties = <<>>
      /\ UNCHANGED <<doc, remaining, status, specs>> /\ stack' = Tail(stack)
  BY DEF VisitOther, IsPlain, Inv
<1>2. Resolved[1] \in Doc.schemas /\ Doc \in AnyDocument /\ Task.path \in Seq(Strings)
  BY <1>1, ResolvedTyped, TaskTyped
<1>3. ASSUME WellWritten(Doc) PROVE RowsIn(Doc, Head(stack)) = {}
  <2>1. Qualified(Doc)
    BY <1>3 DEF WellWritten
  <2>2. ~IsRef(Resolved[1]) /\ RowsIn(Doc, Head(stack)) = Gives(Doc, Task.endpoint, Task.path, Resolved[1])
    BY <1>1, <2>1, ResolvedMeant
  <2>3. "props" \notin DOMAIN Resolved[1] \/ Resolved[1].props = <<>>
    BY <1>1, <2>1, PropertiesMeant
  <2> QED
    BY <1>1, <1>2, <2>1, <2>2, <2>3, GivesNothing
<1> QED
  BY <1>1, <1>3, SkipKeeps

\* Taking an endpoint.
LEMMA MeantEndpoint ==
    ASSUME NEW d, NEW endpoint, NEW row \in MeantAt(d, endpoint)
    PROVE  row.endpoint = endpoint
<1>1. \A p, l : Found(endpoint, p, l).endpoint = endpoint
  BY FoundFields
<1>2. \E p, l : row = Found(endpoint, p, l)
  BY DEF MeantAt
<1> QED
  BY <1>1, <1>2

LEMMA MeantGives ==
    ASSUME NEW d \in AnyDocument, NEW endpoint, UnderStats(endpoint),
           NEW item, item = Target(d, d.paths[endpoint]), Wanted(item), item.schema \in d.schemas
    PROVE  MeantAt(d, endpoint) = Gives(d, endpoint, <<>>, item.schema)
<1>1. LabelFor(<<>>) = NoLabel /\ NoLabel \in Labels
  BY DEF LabelFor, Labels
<1>2. Leaves(d, item.schema, <<>>) = d.meaning[item.schema][NoLabel]
  BY <1>1 DEF Leaves
<1>3. \A leaf \in d.meaning[item.schema][NoLabel] : Along(<<>>, leaf.path) = leaf.path
  <2>1. \A leaf \in d.meaning[item.schema][NoLabel] : leaf.path \in Seq(Strings)
    BY <1>1, MeaningTyped
  <2>2. \A p \in Seq(Strings) : Along(<<>>, p) = p
    BY ConcatEmptySeq DEF Along
  <2> QED
    BY <2>1, <2>2
<1>4. ASSUME NEW row
      PROVE  row \in MeantAt(d, endpoint) <=>
                \E leaf \in d.meaning[item.schema][NoLabel] : IsFound(row, endpoint, leaf.path, leaf.label)
  BY DEF MeantAt, IsFound
<1>5. ASSUME NEW row
      PROVE  row \in Gives(d, endpoint, <<>>, item.schema) <=>
                \E leaf \in d.meaning[item.schema][NoLabel] : IsFound(row, endpoint, leaf.path, leaf.label)
  <2>1. row \in Gives(d, endpoint, <<>>, item.schema) <=>
          \E leaf \in Leaves(d, item.schema, <<>>) : IsFound(row, endpoint, Along(<<>>, leaf.path), leaf.label)
    BY RowGiven, Zenon
  <2> QED
    BY <1>2, <1>3, <2>1, Zenon
<1> QED
  BY <1>4, <1>5

LEMMA Takes ==
    ASSUME NEW d, NEW taken, NEW endpoint, endpoint \notin taken, NEW tasks, NEW rows,
           Accounts(d, taken, <<>>, rows), \A i \in DOMAIN rows : rows[i].endpoint \in taken,
           Apart(d, tasks), \A row : row \in MeantAt(d, endpoint) <=> Pending(d, tasks, row)
    PROVE  Accounts(d, taken \cup {endpoint}, tasks, rows)
<1>1. \A row : ~Pending(d, <<>>, row)
  BY DEF Pending
<1>2. \A row : Listed(rows, row) <=> \E e \in taken : row \in MeantAt(d, e)
  BY <1>1 DEF Accounts
<1>3. \A row : ~(Listed(rows, row) /\ Pending(d, tasks, row))
  <2>1. \A row : Listed(rows, row) => row.endpoint \in taken
    BY DEF Listed
  <2>2. \A row \in MeantAt(d, endpoint) : row.endpoint = endpoint
    BY MeantEndpoint
  <2> QED
    BY <2>1, <2>2, Zenon
<1>4. \A row : Listed(rows, row) \/ Pending(d, tasks, row) <=> \E e \in taken \cup {endpoint} : row \in MeantAt(d, e)
  BY <1>2, Zenon
<1> QED
  BY <1>3, <1>4 DEF Accounts

LEMMA OneTask ==
    ASSUME NEW d, NEW task
    PROVE  /\ Apart(d, <<>>) /\ \A row : ~Pending(d, <<>>, row)
           /\ Apart(d, <<task>>) /\ \A row : Pending(d, <<task>>, row) <=> row \in RowsIn(d, task)
<1>1. DOMAIN <<task>> = {1} /\ <<task>>[1] = task /\ DOMAIN <<>> = {}
  OBVIOUS
<1> QED
  BY <1>1 DEF Apart, Pending

LEMMA NextEndpointKeeps ==
    ASSUME Inv, NextEndpoint
    PROVE  Inv'
<1>1. PICK endpoint \in remaining :
        /\ remaining' = remaining \ {endpoint}
        /\ stack' = IF UnderStats(endpoint) THEN Tasks(endpoint, Resolve(Paths[endpoint])) ELSE <<>>
        /\ status' = IF UnderStats(endpoint) /\ Resolve(Paths[endpoint]) = <<>> THEN "error" ELSE status
  BY DEF NextEndpoint
<1> DEFINE items == Resolve(Paths[endpoint])
           task == [endpoint |-> endpoint, path |-> <<>>, schema |-> items[1].schema]
<1>2. Typed /\ status = "running" /\ stack = <<>> /\ Doc \in AnyDocument /\ UNCHANGED <<doc, specs>>
  BY DocIsDocument DEF NextEndpoint, Inv, Typed
<1>3. Doc' = Doc /\ Paths' = Paths /\ Paths = Doc.paths
  BY <1>2, DocIsDocument DEF Doc, Paths, Typed
<1>4. endpoint \in DOMAIN Paths /\ endpoint \notin Taken /\ Taken' = Taken \cup {endpoint}
  BY <1>1, <1>2, <1>3 DEF Typed, Taken
<1>5. ASSUME UnderStats(endpoint)
      PROVE  /\ Doc.paths[endpoint] \in {Doc.paths[e] : e \in StatsOf(Doc)}
             /\ items # <<>> => /\ items[1] \in Reached(Doc, Doc.paths[endpoint])
                                /\ Wanted(items[1]) => items[1].schema \in Doc.schemas /\ Stands(Doc, items[1].schema, <<>>)
  <2>1. endpoint \in StatsOf(Doc)
    BY <1>3, <1>4, <1>5 DEF StatsOf
  <2>2. \A item \in Reached(Doc, Doc.paths[endpoint]) :
           Wanted(item) => item.schema \in Doc.schemas /\ Stands(Doc, item.schema, <<>>)
    BY <1>2, <2>1, DocumentsAssumption DEF AnyDocument, Stands, LabelFor
  <2>3. items # <<>> => \E target \in Reached(Doc, Doc.paths[endpoint]) : items = <<target>>
    BY <1>2, <1>3, ResolveReaches DEF Typed
  <2> QED
    BY <2>1, <2>2, <2>3
<1>6. stack' = IF UnderStats(endpoint) /\ items # <<>> /\ Wanted(items[1]) THEN <<task>> ELSE <<>>
  BY <1>1, Zenon DEF Tasks
<1>7. Typed'
  <2>1. UnderStats(endpoint) /\ items # <<>> /\ Wanted(items[1]) => task \in AnyTask(Doc, Taken')
    BY <1>4, <1>5 DEF AnyTask
  <2> HIDE DEF task
  <2>2. stack' \in Seq(AnyTask(Doc, Taken'))
    BY <1>6, <2>1
  <2>3. status' \in {"running", "error"} /\ remaining' \subseteq DOMAIN Paths
    BY <1>1, <1>2 DEF Typed
  <2>4. \A i \in DOMAIN specs : specs[i].endpoint \in Taken'
    BY <1>2, <1>4 DEF Typed
  <2> QED
    BY <1>2, <1>3, <2>2, <2>3, <2>4 DEF Typed
<1>8. ASSUME WellWritten(Doc) PROVE status' # "error" /\ Accounts(Doc, Taken', stack', specs)
  <2>1. Qualified(Doc) /\ Accounts(Doc, Taken, <<>>, specs) /\ \A i \in DOMAIN specs : specs[i].endpoint \in Taken
    BY <1>2, <1>8 DEF WellWritten, Inv, Accounted, Typed
  <2>2. ASSUME UnderStats(endpoint) PROVE items # <<>> /\ items[1] = Target(Doc, Doc.paths[endpoint])
    <3>1. items = <<Target(Doc, Doc.paths[endpoint])>>
      BY <1>2, <1>3, <1>5, <2>1, <2>2, ResolveMeant DEF Typed
    <3> QED
      BY <3>1
  <2>3. status' # "error"
    BY <1>1, <1>2, <2>2
  <2>4. CASE UnderStats(endpoint) /\ Wanted(items[1])
    <3>1. stack' = <<task>> /\ items[1].schema \in Doc.schemas
      BY <1>5, <1>6, <2>2, <2>4
    <3>2. MeantAt(Doc, endpoint) = Gives(Doc, endpoint, <<>>, items[1].schema)
      BY <1>2, <2>2, <2>4, <3>1, MeantGives
    <3>3. RowsIn(Doc, task) = MeantAt(Doc, endpoint)
      BY <3>2 DEF RowsIn
    <3> HIDE DEF task
    <3>4. Apart(Doc, stack') /\ \A row : row \in MeantAt(Doc, endpoint) <=> Pending(Doc, stack', row)
      BY <3>1, <3>3, OneTask
    <3>5. Accounts(Doc, Taken \cup {endpoint}, stack', specs)
      BY <1>4, <2>1, <3>4, Takes
    <3> QED
      BY <1>4, <2>3, <3>5
  <2>5. CASE ~(UnderStats(endpoint) /\ Wanted(items[1]))
    <3>1. stack' = <<>>
      BY <1>6, <2>5
    <3>2. MeantAt(Doc, endpoint) = {}
      BY <2>2, <2>5, Zenon DEF MeantAt
    <3>3. Apart(Doc, stack') /\ \A row : row \in MeantAt(Doc, endpoint) <=> Pending(Doc, stack', row)
      BY <3>1, <3>2, OneTask
    <3>4. Accounts(Doc, Taken \cup {endpoint}, stack', specs)
      BY <1>4, <2>1, <3>3, Takes
    <3> QED
      BY <1>4, <2>3, <3>4
  <2> QED
    BY <2>4, <2>5
<1>9. Accounted'
  BY <1>2, <1>3, <1>8 DEF Accounted
<1>10. InTableOrder'
  BY <1>1, <1>2 DEF InTableOrder
<1> QED
  BY <1>7, <1>9, <1>10 DEF Inv

LEMMA FinishKeeps ==
    ASSUME Inv, Finish
    PROVE  Inv'
<1> DEFINE from == Arranged(DOMAIN specs, Ahead)
           N == Cardinality(DOMAIN specs)
<1>1. /\ Typed /\ Accounted /\ status = "running" /\ stack = <<>> /\ remaining = {}
      /\ specs' = [n \in DOMAIN from |-> specs[from[n]]] /\ status' \in {"ok", "empty"}
      /\ UNCHANGED <<doc, remaining, stack>>
  BY DEF Finish, Inv
<1>2. Doc' = Doc /\ Paths' = Paths /\ Taken' = Taken
  BY <1>1 DEF Doc, Paths, Taken
<1>3. specs \in Seq(AnyRow)
  BY <1>1 DEF Typed
<1>4. IsFiniteSet(DOMAIN specs) /\ \A i \in DOMAIN specs : specs[i] \in AnyRow
  <2>1. DOMAIN specs = 1..Len(specs) /\ 1 \in Int /\ Len(specs) \in Int
    BY <1>3
  <2>2. IsFiniteSet(1..Len(specs))
    BY <2>1, FS_Interval
  <2> QED
    BY <1>3, <2>1, <2>2
<1>5. StrictTotal(DOMAIN specs, Ahead)
  BY <1>3, AheadTotal
<1>6. /\ N \in Nat /\ from \in [1..N -> DOMAIN specs]
      /\ \A i \in DOMAIN specs : \E n \in 1..N : from[n] = i
      /\ \A m, n \in 1..N : m < n => <<from[m], from[n]>> \in Ahead
  BY <1>4, <1>5, ArrangedSorts
<1> HIDE DEF from, N
<1>7. DOMAIN specs' = 1..N /\ \A n \in 1..N : from[n] \in DOMAIN specs /\ specs'[n] = specs[from[n]]
  BY <1>1, <1>6
<1>8. specs' \in Seq(AnyRow) /\ \A n \in DOMAIN specs' : specs'[n].endpoint \in Taken
  <2>1. specs' = [n \in 1..N |-> specs[from[n]]]
    BY <1>1, <1>6
  <2> QED
    BY <1>1, <1>4, <1>6, <1>7, <2>1 DEF Typed
<1>9. \A m, n \in 1..N : m # n => from[m] # from[n]
  <2>1. \A i \in DOMAIN specs : <<i, i>> \notin Ahead
    BY <1>5 DEF StrictTotal
  <2>2. \A m, n \in 1..N : m # n => m < n \/ n < m
    OBVIOUS
  <2> QED
    BY <1>6, <1>7, <2>1, <2>2, Zenon
<1>10. Typed'
  BY <1>1, <1>2, <1>8 DEF Typed
<1>11. ASSUME WellWritten(Doc) PROVE Accounts(Doc, Taken, stack, specs')
  <2>1. Accounts(Doc, Taken, stack, specs)
    BY <1>1, <1>11 DEF Accounted
  <2>2. ASSUME NEW row PROVE Listed(specs', row) <=> Listed(specs, row)
    <3>1. ASSUME NEW n \in 1..N, row = specs'[n] PROVE \E i \in DOMAIN specs : row = specs[i]
      BY <1>7, <3>1
    <3>2. ASSUME NEW i \in DOMAIN specs, row = specs[i] PROVE \E n \in 1..N : row = specs'[n]
      <4>1. PICK n \in 1..N : from[n] = i
        BY <1>6
      <4> QED
        BY <1>7, <3>2, <4>1
    <3> QED
      BY <1>7, <3>1, <3>2, Zenon DEF Listed
  <2>3. ASSUME NEW m \in 1..N, NEW n \in 1..N, m # n PROVE specs'[m] # specs'[n]
    <3>1. from[m] \in DOMAIN specs /\ from[n] \in DOMAIN specs /\ from[m] # from[n]
      BY <1>7, <1>9, <2>3, Zenon
    <3>2. specs[from[m]] # specs[from[n]]
      BY <2>1, <3>1, Zenon DEF Accounts
    <3> QED
      BY <1>7, <3>2
  <2> QED
    BY <1>7, <2>1, <2>2, <2>3, Zenon DEF Accounts
<1>12. Accounted'
  BY <1>1, <1>2, <1>11 DEF Accounted
<1>13. ASSUME NEW m \in 1..N, NEW n \in 1..N, m < n PROVE ~Sorted(specs'[n], specs'[m])
  <2>1. from[m] \in DOMAIN specs /\ from[n] \in DOMAIN specs /\ <<from[m], from[n]>> \in Ahead
    BY <1>6, <1>7, <1>13
  <2>2. PICK a, b : a = specs[from[m]] /\ b = specs[from[n]]
    OBVIOUS
  <2>3. Sorted(a, b) \/ ~Sorted(b, a)
    BY <2>1, <2>2 DEF Ahead
  <2>4. a \in AnyRow /\ b \in AnyRow
    BY <1>4, <2>1, <2>2
  <2>5. ~(Sorted(a, b) /\ Sorted(b, a))
    BY <2>4, RowsTransitive, RowNotBeforeItself
  <2> QED
    BY <1>7, <2>2, <2>3, <2>5
<1>14. InTableOrder'
  BY <1>7, <1>13 DEF InTableOrder
<1> QED
  BY <1>10, <1>12, <1>14 DEF Inv

-----------------------------------------------------------------------------
(* Theorems                                                                *)

\* Every reachable state accounts for the numbers of the endpoints taken.
THEOREM Invariance == Spec => []Inv
<1>1. Init => Inv
  BY InvInit
<1>2. Inv /\ [Next]_vars => Inv'
  <2> SUFFICES ASSUME Inv, [Next]_vars PROVE Inv'
    OBVIOUS
  <2>1. CASE UNCHANGED vars
    BY <2>1 DEF vars, Inv, Typed, Accounted, InTableOrder, Doc, Paths, Taken
  <2>2. CASE Next
    BY <2>2, NextEndpointKeeps, BrokenKeeps, AllOfKeeps, NumberKeeps, LabelledKeeps,
       PropertiesKeep, OtherKeeps, FinishKeeps DEF Next
  <2> QED
    BY <2>1, <2>2
<1> QED
  BY <1>1, <1>2, PTL DEF Spec

\* What is found, and what is pending, belongs to endpoints already taken, and
\* nothing is left when the generator has ended with a table or an empty one.
THEOREM Typing == Spec => []TypeOK
<1>1. Inv => TypeOK
  <2> SUFFICES ASSUME Inv PROVE TypeOK
    OBVIOUS
  <2>1. Typed
    BY DEF Inv
  <2>2. \A i \in DOMAIN stack : stack[i].endpoint \in Taken
    <3>1. stack \in Seq(AnyTask(Doc, Taken))
      BY <2>1 DEF Typed
    <3>2. \A i \in DOMAIN stack : stack[i] \in AnyTask(Doc, Taken)
      BY <3>1
    <3> QED
      BY <3>2 DEF AnyTask
  <2> QED
    BY <2>1, <2>2 DEF Typed, TypeOK, Taken
<1> QED
  BY <1>1, Invariance, PTL

\* From any well-written document, in whatever order the map of
\* paths is read, the table holds every number under the wanted endpoints, once
\* and in order (main.go:69-207).
THEOREM TableHoldsWhatIsMeant == Spec => []TableIsMeant
<1>1. Inv => TableIsMeant
  <2> SUFFICES ASSUME Inv, status # "running", WellWritten(Documents[doc])
               PROVE  /\ status # "error"
                      /\ ToSet(specs) = UNION {MeantAt(Documents[doc], endpoint) : endpoint \in DOMAIN Paths}
                      /\ \A i, j \in DOMAIN specs : i < j => specs[i] # specs[j] /\ ~Sorted(specs[j], specs[i])
    BY DEF TableIsMeant
  <2>1. status # "error" /\ Accounts(Doc, Taken, stack, specs)
    BY DEF Inv, Accounted, Doc
  <2>2. stack = <<>> /\ Taken = DOMAIN Paths /\ specs \in Seq(AnyRow) /\ status \in {"ok", "empty"}
    BY <2>1 DEF Inv, Typed, Taken
  <2>3. \A row : Listed(specs, row) <=> \E endpoint \in DOMAIN Paths : row \in MeantAt(Doc, endpoint)
    BY <2>1, <2>2, OneTask, Zenon DEF Accounts
  <2>4. \A row : row \in ToSet(specs) <=> Listed(specs, row)
    BY DEF ToSet, Listed
  <2>5. ToSet(specs) = UNION {MeantAt(Doc, endpoint) : endpoint \in DOMAIN Paths}
    BY <2>3, <2>4
  <2>6. \A i, j \in DOMAIN specs : i < j => specs[i] # specs[j]
    <3>1. \A i, j \in DOMAIN specs : i # j => specs[i] # specs[j]
      BY <2>1 DEF Accounts
    <3>2. \A i, j \in DOMAIN specs : i < j => i # j
      BY <2>2
    <3> QED
      BY <3>1, <3>2
  <2>7. \A i, j \in DOMAIN specs : i < j => ~Sorted(specs[j], specs[i])
    BY <2>2 DEF Inv, InTableOrder
  <2> QED
    BY <2>1, <2>5, <2>6, <2>7 DEF Doc
<1> QED
  BY <1>1, Invariance, PTL

-----------------------------------------------------------------------------
(* One table for each document                                             *)

\* A listing of a set by a strict total order.
Enumerates(a, set, relation) ==
    /\ a \in Seq(set)
    /\ \A x \in set : \E i \in DOMAIN a : a[i] = x
    /\ \A i, j \in DOMAIN a : i < j => <<a[i], a[j]>> \in relation

\* It has every element at the place the number of those before it gives.
LEMMA PlaceInListing ==
    ASSUME NEW set, NEW relation, StrictTotal(set, relation), NEW a, Enumerates(a, set, relation)
    PROVE  /\ IsFiniteSet(set) /\ Cardinality(set) = Len(a)
           /\ \A i \in 1..Len(a) : Cardinality(Below(set, relation, a[i])) = i - 1
<1>1. Len(a) \in Nat /\ DOMAIN a = 1..Len(a) /\ \A i \in 1..Len(a) : a[i] \in set
  BY DEF Enumerates
<1>2. \A i, j \in 1..Len(a) : i < j => <<a[i], a[j]>> \in relation
  BY <1>1 DEF Enumerates
<1>3. \A x \in set : <<x, x>> \notin relation
  BY DEF StrictTotal
<1>4. ASSUME NEW i \in 1..Len(a), NEW j \in 1..Len(a), a[i] = a[j] PROVE i = j
  <2>1. ~(i < j) /\ ~(j < i)
    BY <1>1, <1>2, <1>3, <1>4
  <2> QED
    BY <1>1, <2>1
<1>5. ASSUME NEW n \in Nat, n <= Len(a), NEW S, S = {a[k] : k \in 1..n} PROVE IsFiniteSet(S) /\ Cardinality(S) = n
  <2> DEFINE f == [k \in 1..n |-> a[k]]
  <2>1. 1..n \subseteq 1..Len(a)
    BY <1>1, <1>5
  <2>2. f \in [1..n -> S] /\ \A s \in S : \E k \in 1..n : f[k] = s
    BY <1>5
  <2>3. \A k, m \in 1..n : f[k] = f[m] => k = m
    BY <1>4, <2>1
  <2> HIDE DEF f
  <2>4. f \in Bijection(1..n, S)
    BY <2>2, <2>3 DEF Bijection, Injection, Surjection, IsInjective
  <2>5. ExistsBijection(1..n, S)
    BY <2>4 DEF ExistsBijection
  <2>6. IsFiniteSet(1..n)
    BY FS_Interval
  <2> QED
    BY <2>5, <2>6, FS_Bijection, FS_CountingElements
<1>6. set = {a[k] : k \in 1..Len(a)}
  BY <1>1 DEF Enumerates
<1>7. ASSUME NEW i \in 1..Len(a) PROVE Cardinality(Below(set, relation, a[i])) = i - 1
  <2>1. i - 1 \in Nat /\ i - 1 <= Len(a) /\ \A k \in 1..Len(a) : k < i <=> k \in 1..(i - 1)
    BY <1>1
  <2>2. \A k \in 1..Len(a) : k < i \/ k = i \/ i < k
    BY <1>1
  <2>3. \A k \in 1..Len(a) : i < k => <<a[k], a[i]>> \notin relation
    <3>1. ASSUME NEW k \in 1..Len(a), i < k, <<a[k], a[i]>> \in relation PROVE FALSE
      <4>1. <<a[i], a[k]>> \in relation /\ a[i] \in set /\ a[k] \in set
        BY <1>1, <1>2, <3>1
      <4> QED
        BY <3>1, <4>1 DEF StrictTotal
    <3> QED
      BY <3>1
  <2>4. \A k \in 1..Len(a) : <<a[k], a[i]>> \in relation <=> k < i
    BY <1>1, <1>2, <1>3, <2>2, <2>3
  <2>5. Below(set, relation, a[i]) = {a[k] : k \in 1..(i - 1)}
    <3>1. ASSUME NEW x, x \in Below(set, relation, a[i]) PROVE \E k \in 1..(i - 1) : x = a[k]
      <4>1. PICK k \in 1..Len(a) : x = a[k]
        BY <1>6, <3>1 DEF Below
      <4> QED
        BY <2>1, <2>4, <3>1, <4>1 DEF Below
    <3>2. ASSUME NEW k \in 1..(i - 1) PROVE a[k] \in Below(set, relation, a[i])
      <4>1. k \in 1..Len(a) /\ k < i
        BY <1>1
      <4> QED
        BY <1>1, <2>4, <4>1 DEF Below
    <3> QED
      BY <3>1, <3>2
  <2> QED
    BY <1>5, <2>1, <2>5
<1>8. IsFiniteSet(set) /\ Cardinality(set) = Len(a)
  <2>1. Len(a) \in Nat /\ Len(a) <= Len(a)
    BY <1>1
  <2> QED
    BY <1>5, <1>6, <2>1, Zenon
<1> QED
  BY <1>7, <1>8

\* So there is only one.
LEMMA OneListing ==
    ASSUME NEW set, NEW relation, StrictTotal(set, relation),
           NEW a, Enumerates(a, set, relation), NEW b, Enumerates(b, set, relation)
    PROVE  a = b
<1>1. /\ Len(a) = Len(b) /\ Len(a) \in Nat /\ DOMAIN a = 1..Len(a) /\ DOMAIN b = 1..Len(a)
      /\ a \in Seq(set) /\ b \in Seq(set)
  BY PlaceInListing DEF Enumerates
<1>2. ASSUME NEW i \in 1..Len(a) PROVE a[i] = b[i]
  <2>1. PICK j \in 1..Len(a) : b[j] = a[i]
    BY <1>1 DEF Enumerates
  <2>2. Cardinality(Below(set, relation, a[i])) = i - 1 /\ Cardinality(Below(set, relation, b[j])) = j - 1
    BY <1>1, PlaceInListing
  <2> QED
    BY <2>1, <2>2
<1> QED
  BY <1>1, <1>2

\* Rows by the order of the table.
TableOrder == {pair \in AnyRow \X AnyRow : Sorted(pair[1], pair[2])}

LEMMA TableOrderTotal ==
    ASSUME NEW rows, rows \subseteq AnyRow
    PROVE  StrictTotal(rows, TableOrder)
<1>1. \A a, b \in AnyRow : <<a, b>> \in TableOrder <=> Sorted(a, b)
  BY DEF TableOrder
<1> QED
  BY <1>1, RowNotBeforeItself, RowsTransitive, RowsTotal DEF StrictTotal

\* Rows in the order of the table, each once.
Tabulated(table) == \A i, j \in DOMAIN table : i < j => table[i] # table[j] /\ ~Sorted(table[j], table[i])

LEMMA TabulatedLists ==
    ASSUME NEW table \in Seq(AnyRow), Tabulated(table)
    PROVE  Enumerates(table, ToSet(table), TableOrder) /\ ToSet(table) \subseteq AnyRow
<1>1. DOMAIN table = 1..Len(table) /\ \A i \in DOMAIN table : table[i] \in AnyRow
  OBVIOUS
<1>2. ToSet(table) \subseteq AnyRow /\ table \in Seq(ToSet(table))
  BY <1>1 DEF ToSet
<1>3. \A x \in ToSet(table) : \E i \in DOMAIN table : table[i] = x
  BY DEF ToSet
<1>4. ASSUME NEW i \in DOMAIN table, NEW j \in DOMAIN table, i < j PROVE <<table[i], table[j]>> \in TableOrder
  BY <1>1, <1>4, RowsTotal DEF Tabulated, TableOrder
<1> QED
  BY <1>2, <1>3, <1>4 DEF Enumerates

\* What a document means: its rows, in any order.
Meant(d) == UNION {MeantAt(d, endpoint) : endpoint \in DOMAIN d.paths}

\* The table depends on the document alone.  Go maps are read in an order that
\* changes from run to run, but two runs of the generator over a well-written
\* document write the same file: what the document means, arranged
\* (main.go:69-125, 183-201).
THEOREM TableIsDetermined ==
    Spec => [](status # "running" /\ WellWritten(Doc) => specs = Arranged(Meant(Doc), TableOrder))
<1>1. Inv /\ TableIsMeant => (status # "running" /\ WellWritten(Doc) => specs = Arranged(Meant(Doc), TableOrder))
  <2> SUFFICES ASSUME Inv, TableIsMeant, status # "running", WellWritten(Doc)
               PROVE  specs = Arranged(Meant(Doc), TableOrder)
    OBVIOUS
  <2> DEFINE table == Arranged(Meant(Doc), TableOrder)
  <2>1. specs \in Seq(AnyRow) /\ Paths = Doc.paths
    BY DocIsDocument DEF Inv, Typed
  <2>2. ToSet(specs) = Meant(Doc) /\ Tabulated(specs)
    BY <2>1 DEF TableIsMeant, Meant, Tabulated, Doc
  <2>3. Enumerates(specs, Meant(Doc), TableOrder) /\ Meant(Doc) \subseteq AnyRow
    BY <2>1, <2>2, TabulatedLists
  <2>4. StrictTotal(Meant(Doc), TableOrder)
    BY <2>3, TableOrderTotal
  <2>5. IsFiniteSet(Meant(Doc))
    BY <2>3, <2>4, PlaceInListing
  <2>6. /\ Cardinality(Meant(Doc)) \in Nat
        /\ table \in [1..Cardinality(Meant(Doc)) -> Meant(Doc)]
        /\ \A x \in Meant(Doc) : \E n \in 1..Cardinality(Meant(Doc)) : table[n] = x
        /\ \A m, n \in 1..Cardinality(Meant(Doc)) : m < n => <<table[m], table[n]>> \in TableOrder
    BY <2>4, <2>5, ArrangedSorts
  <2> HIDE DEF table
  <2>7. Enumerates(table, Meant(Doc), TableOrder)
    BY <2>6 DEF Enumerates
  <2>8. specs = table
    BY <2>3, <2>4, <2>7, OneListing
  <2> QED
    BY <2>8 DEF table
<1> QED
  BY <1>1, Invariance, TableHoldsWhatIsMeant, PTL

-----------------------------------------------------------------------------
(* The visits left                                                         *)

SchemasOn(tasks) == [i \in DOMAIN tasks |-> tasks[i].schema]

LEMMA VisitsAre ==
    ASSUME NEW d, NEW f, NEW v
    PROVE  v \in VisitsTo(d, f) <=> \E i \in DOMAIN f : \E k \in 1..d.visits[f[i]] : v = <<i, k>>
BY DEF VisitsTo

LEMMA VisitsOn ==
    ASSUME NEW d, NEW tasks, NEW v
    PROVE  v \in VisitsTo(d, SchemasOn(tasks)) <=>
              \E i \in DOMAIN tasks : \E k \in 1..d.visits[tasks[i].schema] : v = <<i, k>>
<1>1. DOMAIN SchemasOn(tasks) = DOMAIN tasks /\ \A i \in DOMAIN tasks : SchemasOn(tasks)[i] = tasks[i].schema
  BY DEF SchemasOn
<1>2. v \in VisitsTo(d, SchemasOn(tasks)) <=>
        \E i \in DOMAIN SchemasOn(tasks) : \E k \in 1..d.visits[SchemasOn(tasks)[i]] : v = <<i, k>>
  BY VisitsAre
<1> QED
  BY <1>1, <1>2

LEMMA VisitsFinite ==
    ASSUME NEW d, NEW f, IsFiniteSet(DOMAIN f), \A i \in DOMAIN f : d.visits[f[i]] \in Nat
    PROVE  IsFiniteSet(VisitsTo(d, f)) /\ Cardinality(VisitsTo(d, f)) \in Nat
<1> DEFINE block == [i \in DOMAIN f |-> {i} \X (1..d.visits[f[i]])]
           blocks == {{i} \X (1..d.visits[f[i]]) : i \in DOMAIN f}
<1>1. ASSUME NEW i \in DOMAIN f PROVE IsFiniteSet({i} \X (1..d.visits[f[i]]))
  <2>1. IsFiniteSet(1..d.visits[f[i]])
    BY FS_Interval
  <2> QED
    BY <2>1, FS_Singleton, FS_Product
<1>2. block \in Surjection(DOMAIN f, blocks)
  BY DEF Surjection
<1>3. IsFiniteSet(blocks)
  BY <1>2, FS_Surjection
<1>4. IsFiniteSet(UNION blocks)
  BY <1>1, <1>3, FS_UNION
<1> QED
  BY <1>4, FS_CardinalityType DEF VisitsTo

\* A task gives way to parts that take fewer visits than it does.
LEMMA UsesUp ==
    ASSUME NEW d, NEW T, \A task \in T : d.visits[task.schema] \in Nat,
           NEW tasks \in Seq(T), tasks # <<>>, NEW parts \in Seq(T), NEW new \in Seq(T), Replaces(new, tasks, parts),
           Cardinality(VisitsTo(d, SchemasOn(parts))) < d.visits[Head(tasks).schema]
    PROVE  Cardinality(VisitsTo(d, SchemasOn(new))) < Cardinality(VisitsTo(d, SchemasOn(tasks)))
<1> DEFINE A == VisitsTo(d, SchemasOn(tasks))
           B == VisitsTo(d, SchemasOn(new))
           P == VisitsTo(d, SchemasOn(parts))
           n == Cardinality(P)
           w == d.visits[Head(tasks).schema]
           at(i) == (i - Len(parts)) + 1
           last == <<1, w>>
<1>1. /\ Len(parts) \in Nat /\ Head(tasks) = tasks[1] /\ 1 \in DOMAIN tasks
      /\ w \in Nat /\ \A i \in DOMAIN new : i \in Nat
  OBVIOUS
<1>2. /\ \A i \in DOMAIN parts : i \in DOMAIN new /\ new[i] = parts[i]
      /\ \A i \in DOMAIN new : i \notin DOMAIN parts => at(i) \in DOMAIN tasks /\ at(i) # 1 /\ new[i] = tasks[at(i)]
  BY Zenon DEF Replaces
<1>3. \A i, j \in DOMAIN new : at(i) = at(j) => i = j
  BY <1>1
<1>4. IsFiniteSet(A) /\ IsFiniteSet(P) /\ n \in Nat
  <2>1. \A s \in Seq(T) : IsFiniteSet(DOMAIN SchemasOn(s))
    <3> SUFFICES ASSUME NEW s \in Seq(T) PROVE IsFiniteSet(DOMAIN SchemasOn(s))
      OBVIOUS
    <3>1. DOMAIN SchemasOn(s) = 1..Len(s) /\ Len(s) \in Nat
      BY DEF SchemasOn
    <3> QED
      BY <3>1, FS_Interval
  <2>2. \A s \in Seq(T) : \A i \in DOMAIN SchemasOn(s) : d.visits[SchemasOn(s)[i]] \in Nat
    BY DEF SchemasOn
  <2> QED
    BY <2>1, <2>2, VisitsFinite
<1>5. PICK b \in Bijection(P, 1..n) : TRUE
  <2>1. IsFiniteSet(1..n) /\ Cardinality(1..n) = n
    <3>1. 1 \in Int /\ n \in Int
      BY <1>4
    <3>2. Cardinality(1..n) = IF 1 > n THEN 0 ELSE n - 1 + 1
      BY <3>1, FS_Interval
    <3> QED
      BY <1>4, <3>1, <3>2, FS_Interval
  <2>2. ExistsBijection(P, 1..n)
    BY <1>4, <2>1, FS_SameCardinalityBij
  <2> QED
    BY <2>2 DEF ExistsBijection
<1>6. /\ \A v \in P : b[v] \in 1..n
      /\ \A u, v \in P : b[u] = b[v] => u = v
  BY <1>5 DEF Bijection, Injection, IsInjective
<1> DEFINE h == [v \in B |-> IF v[1] \in DOMAIN parts THEN <<1, b[v]>> ELSE <<at(v[1]), v[2]>>]
<1>7. ASSUME NEW i \in DOMAIN new, NEW k \in 1..d.visits[new[i].schema]
      PROVE  /\ i \in DOMAIN parts => <<i, k>> \in P /\ <<1, b[<<i, k>>]>> \in A \ {last}
             /\ i \notin DOMAIN parts => <<at(i), k>> \in A \ {last}
  <2>1. CASE i \in DOMAIN parts
    <3>1. <<i, k>> \in P
      BY <1>2, <1>7, <2>1, VisitsOn
    <3>2. b[<<i, k>>] \in 1..w /\ b[<<i, k>>] # w
      BY <1>1, <1>4, <1>6, <3>1
    <3>3. <<1, b[<<i, k>>]>> \in A
      BY <1>1, <3>2, VisitsOn
    <3> QED
      BY <2>1, <3>1, <3>2, <3>3
  <2>2. CASE i \notin DOMAIN parts
    <3>1. at(i) \in DOMAIN tasks /\ at(i) # 1 /\ new[i] = tasks[at(i)]
      BY <1>2, <2>2
    <3> HIDE DEF at
    <3>2. <<at(i), k>> \in A
      BY <1>7, <3>1, VisitsOn
    <3> QED
      BY <2>2, <3>1, <3>2
  <2> QED
    BY <2>1, <2>2
<1>8. ASSUME NEW v \in B PROVE \E i \in DOMAIN new : \E k \in 1..d.visits[new[i].schema] : v = <<i, k>>
  BY <1>8, VisitsOn
<1> HIDE DEF A, B, P, n, w
<1>9. h \in [B -> A \ {last}]
  <2> SUFFICES ASSUME NEW v \in B PROVE (IF v[1] \in DOMAIN parts THEN <<1, b[v]>> ELSE <<at(v[1]), v[2]>>) \in A \ {last}
    OBVIOUS
  <2>1. PICK i \in DOMAIN new : \E k \in 1..d.visits[new[i].schema] : v = <<i, k>>
    BY <1>8
  <2>2. PICK k \in 1..d.visits[new[i].schema] : v = <<i, k>>
    BY <2>1
  <2> QED
    BY <1>7, <2>2
<1>10. ASSUME NEW u \in B, NEW v \in B, h[u] = h[v] PROVE u = v
  <2>a. PICK i \in DOMAIN new : \E k \in 1..d.visits[new[i].schema] : u = <<i, k>>
    BY <1>8
  <2>b. PICK j \in DOMAIN new : \E m \in 1..d.visits[new[j].schema] : v = <<j, m>>
    BY <1>8
  <2>1. PICK k \in 1..d.visits[new[i].schema] : u = <<i, k>>
    BY <2>a
  <2>2. PICK m \in 1..d.visits[new[j].schema] : v = <<j, m>>
    BY <2>b
  <2>3. /\ i \in DOMAIN parts => h[u] = <<1, b[u]>>
        /\ i \notin DOMAIN parts => h[u] = <<at(i), k>>
        /\ j \in DOMAIN parts => h[v] = <<1, b[v]>>
        /\ j \notin DOMAIN parts => h[v] = <<at(j), m>>
    BY <2>1, <2>2
  <2>4. /\ i \in DOMAIN parts => u \in P
        /\ i \notin DOMAIN parts => at(i) # 1
        /\ j \in DOMAIN parts => v \in P
        /\ j \notin DOMAIN parts => at(j) # 1
    BY <1>2, <1>7, <2>1, <2>2
  <2> HIDE DEF at, h
  <2>5. CASE i \in DOMAIN parts /\ j \in DOMAIN parts
    <3>1. <<1, b[u]>> = <<1, b[v]>>
      BY <1>10, <2>3, <2>5, Zenon
    <3>2. b[u] = b[v]
      BY <3>1
    <3> QED
      BY <1>6, <2>4, <2>5, <3>2
  <2>6. CASE i \notin DOMAIN parts /\ j \notin DOMAIN parts
    <3>1. <<at(i), k>> = <<at(j), m>>
      BY <1>10, <2>3, <2>6, Zenon
    <3>2. at(i) = at(j) /\ k = m
      BY <3>1
    <3> QED
      BY <1>3, <2>1, <2>2, <3>2
  <2>7. CASE i \in DOMAIN parts /\ j \notin DOMAIN parts
    <3>1. <<1, b[u]>> = <<at(j), m>>
      BY <1>10, <2>3, <2>7, Zenon
    <3>2. at(j) = 1
      BY <3>1
    <3> QED
      BY <2>4, <2>7, <3>2
  <2>8. CASE i \notin DOMAIN parts /\ j \in DOMAIN parts
    <3>1. <<at(i), k>> = <<1, b[v]>>
      BY <1>10, <2>3, <2>8, Zenon
    <3>2. at(i) = 1
      BY <3>1
    <3> QED
      BY <2>4, <2>8, <3>2
  <2> QED
    BY <2>5, <2>6, <2>7, <2>8
<1>11. h \in Injection(B, A \ {last})
  BY <1>9, <1>10 DEF Injection, IsInjective
<1>12. last \in A
  <2>1. w \in 1..w
    BY <1>1, <1>4 DEF w, n, P
  <2> QED
    BY <1>1, <2>1, VisitsOn DEF A, w
<1>13. IsFiniteSet(A \ {last}) /\ Cardinality(A \ {last}) = Cardinality(A) - 1 /\ Cardinality(A) \in Nat
  BY <1>4, <1>12, FS_RemoveElement, FS_CardinalityType
<1>14. Cardinality(B) <= Cardinality(A \ {last}) /\ Cardinality(B) \in Nat
  BY <1>11, <1>13, FS_Injection, FS_CardinalityType
<1>15. Cardinality(B) < Cardinality(A)
  BY <1>13, <1>14
<1> QED
  BY <1>15 DEF A, B

\* What is part of one thing only once takes no more visits than all of it.
LEMMA VisitsRenamed ==
    ASSUME NEW d, NEW f, NEW g, NEW keys \in [DOMAIN f -> DOMAIN g],
           \A i, j \in DOMAIN f : keys[i] = keys[j] => i = j,
           \A i \in DOMAIN f : f[i] = g[keys[i]], IsFiniteSet(VisitsTo(d, g))
    PROVE  Cardinality(VisitsTo(d, f)) <= Cardinality(VisitsTo(d, g))
<1> DEFINE A == VisitsTo(d, f)
           B == VisitsTo(d, g)
           h == [v \in A |-> <<keys[v[1]], v[2]>>]
<1>1. ASSUME NEW v \in A
      PROVE  \E i \in DOMAIN f : \E k \in 1..d.visits[f[i]] : v = <<i, k>>
  BY VisitsAre
<1>2. ASSUME NEW i \in DOMAIN f, NEW k \in 1..d.visits[f[i]] PROVE <<keys[i], k>> \in B
  BY VisitsAre
<1> HIDE DEF A, B
<1>3. h \in [A -> B]
  <2> SUFFICES ASSUME NEW v \in A PROVE <<keys[v[1]], v[2]>> \in B
    OBVIOUS
  <2>1. PICK i \in DOMAIN f : \E k \in 1..d.visits[f[i]] : v = <<i, k>>
    BY <1>1
  <2> QED
    BY <1>2, <2>1
<1>4. ASSUME NEW u \in A, NEW v \in A, h[u] = h[v] PROVE u = v
  <2>1. PICK i \in DOMAIN f : \E k \in 1..d.visits[f[i]] : u = <<i, k>>
    BY <1>1
  <2>2. PICK j \in DOMAIN f : \E k \in 1..d.visits[f[j]] : v = <<j, k>>
    BY <1>1
  <2>3. <<keys[u[1]], u[2]>> = <<keys[v[1]], v[2]>>
    BY <1>4
  <2>4. keys[u[1]] = keys[v[1]] /\ u[2] = v[2]
    BY <2>3
  <2> QED
    BY <2>1, <2>2, <2>4
<1>5. h \in Injection(A, B)
  BY <1>3, <1>4 DEF Injection, IsInjective
<1> QED
  BY <1>5, FS_Injection DEF A, B

\* A task takes a visit at least, and what its schema refers to no more than it.
LEMMA TaskTakesVisits ==
    ASSUME Typed, Acyclic(Doc)
    PROVE  /\ \A task \in AnyTask(Doc, Taken) : Doc.visits[task.schema] \in Nat \ {0}
           /\ Visiting /\ Resolved # <<>> =>
                /\ Doc.visits[Resolved[1]] \in Nat
                /\ Doc.visits[Resolved[1]] <= Doc.visits[Task.schema]
<1>1. \A task \in AnyTask(Doc, Taken) : Doc.visits[task.schema] \in Nat \ {0}
  BY DEF AnyTask, Acyclic
<1>2. ASSUME Visiting, Resolved # <<>>
      PROVE  /\ Doc.visits[Resolved[1]] \in Nat
             /\ Doc.visits[Resolved[1]] <= Doc.visits[Task.schema]
  <2>1. PICK target \in Reached(Doc, Task.schema) : Resolved = <<target>>
    BY <1>2, ResolveReaches DEF Typed, Resolved
  <2>2. Resolved[1] = target /\ Resolved[1] \in Doc.schemas /\ Task.schema \in Doc.schemas
    BY <1>2, <2>1, ResolvedTyped, TaskTyped
  <2> QED
    BY <2>1, <2>2 DEF Acyclic
<1> QED
  BY <1>1, <1>2

\* The task under visit gives way to parts that take fewer visits.
LEMMA StackShrinks ==
    ASSUME Typed, Visiting, Acyclic(Doc), doc' = doc,
           NEW parts \in Seq(AnyTask(Doc, Taken)), stack' = parts \o Tail(stack),
           Cardinality(VisitsTo(Doc, SchemasOn(parts))) < Doc.visits[Task.schema]
    PROVE  VisitsLeft' < VisitsLeft
<1> DEFINE T == AnyTask(Doc, Taken)
<1>1. stack \in Seq(T) /\ stack # <<>> /\ Head(stack) = Task
  BY TaskTyped
<1>2. \A task \in T : Doc.visits[task.schema] \in Nat
  BY TaskTakesVisits
<1>3. PICK tasks, new : tasks = stack /\ new = stack'
  OBVIOUS
<1> HIDE DEF T
<1>4. new \in Seq(T) /\ Replaces(new, tasks, parts)
  BY <1>1, <1>3, Unfolded DEF T
<1>5. Cardinality(VisitsTo(Doc, SchemasOn(new))) < Cardinality(VisitsTo(Doc, SchemasOn(tasks)))
  BY <1>1, <1>2, <1>3, <1>4, UsesUp DEF T
<1>6. /\ VisitsLeft = Cardinality(VisitsTo(Doc, SchemasOn(tasks)))
      /\ VisitsLeft' = Cardinality(VisitsTo(Doc, SchemasOn(new)))
  BY <1>3 DEF VisitsLeft, SchemasOn, Doc
<1> QED
  BY <1>5, <1>6

\* It may leave no parts.
LEMMA StackPops ==
    ASSUME Typed, Visiting, Acyclic(Doc), doc' = doc, stack' = Tail(stack)
    PROVE  VisitsLeft' < VisitsLeft
<1>1. <<>> \in Seq(AnyTask(Doc, Taken)) /\ Tail(stack) \in Seq(AnyTask(Doc, Taken)) /\ Task \in AnyTask(Doc, Taken)
  BY TaskTyped, EmptySeq
<1>2. stack' = <<>> \o Tail(stack)
  BY <1>1, ConcatEmptySeq
<1>3. Cardinality(VisitsTo(Doc, SchemasOn(<<>>))) = 0
  <2>1. \A v : v \notin VisitsTo(Doc, SchemasOn(<<>>))
    <3>1. DOMAIN <<>> = {}
      OBVIOUS
    <3> QED
      BY <3>1, VisitsOn
  <2>2. VisitsTo(Doc, SchemasOn(<<>>)) = {}
    BY <2>1
  <2> QED
    BY <2>2, FS_EmptySet
<1>4. Cardinality(VisitsTo(Doc, SchemasOn(<<>>))) < Doc.visits[Task.schema]
  BY <1>1, <1>3, TaskTakesVisits
<1> QED
  BY <1>1, <1>2, <1>4, StackShrinks

LEMMA AllOfShrinks ==
    ASSUME Inv, VisitAllOf, Acyclic(Doc)
    PROVE  VisitsLeft' < VisitsLeft
<1> DEFINE t == Resolved[1]
<1>1. Typed /\ Visiting /\ Resolved # <<>> /\ "allOf" \in DOMAIN t /\ doc' = doc
  BY DEF VisitAllOf, IsAllOf, Inv
<1>2. PICK parts \in Seq(AnyTask(Doc, Taken)) :
        /\ stack' = parts \o Tail(stack) /\ DOMAIN parts = DOMAIN t.allOf
        /\ \A i \in DOMAIN parts : parts[i] = TaskWith(Task, Task.path, t.allOf[i])
  BY PartsPushed
<1>3. t \in Doc.schemas /\ Task \in AnyTask(Doc, Taken) /\ t.allOf \in Seq(Doc.schemas)
  BY <1>1, ResolvedTyped, TaskTyped, PartsTyped
<1> HIDE DEF t
<1>4. \A i \in DOMAIN parts : parts[i].schema = t.allOf[i]
  BY <1>2, <1>3 DEF TaskWith, AnyTask
<1>5. VisitsTo(Doc, SchemasOn(parts)) = VisitsTo(Doc, t.allOf)
  <2>1. ASSUME NEW v PROVE v \in VisitsTo(Doc, SchemasOn(parts)) <=> v \in VisitsTo(Doc, t.allOf)
    BY <1>2, <1>4, VisitsOn, VisitsAre
  <2> QED
    BY <2>1
<1>6. Cardinality(VisitsTo(Doc, t.allOf)) < Doc.visits[t] /\ IsFiniteSet(DOMAIN t.allOf)
  <2>1. DOMAIN t.allOf = 1..Len(t.allOf) /\ 1 \in Int /\ Len(t.allOf) \in Int
    BY <1>3
  <2> QED
    BY <1>1, <1>3, <2>1, FS_Interval DEF Acyclic
<1>7. Doc.visits[t] \in Nat /\ Doc.visits[t] <= Doc.visits[Task.schema] /\ Doc.visits[Task.schema] \in Nat
  BY <1>1, <1>3, TaskTakesVisits DEF t
<1>8. Cardinality(VisitsTo(Doc, t.allOf)) \in Nat
  BY <1>3, <1>6, VisitsFinite DEF Acyclic
<1>9. Cardinality(VisitsTo(Doc, SchemasOn(parts))) < Doc.visits[Task.schema]
  BY <1>5, <1>6, <1>7, <1>8
<1> QED
  BY <1>1, <1>2, <1>9, StackShrinks

LEMMA PropertiesShrink ==
    ASSUME Inv, VisitProperties, Acyclic(Doc)
    PROVE  VisitsLeft' < VisitsLeft
<1> DEFINE t == Resolved[1]
           props == t.props
<1>1. Typed /\ Visiting /\ Properties # <<>> /\ doc' = doc
  BY DEF VisitProperties, Inv
<1>2. Resolved # <<>> /\ "allOf" \notin DOMAIN t /\ "props" \in DOMAIN t /\ Properties = props
  BY <1>1, Zenon DEF Properties, IsPlain
<1>3. PICK keys : \E parts \in Seq(AnyTask(Doc, Taken)) :
        /\ stack' = parts \o Tail(stack) /\ keys \in [DOMAIN parts -> DOMAIN props]
        /\ \A i, j \in DOMAIN parts : keys[i] = keys[j] => i = j
        /\ \A i \in DOMAIN parts : parts[i] = TaskWith(Task, Member(Task.path, keys[i]), props[keys[i]])
  BY <1>2, MembersPushed, Zenon
<1>4. PICK parts \in Seq(AnyTask(Doc, Taken)) :
        /\ stack' = parts \o Tail(stack) /\ keys \in [DOMAIN parts -> DOMAIN props]
        /\ \A i, j \in DOMAIN parts : keys[i] = keys[j] => i = j
        /\ \A i \in DOMAIN parts : parts[i] = TaskWith(Task, Member(Task.path, keys[i]), props[keys[i]])
  BY <1>3, Zenon
<1>5. /\ t \in Doc.schemas /\ Doc \in AnyDocument /\ Task \in AnyTask(Doc, Taken)
      /\ IsFiniteSet(DOMAIN props) /\ \A key \in DOMAIN props : props[key] \in Doc.schemas
  BY <1>1, <1>2, ResolvedTyped, TaskTyped, PartsTyped
<1>6. Cardinality(VisitsTo(Doc, props)) < Doc.visits[t]
  BY <1>2, <1>5 DEF Acyclic
<1>7. Doc.visits[t] \in Nat /\ Doc.visits[t] <= Doc.visits[Task.schema] /\ Doc.visits[Task.schema] \in Nat
  BY <1>1, <1>2, <1>5, TaskTakesVisits
<1> HIDE DEF props, t
<1>8. IsFiniteSet(VisitsTo(Doc, props)) /\ Cardinality(VisitsTo(Doc, props)) \in Nat
  BY <1>5, VisitsFinite DEF Acyclic
<1>9. /\ DOMAIN SchemasOn(parts) = DOMAIN parts
      /\ \A i \in DOMAIN parts : SchemasOn(parts)[i] = props[keys[i]]
  BY <1>4, <1>5 DEF SchemasOn, TaskWith, AnyTask
<1>10. Cardinality(VisitsTo(Doc, SchemasOn(parts))) <= Cardinality(VisitsTo(Doc, props))
  BY <1>4, <1>8, <1>9, VisitsRenamed
<1>11. Cardinality(VisitsTo(Doc, SchemasOn(parts))) \in Nat
  <2>1. IsFiniteSet(DOMAIN parts) /\ \A i \in DOMAIN parts : Doc.visits[SchemasOn(parts)[i]] \in Nat
    <3>1. DOMAIN parts = 1..Len(parts) /\ 1 \in Int /\ Len(parts) \in Int
      OBVIOUS
    <3>2. \A i \in DOMAIN parts : SchemasOn(parts)[i] \in Doc.schemas
      BY <1>4, <1>5, <1>9
    <3> QED
      BY <3>1, <3>2, FS_Interval DEF Acyclic
  <2> QED
    BY <1>9, <2>1, VisitsFinite
<1>12. Cardinality(VisitsTo(Doc, SchemasOn(parts))) < Doc.visits[Task.schema]
  BY <1>6, <1>7, <1>8, <1>10, <1>11
<1> QED
  BY <1>1, <1>4, <1>12, StackShrinks

\* For documents without a cycle every step ends the run, takes an endpoint for
\* good, or uses up a visit, so that the recursion of collectSchema is bounded.
THEOREM GeneratorProceedsCorrect == Spec => GeneratorProceeds
<1> DEFINE proceeds ==
             /\ status = "running"
             /\ \/ status' # "running"
                \/ remaining' \subseteq remaining /\ remaining' # remaining
                \/ remaining' = remaining /\ VisitsLeft' < VisitsLeft
<1>1. Inv /\ [Next]_vars => [Acyclic(Documents[doc]) => proceeds]_vars
  <2> SUFFICES ASSUME Inv, Next, Acyclic(Doc) PROVE proceeds
    BY DEF Doc
  <2>1. Typed
    BY DEF Inv
  <2>2. CASE NextEndpoint
    <3>1. PICK endpoint \in remaining : remaining' = remaining \ {endpoint}
      BY <2>2 DEF NextEndpoint
    <3> QED
      BY <2>2, <3>1 DEF NextEndpoint
  <2>3. CASE VisitBroken
    BY <2>3 DEF VisitBroken, Visiting
  <2>4. CASE VisitAllOf
    BY <2>4, AllOfShrinks DEF VisitAllOf, Visiting
  <2>5. CASE VisitNumber
    <3>1. Visiting /\ doc' = doc /\ stack' = Tail(stack) /\ remaining' = remaining
      BY <2>5 DEF VisitNumber
    <3> QED
      BY <2>1, <3>1, StackPops DEF Visiting
  <2>6. CASE VisitLabelled
    <3>1. Visiting /\ doc' = doc /\ stack' = Tail(stack) /\ remaining' = remaining
      BY <2>6 DEF VisitLabelled
    <3> QED
      BY <2>1, <3>1, StackPops DEF Visiting
  <2>7. CASE VisitProperties
    BY <2>7, PropertiesShrink DEF VisitProperties, Visiting
  <2>8. CASE VisitOther
    <3>1. Visiting /\ doc' = doc /\ stack' = Tail(stack) /\ remaining' = remaining
      BY <2>8 DEF VisitOther
    <3> QED
      BY <2>1, <3>1, StackPops DEF Visiting
  <2>9. CASE Finish
    BY <2>9 DEF Finish
  <2> QED
    BY <2>2, <2>3, <2>4, <2>5, <2>6, <2>7, <2>8, <2>9 DEF Next
<1> QED
  BY <1>1, Invariance, PTL DEF Spec, GeneratorProceeds
=============================================================================
