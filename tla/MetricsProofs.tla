--------------------------- MODULE MetricsProofs ---------------------------
(***************************************************************************)
(* Proofs about Metrics, for any table whose fields lie at the first or    *)
(* second level and any JSON that Pi-hole may answer.                      *)
(***************************************************************************)
EXTENDS Metrics, FiniteSetTheorems, SequenceTheorems, TLAPS

-----------------------------------------------------------------------------
(* JSON values                                                             *)

\* An object, all of whose members are JSON values.
Body(value) ==
    /\ IsObject(value)
    /\ IsFiniteSet(DOMAIN value.obj) /\ DOMAIN value.obj \subseteq Strings
    /\ \A key \in DOMAIN value.obj : value.obj[key] \in Json

\* A JSON value is an object or a scalar of one kind, which numberValue tells.
LEMMA ScalarKinds ==
    ASSUME NEW value \in Scalars
    PROVE  /\ value # Missing /\ ~IsObject(value)
           /\ NumberValue(value) # <<>> <=> Numeric(value)
           /\ Numeric(value) => NumberValue(value)[1] = Number(value) /\ Number(value) \in Numbers
<1>1. CASE value \in [num : Numbers]
  <2>1. DOMAIN value = {"num"} /\ value.num \in Numbers
    BY <1>1
  <2>2. NumberValue(value) = <<value.num>> /\ Number(value) = value.num /\ Numeric(value)
    BY <2>1 DEF NumberValue, Number, Numeric
  <2> QED
    BY <2>1, <2>2 DEF IsObject, Missing
<1>2. CASE value \in [bool : BOOLEAN]
  <2>1. DOMAIN value = {"bool"} /\ value = [bool |-> value.bool] /\ value.bool \in BOOLEAN
    BY <1>2
  <2>2. NumberValue(value) = <<IF value.bool THEN 1 ELSE 0>> /\ Numeric(value)
    BY <2>1 DEF NumberValue, Numeric
  <2>3. Number(value) = IF value.bool THEN 1 ELSE 0
    BY <2>1 DEF Number
  <2> QED
    BY <2>1, <2>2, <2>3, NumbersAssumption DEF IsObject, Missing
<1>3. CASE value \in {[big |-> TRUE], [other |-> TRUE]}
  <2>1. DOMAIN value = {"big"} \/ DOMAIN value = {"other"}
    BY <1>3
  <2>2. NumberValue(value) = <<>> /\ ~Numeric(value)
    BY <2>1 DEF NumberValue, Numeric
  <2> QED
    BY <2>1, <2>2 DEF IsObject, Missing
<1> QED
  BY <1>1, <1>2, <1>3 DEF Scalars

\* The same of any JSON value: an object has JSON members and is not a number.
LEMMA JsonKinds ==
    ASSUME NEW value \in Json
    PROVE  /\ value # Missing
           /\ IsObject(value) => Body(value) /\ ~Numeric(value)
           /\ NumberValue(value) # <<>> <=> Numeric(value)
           /\ Numeric(value) => NumberValue(value)[1] = Number(value) /\ Number(value) \in Numbers
<1>1. CASE value \in Scalars
  BY <1>1, ScalarKinds
<1>2. CASE value \notin Scalars
  <2>1. DOMAIN value = {"obj"}
    BY <1>2, JsonAssumption
  <2>2. value # Missing /\ Body(value)
    BY <1>2, <2>1, JsonAssumption DEF Missing, Body, IsObject
  <2>3. NumberValue(value) = <<>> /\ ~Numeric(value)
    BY <2>1 DEF NumberValue, Numeric
  <2> QED
    BY <2>2, <2>3
<1> QED
  BY <1>1, <1>2

\* What GetJSONMap makes of an answer is an object, or not one.
LEMMA DecodedBody ==
    ASSUME NEW endpoint \in Endpoints, NEW value \in Answers[endpoint], IsObject(Decoded(value))
    PROVE  Body(Decoded(value))
<1>1. CASE value = NullBody
  <2>1. Decoded(value).obj = <<>>
    BY <1>1 DEF Decoded
  <2>2. DOMAIN Decoded(value).obj = {}
    BY <2>1
  <2> QED
    BY <2>2, FS_EmptySet DEF Body
<1>2. CASE value # NullBody
  BY <1>2, JsonKinds, AnswersAssumption DEF Decoded
<1> QED
  BY <1>1, <1>2

-----------------------------------------------------------------------------
(* lookup                                                                  *)

\* A walk along a path: where lookup is after each part.
Walk(at, root, path) ==
    at = [n \in 0..Len(path) |-> IF n = 0 THEN root ELSE Member(at[n - 1], path[n])]

\* lookup is where such a walk ends; one is enough to know that there is one.
LEMMA LookupWalks ==
    ASSUME NEW root, NEW path, NEW step, Walk(step, root, path)
    PROVE  \E at : Walk(at, root, path) /\ Lookup(root, path) = at[Len(path)]
<1> DEFINE at == CHOOSE f : Walk(f, root, path)
<1>1. Walk(at, root, path)
  OBVIOUS
<1>2. Lookup(root, path) = at[Len(path)]
  BY DEF Lookup, Walk
<1> QED
  BY <1>1, <1>2

\* A walk starts at the root and goes to a member with every part.
LEMMA WalkStep ==
    ASSUME NEW root, NEW path \in Seq(Strings), NEW at, Walk(at, root, path)
    PROVE  /\ at[0] = root
           /\ \A n \in 1..Len(path) : at[n] = Member(at[n - 1], path[n])
  BY DEF Walk

\* A path of one part leads to a member of the root.
LEMMA LookupFirst ==
    ASSUME NEW root, NEW path \in Seq(Strings), Len(path) = 1
    PROVE  Lookup(root, path) = Member(root, path[1])
<1> DEFINE step == [n \in 0..Len(path) |-> IF n = 0 THEN root ELSE Member(root, path[1])]
<1>1. step[0] = root /\ \A n \in 0..Len(path) : n # 0 => n = 1 /\ step[n - 1] = root
  OBVIOUS
<1>2. Walk(step, root, path)
  BY <1>1 DEF Walk
<1>3. PICK at : Walk(at, root, path) /\ Lookup(root, path) = at[1]
  BY <1>2, LookupWalks
<1>4. at[0] = root /\ at[1] = Member(at[1 - 1], path[1])
  BY <1>3, WalkStep
<1> QED
  BY <1>3, <1>4

\* A path of two parts leads to a member of a member.
LEMMA LookupSecond ==
    ASSUME NEW root, NEW path \in Seq(Strings), Len(path) = 2
    PROVE  Lookup(root, path) = Member(Member(root, path[1]), path[2])
<1> DEFINE first == Member(root, path[1])
           step == [n \in 0..Len(path) |->
                      IF n = 0 THEN root ELSE IF n = 1 THEN first ELSE Member(first, path[2])]
<1>1. step[0] = root /\ step[1] = first /\ step[2] = Member(first, path[2])
  OBVIOUS
<1>2. \A n \in 0..Len(path) : step[n] = IF n = 0 THEN root ELSE Member(step[n - 1], path[n])
  <2>1. \A n \in 0..Len(path) : n = 0 \/ n = 1 \/ n = 2
    OBVIOUS
  <2>2. step[1] = Member(step[1 - 1], path[1]) /\ step[2] = Member(step[2 - 1], path[2])
    BY <1>1
  <2> HIDE DEF step
  <2> QED
    BY <1>1, <2>1, <2>2
<1>3. Walk(step, root, path)
  BY <1>2 DEF Walk
<1>4. PICK at : Walk(at, root, path) /\ Lookup(root, path) = at[2]
  BY <1>3, LookupWalks
<1>5. at[0] = root /\ at[1] = Member(at[1 - 1], path[1])
  BY <1>4, WalkStep
<1>6. at[2] = Member(at[2 - 1], path[2])
  BY <1>4, WalkStep
<1> QED
  BY <1>4, <1>5, <1>6

-----------------------------------------------------------------------------
(* Fields and paths                                                        *)

\* The tuples that Nodes is made of, by name, so that a prover need not look
\* into them.
Empty == <<>>
One(k) == <<k>>
Two(k, l) == <<k, l>>
Three(k, l, m) == <<k, l, m>>
Longer(path, key) == Append(path, key)
Node(path, value) == <<path, value>>

\* A node is its path and its value.
LEMMA NodeParts == ASSUME NEW path, NEW value PROVE Node(path, value)[1] = path /\ Node(path, value)[2] = value
  BY DEF Node

\* A tuple of one is a sequence of one.
LEMMA OneIs ==
    ASSUME NEW S, NEW k \in S
    PROVE  One(k) \in Seq(S) /\ Len(One(k)) = 1 /\ One(k)[1] = k
  BY DEF One

\* A tuple of two is a sequence of two.
LEMMA TwoIs ==
    ASSUME NEW S, NEW k \in S, NEW l \in S
    PROVE  Two(k, l) \in Seq(S) /\ Len(Two(k, l)) = 2 /\ Two(k, l)[1] = k /\ Two(k, l)[2] = l
<1>1. Two(k, l) \in Seq(S)
  BY DEF Two
<1>2. Len(Two(k, l)) = 2 /\ Two(k, l)[1] = k /\ Two(k, l)[2] = l
  BY DEF Two
<1> QED
  BY <1>1, <1>2

\* A tuple of three is a sequence of three.
LEMMA ThreeIs ==
    ASSUME NEW S, NEW k \in S, NEW l \in S, NEW m \in S
    PROVE  /\ Three(k, l, m) \in Seq(S) /\ Len(Three(k, l, m)) = 3
           /\ Three(k, l, m)[1] = k /\ Three(k, l, m)[2] = l /\ Three(k, l, m)[3] = m
<1>1. Three(k, l, m) \in Seq(S)
  BY DEF Three
<1>2. /\ Len(Three(k, l, m)) = 3
      /\ Three(k, l, m)[1] = k /\ Three(k, l, m)[2] = l /\ Three(k, l, m)[3] = m
  BY DEF Three
<1> QED
  BY <1>1, <1>2

\* Tuples that grow by one.
LEMMA Grown ==
    ASSUME NEW S, NEW s \in Seq(S), NEW e \in S
    PROVE  /\ Append(s, e) \in Seq(S)
           /\ Len(s) = 1 => Len(Append(s, e)) = 2 /\ Append(s, e)[1] = s[1] /\ Append(s, e)[2] = e
           /\ Len(s) = 2 => /\ Len(Append(s, e)) = 3
                            /\ Append(s, e)[1] = s[1] /\ Append(s, e)[2] = s[2] /\ Append(s, e)[3] = e
<1>1. PICK t : t = Append(s, e)
  OBVIOUS
<1>2. t \in Seq(S)
  BY <1>1, AppendProperties
<1>3. Len(t) = Len(s) + 1
  BY <1>1, AppendProperties
<1>4. t[Len(s) + 1] = e
  BY <1>1, AppendProperties
<1>5. \A i \in 1..Len(s) : t[i] = s[i]
  BY <1>1, AppendProperties
<1>6. Len(s) = 1 => Len(t) = 2 /\ t[1] = s[1] /\ t[2] = e
  BY <1>3, <1>4, <1>5
<1>7. Len(s) = 2 => Len(t) = 3 /\ t[1] = s[1] /\ t[2] = s[2] /\ t[3] = e
  BY <1>3, <1>4, <1>5
<1> QED
  BY <1>1, <1>2, <1>6, <1>7, Zenon

\* The empty tuple grows to one of one.
LEMMA AppendEmpty == ASSUME NEW k PROVE Longer(Empty, k) = One(k)
  BY DEF Longer, Empty, One

\* A tuple of one grows to one of two.
LEMMA AppendOne == ASSUME NEW k, NEW l PROVE Longer(One(k), l) = Two(k, l)
<1>0. PICK S : k \in S /\ l \in S
  <2>1. k \in {k, l} /\ l \in {k, l}
    OBVIOUS
  <2> QED
    BY <2>1
<1>1. One(k) \in Seq(S) /\ Len(One(k)) = 1 /\ One(k)[1] = k
  BY <1>0, OneIs
<1>2. Two(k, l) \in Seq(S) /\ Len(Two(k, l)) = 2 /\ Two(k, l)[1] = k /\ Two(k, l)[2] = l
  BY <1>0, TwoIs
<1>3. PICK u : u = Append(One(k), l)
  OBVIOUS
<1>4. u \in Seq(S)
  BY <1>0, <1>1, <1>3, Grown
<1>5. Len(u) = 2 /\ u[1] = One(k)[1] /\ u[2] = l
  BY <1>0, <1>1, <1>3, Grown
<1>6. \A i \in 1..2 : u[i] = Two(k, l)[i]
  BY <1>1, <1>2, <1>5
<1>7. u = Two(k, l)
  BY <1>2, <1>4, <1>5, <1>6, SeqEqual
<1> QED
  BY <1>3, <1>7 DEF Longer

\* A tuple of two grows to one of three.
LEMMA AppendTwo == ASSUME NEW k, NEW l, NEW m PROVE Longer(Two(k, l), m) = Three(k, l, m)
<1>0. PICK S : k \in S /\ l \in S /\ m \in S
  <2>1. k \in {k, l, m} /\ l \in {k, l, m} /\ m \in {k, l, m}
    OBVIOUS
  <2> QED
    BY <2>1
<1>1. Two(k, l) \in Seq(S) /\ Len(Two(k, l)) = 2 /\ Two(k, l)[1] = k /\ Two(k, l)[2] = l
  BY <1>0, TwoIs
<1>2. /\ Three(k, l, m) \in Seq(S) /\ Len(Three(k, l, m)) = 3
      /\ Three(k, l, m)[1] = k /\ Three(k, l, m)[2] = l /\ Three(k, l, m)[3] = m
  BY <1>0, ThreeIs
<1>3. PICK u : u = Append(Two(k, l), m)
  OBVIOUS
<1>4. u \in Seq(S)
  BY <1>0, <1>1, <1>3, Grown
<1>5. Len(u) = 3 /\ u[1] = Two(k, l)[1] /\ u[2] = Two(k, l)[2] /\ u[3] = m
  BY <1>0, <1>1, <1>3, Grown
<1>6. \A i \in 1..3 : u[i] = Three(k, l, m)[i]
  BY <1>1, <1>2, <1>5
<1>7. u = Three(k, l, m)
  BY <1>2, <1>4, <1>5, <1>6, SeqEqual
<1> QED
  BY <1>3, <1>7 DEF Longer

\* The front and the last of them.
LEMMA FrontOf ==
    ASSUME NEW k, NEW l, NEW m
    PROVE  /\ Front(One(k)) = Empty /\ Front(Two(k, l)) = One(k) /\ Front(Three(k, l, m)) = Two(k, l)
           /\ Last(One(k)) = k /\ Last(Two(k, l)) = l /\ Last(Three(k, l, m)) = m
<1> DEFINE S == {k, l, m}
<1>1. k \in S /\ l \in S /\ m \in S
  OBVIOUS
<1> HIDE DEF S
<1>2. One(k) \in Seq(S) /\ Len(One(k)) = 1 /\ One(k)[1] = k
  BY <1>1, OneIs
<1>3. Two(k, l) \in Seq(S) /\ Len(Two(k, l)) = 2 /\ Two(k, l)[1] = k /\ Two(k, l)[2] = l
  BY <1>1, TwoIs
<1>4. /\ Three(k, l, m) \in Seq(S) /\ Len(Three(k, l, m)) = 3
      /\ Three(k, l, m)[1] = k /\ Three(k, l, m)[2] = l /\ Three(k, l, m)[3] = m
  BY <1>1, ThreeIs
<1>5. Front(One(k)) = Empty
  <2>1. Front(One(k)) \in Seq(S) /\ Len(Front(One(k))) = 0
    BY <1>2 DEF Front
  <2> QED
    BY <2>1, EmptySeq DEF Empty
<1>6. Front(Two(k, l)) = One(k)
  <2> DEFINE front == Front(Two(k, l))
  <2>1. front \in Seq(S) /\ Len(front) = 1 /\ front[1] = k
    BY <1>3 DEF Front
  <2> HIDE DEF front
  <2>2. \A i \in 1..1 : front[i] = One(k)[i]
    BY <1>2, <2>1
  <2>3. front = One(k)
    BY <1>2, <2>1, <2>2, SeqEqual
  <2> QED
    BY <2>3 DEF front
<1>7. Front(Three(k, l, m)) = Two(k, l)
  <2> DEFINE front == Front(Three(k, l, m))
  <2>1. front \in Seq(S) /\ Len(front) = 2
    BY <1>4 DEF Front
  <2>4. front[1] = k /\ front[2] = l
    BY <1>4 DEF Front
  <2> HIDE DEF front
  <2>2. \A i \in 1..2 : front[i] = Two(k, l)[i]
    BY <1>3, <2>4
  <2>3. front = Two(k, l)
    BY <1>3, <2>1, <2>2, SeqEqual
  <2> QED
    BY <2>3 DEF front
<1>8. Last(One(k)) = k /\ Last(Two(k, l)) = l /\ Last(Three(k, l, m)) = m
  BY <1>2, <1>3, <1>4 DEF Last
<1> QED
  BY <1>5, <1>6, <1>7, <1>8

\* Tuples are equal when their parts are, and only at the same length.
LEMMA TuplesDiffer ==
    ASSUME NEW k, NEW l, NEW m, NEW p, NEW q
    PROVE  /\ One(k) = One(p) => k = p
           /\ Two(k, l) = Two(p, q) => k = p /\ l = q
           /\ Empty # One(p) /\ Empty # Two(p, q) /\ One(k) # Two(p, q) /\ Two(k, l) # One(p)
           /\ Three(k, l, m) # One(p) /\ Three(k, l, m) # Two(p, q)
  BY DEF Empty, One, Two, Three

\* A path of a row is such a tuple.
LEMMA ShortPath ==
    ASSUME NEW path \in Seq(Strings)
    PROVE  /\ Len(path) = 1 => path = One(path[1])
           /\ Len(path) = 2 => path = Two(path[1], path[2])
<1>1. ASSUME Len(path) = 1 PROVE path = One(path[1])
  <2>1. path[1] \in Strings
    BY <1>1
  <2>2. One(path[1]) \in Seq(Strings) /\ Len(One(path[1])) = 1 /\ One(path[1])[1] = path[1]
    BY <2>1, OneIs
  <2>3. \A i \in 1..Len(path) : path[i] = One(path[1])[i]
    BY <1>1, <2>2
  <2> QED
    BY <1>1, <2>2, <2>3, SeqEqual
<1>2. ASSUME Len(path) = 2 PROVE path = Two(path[1], path[2])
  <2>1. path[1] \in Strings /\ path[2] \in Strings
    BY <1>2
  <2>2. PICK p \in Strings : p = path[1]
    BY <2>1
  <2>3. PICK q \in Strings : q = path[2]
    BY <2>1
  <2>4. PICK two \in Seq(Strings) : two = Two(p, q) /\ Len(two) = 2 /\ two[1] = p /\ two[2] = q
    BY ONLY TwoIs
  <2>5. \A i \in 1..Len(path) : path[i] = two[i]
    BY <1>2, <2>2, <2>3, <2>4
  <2>6. path = two
    BY <1>2, <2>4, <2>5, SeqEqual
  <2> QED
    BY <2>2, <2>3, <2>4, <2>6
<1> QED
  BY <1>1, <1>2

\* Whether a node is at the first, second or third level of a body.
At1(body, n) == \E k \in Fields(body) : n = Node(One(k), body.obj[k])
At2(body, n) ==
    \E k \in Fields(body) : \E l \in Fields(body.obj[k]) : n = Node(Two(k, l), body.obj[k].obj[l])
At3(body, n) ==
    \E k \in Fields(body) : \E l \in Fields(body.obj[k]) : \E m \in Fields(body.obj[k].obj[l]) :
        n = Node(Three(k, l, m), body.obj[k].obj[l].obj[m])

\* One level further down.
Below(node, n) == \E key \in Fields(node[2]) : n = Node(Longer(node[1], key), node[2].obj[key])

\* What is under a set of nodes is below one of them.
LEMMA UnderMember ==
    ASSUME NEW nodes, NEW n
    PROVE  n \in Under(nodes) <=> \E node \in nodes : Below(node, n)
  BY DEF Under, Below, Node, Longer

\* What is below a node has its path and one key more.
LEMMA BelowNode ==
    ASSUME NEW path, NEW value, NEW n
    PROVE  Below(Node(path, value), n) <=> \E key \in Fields(value) : n = Node(Longer(path, key), value.obj[key])
<1> DEFINE node == Node(path, value)
<1>1. node[1] = path /\ node[2] = value
  BY NodeParts
<1> HIDE DEF node
<1>2. Below(node, n) <=> \E key \in Fields(value) : n = Node(Longer(path, key), value.obj[key])
  BY <1>1 DEF Below
<1> QED
  BY <1>2 DEF node

\* Under the body itself are the nodes of the first level.
LEMMA FirstLevel ==
    ASSUME NEW body, NEW n
    PROVE  n \in Under({Node(Empty, body)}) <=> At1(body, n)
<1>1. n \in Under({Node(Empty, body)}) <=> Below(Node(Empty, body), n)
  BY UnderMember
<1> QED
  BY <1>1, AppendEmpty, BelowNode DEF At1

\* Under those are the nodes of the second level.
LEMMA SecondLevel ==
    ASSUME NEW body, NEW n
    PROVE  n \in Under(Under({Node(Empty, body)})) <=> At2(body, n)
<1> DEFINE nodes == Under({Node(Empty, body)})
<1>1. \A node : node \in nodes <=> At1(body, node)
  BY FirstLevel
<1> HIDE DEF nodes
<1>2. n \in Under(nodes) <=> \E node \in nodes : Below(node, n)
  BY UnderMember
<1>3. n \in Under(nodes) <=> \E k \in Fields(body) : Below(Node(One(k), body.obj[k]), n)
  BY <1>1, <1>2 DEF At1
<1>4. \A k : Below(Node(One(k), body.obj[k]), n) <=>
              \E l \in Fields(body.obj[k]) : n = Node(Two(k, l), body.obj[k].obj[l])
  BY BelowNode, AppendOne
<1> QED
  BY <1>3, <1>4 DEF At2, nodes

\* Under those are the nodes of the third level.
LEMMA ThirdLevel ==
    ASSUME NEW body, NEW n
    PROVE  n \in Under(Under(Under({Node(Empty, body)}))) <=> At3(body, n)
<1> DEFINE nodes == Under(Under({Node(Empty, body)}))
<1>1. \A node : node \in nodes <=> At2(body, node)
  BY SecondLevel
<1> HIDE DEF nodes
<1>2. n \in Under(nodes) <=> \E node \in nodes : Below(node, n)
  BY UnderMember
<1>3. n \in Under(nodes) <=>
        \E k \in Fields(body) : \E l \in Fields(body.obj[k]) : Below(Node(Two(k, l), body.obj[k].obj[l]), n)
  BY <1>1, <1>2 DEF At2
<1>4. \A k, l : Below(Node(Two(k, l), body.obj[k].obj[l]), n) <=>
                 \E m \in Fields(body.obj[k].obj[l]) : n = Node(Three(k, l, m), body.obj[k].obj[l].obj[m])
  BY BelowNode, AppendTwo
<1> QED
  BY <1>3, <1>4 DEF At3, nodes

\* The nodes of a body are those of the three levels.
LEMMA NodeLevels ==
    ASSUME NEW body, NEW n
    PROVE  n \in Nodes(body) <=> At1(body, n) \/ At2(body, n) \/ At3(body, n)
<1>1. Nodes(body) = Under({Node(Empty, body)}) \cup Under(Under({Node(Empty, body)}))
                      \cup Under(Under(Under({Node(Empty, body)})))
  BY DEF Nodes, Node, Empty
<1> QED
  BY <1>1, FirstLevel, SecondLevel, ThirdLevel

\* The path of a node tells its level.
LEMMA LevelOfPath ==
    ASSUME NEW body, NEW n \in Nodes(body)
    PROVE  \/ \E k \in Fields(body) : n = Node(One(k), body.obj[k]) /\ n[1] = One(k) /\ Front(n[1]) = Empty
           \/ \E k \in Fields(body) : \E l \in Fields(body.obj[k]) :
                /\ n = Node(Two(k, l), body.obj[k].obj[l])
                /\ n[1] = Two(k, l) /\ Front(n[1]) = One(k)
           \/ \E k \in Fields(body) : \E l \in Fields(body.obj[k]) : \E m \in Fields(body.obj[k].obj[l]) :
                /\ n = Node(Three(k, l, m), body.obj[k].obj[l].obj[m])
                /\ n[1] = Three(k, l, m) /\ Front(n[1]) = Two(k, l)
<1>0. \A k, l, m, v :
        /\ Node(One(k), v)[1] = One(k) /\ Front(Node(One(k), v)[1]) = Empty
        /\ Node(Two(k, l), v)[1] = Two(k, l) /\ Front(Node(Two(k, l), v)[1]) = One(k)
        /\ Node(Three(k, l, m), v)[1] = Three(k, l, m) /\ Front(Node(Three(k, l, m), v)[1]) = Two(k, l)
  BY NodeParts, FrontOf
<1>1. CASE At1(body, n)
  <2>1. PICK k \in Fields(body) : n = Node(One(k), body.obj[k])
    BY <1>1 DEF At1
  <2> QED
    BY <1>0, <2>1
<1>2. CASE At2(body, n)
  <2>1. PICK k \in Fields(body) : \E l \in Fields(body.obj[k]) : n = Node(Two(k, l), body.obj[k].obj[l])
    BY <1>2 DEF At2
  <2>2. PICK l \in Fields(body.obj[k]) : n = Node(Two(k, l), body.obj[k].obj[l])
    BY <2>1
  <2>3. n[1] = Two(k, l) /\ Front(n[1]) = One(k)
    BY <1>0, <2>2
  <2> QED
    BY <2>2, <2>3
<1>3. CASE At3(body, n)
  <2>1. PICK k \in Fields(body) :
          \E l \in Fields(body.obj[k]) : \E m \in Fields(body.obj[k].obj[l]) :
            n = Node(Three(k, l, m), body.obj[k].obj[l].obj[m])
    BY <1>3 DEF At3
  <2>2. PICK l \in Fields(body.obj[k]) :
          \E m \in Fields(body.obj[k].obj[l]) : n = Node(Three(k, l, m), body.obj[k].obj[l].obj[m])
    BY <2>1
  <2>3. PICK m \in Fields(body.obj[k].obj[l]) : n = Node(Three(k, l, m), body.obj[k].obj[l].obj[m])
    BY <2>2
  <2>4. n[1] = Three(k, l, m) /\ Front(n[1]) = Two(k, l)
    BY <1>0, <2>3
  <2> QED
    BY <2>3, <2>4
<1> QED
  BY <1>1, <1>2, <1>3, NodeLevels

\* What is at the path in the body, and what is right below it, as Nodes has it.
Found(body, path, value) ==
    /\ value # Missing => value \in Json
    /\ \A n : n \in Nodes(body) /\ n[1] = path <=> value # Missing /\ n = Node(path, value)
    /\ \A n : n \in Nodes(body) /\ Front(n[1]) = path <=>
                \E key \in Fields(value) : n = Node(Longer(path, key), value.obj[key])

\* The members of an object, as lookup finds them.
LEMMA FieldsOf ==
    ASSUME NEW value, Body(value)
    PROVE  /\ Fields(value) = DOMAIN value.obj
           /\ \A key : Member(value, key) = IF key \in Fields(value) THEN value.obj[key] ELSE Missing
           /\ \A key \in Fields(value) : value.obj[key] \in Json /\ value.obj[key] # Missing
  BY JsonKinds DEF Body, Fields, Member

\* A member of the body is what Nodes has at its path of one part.
LEMMA FoundFirst ==
    ASSUME NEW body, Body(body), NEW p
    PROVE  Found(body, One(p), Member(body, p))
<1> DEFINE value == Member(body, p)
<1>1. Fields(Missing) = {}
  BY DEF Fields, Missing, IsObject
<1>2. value # Missing <=> p \in Fields(body)
  BY FieldsOf
<1>3. p \in Fields(body) => value = body.obj[p] /\ value \in Json
  BY FieldsOf
<1> HIDE DEF value
<1>4. ASSUME NEW n PROVE n \in Nodes(body) /\ n[1] = One(p) <=> value # Missing /\ n = Node(One(p), value)
  <2>1. ASSUME n \in Nodes(body), n[1] = One(p) PROVE p \in Fields(body) /\ n = Node(One(p), body.obj[p])
    BY <2>1, LevelOfPath, TuplesDiffer
  <2>2. ASSUME p \in Fields(body), n = Node(One(p), body.obj[p]) PROVE n \in Nodes(body) /\ n[1] = One(p)
    BY <2>2, NodeLevels, NodeParts DEF At1
  <2> QED
    BY <1>2, <1>3, <2>1, <2>2
<1>5. ASSUME NEW n
      PROVE  n \in Nodes(body) /\ Front(n[1]) = One(p) <=>
               \E key \in Fields(value) : n = Node(Longer(One(p), key), value.obj[key])
  <2>1. ASSUME n \in Nodes(body), Front(n[1]) = One(p)
        PROVE  p \in Fields(body) /\ \E l \in Fields(body.obj[p]) : n = Node(Two(p, l), body.obj[p].obj[l])
    BY <2>1, LevelOfPath, TuplesDiffer
  <2>2. ASSUME p \in Fields(body), NEW l \in Fields(body.obj[p]), n = Node(Two(p, l), body.obj[p].obj[l])
        PROVE  n \in Nodes(body) /\ Front(n[1]) = One(p)
    <3>1. n \in Nodes(body)
      BY <2>2, NodeLevels DEF At2
    <3>2. n[1] = Two(p, l)
      BY <2>2, NodeParts
    <3> QED
      BY <3>1, <3>2, FrontOf
  <2>3. CASE value = Missing
    <3>1. ~(n \in Nodes(body) /\ Front(n[1]) = One(p))
      BY <1>2, <2>1, <2>3
    <3>2. Fields(value) = {}
      BY <1>1, <2>3
    <3> QED
      BY <3>1, <3>2
  <2>4. CASE value # Missing
    BY <1>2, <1>3, <2>1, <2>2, <2>4, AppendOne
  <2> QED
    BY <2>3, <2>4
<1> QED
  BY <1>2, <1>3, <1>4, <1>5 DEF Found, value

\* A member of a member is what Nodes has at its path of two parts.
LEMMA FoundSecond ==
    ASSUME NEW body, Body(body), NEW p, NEW q
    PROVE  Found(body, Two(p, q), Member(Member(body, p), q))
<1> DEFINE first == Member(body, p)
           value == Member(first, q)
<1>1. Fields(Missing) = {}
  BY DEF Fields, Missing, IsObject
<1>2. p \in Fields(body) => first = body.obj[p] /\ first \in Json
  BY FieldsOf
<1>3. p \notin Fields(body) => first = Missing
  BY FieldsOf
<1> HIDE DEF first
<1>4. value # Missing <=> p \in Fields(body) /\ q \in Fields(body.obj[p])
  <2>1. CASE p \notin Fields(body)
    BY <1>1, <1>3, <2>1 DEF Member, Fields
  <2>2. CASE p \in Fields(body) /\ IsObject(first)
    BY <1>2, <2>2, JsonKinds, FieldsOf
  <2>3. CASE p \in Fields(body) /\ ~IsObject(first)
    BY <1>2, <2>3 DEF Member, Fields
  <2> QED
    BY <2>1, <2>2, <2>3
<1>5. p \in Fields(body) /\ q \in Fields(body.obj[p]) => value = body.obj[p].obj[q] /\ value \in Json
  <2>1. ASSUME p \in Fields(body), q \in Fields(body.obj[p]) PROVE Body(first)
    BY <1>2, <2>1, JsonKinds DEF Fields
  <2> QED
    BY <1>2, <2>1, FieldsOf
<1> HIDE DEF value
<1>6. ASSUME NEW n PROVE n \in Nodes(body) /\ n[1] = Two(p, q) <=> value # Missing /\ n = Node(Two(p, q), value)
  <2>1. ASSUME n \in Nodes(body), n[1] = Two(p, q)
        PROVE  p \in Fields(body) /\ q \in Fields(body.obj[p]) /\ n = Node(Two(p, q), body.obj[p].obj[q])
    BY <2>1, LevelOfPath, TuplesDiffer
  <2>2. ASSUME p \in Fields(body), q \in Fields(body.obj[p]), n = Node(Two(p, q), body.obj[p].obj[q])
        PROVE  n \in Nodes(body) /\ n[1] = Two(p, q)
    BY <2>2, NodeLevels, NodeParts DEF At2
  <2> QED
    BY <1>4, <1>5, <2>1, <2>2
<1>7. ASSUME NEW n
      PROVE  n \in Nodes(body) /\ Front(n[1]) = Two(p, q) <=>
               \E key \in Fields(value) : n = Node(Longer(Two(p, q), key), value.obj[key])
  <2>1. ASSUME n \in Nodes(body), Front(n[1]) = Two(p, q)
        PROVE  /\ p \in Fields(body) /\ q \in Fields(body.obj[p])
               /\ \E m \in Fields(body.obj[p].obj[q]) : n = Node(Three(p, q, m), body.obj[p].obj[q].obj[m])
    BY <2>1, LevelOfPath, TuplesDiffer
  <2>2. ASSUME p \in Fields(body), q \in Fields(body.obj[p]), NEW m \in Fields(body.obj[p].obj[q]),
               n = Node(Three(p, q, m), body.obj[p].obj[q].obj[m])
        PROVE  n \in Nodes(body) /\ Front(n[1]) = Two(p, q)
    BY <2>2, NodeLevels, NodeParts, FrontOf DEF At3
  <2>3. CASE value = Missing
    BY <1>1, <1>4, <2>1, <2>3
  <2>4. CASE value # Missing
    BY <1>4, <1>5, <2>1, <2>2, <2>4, AppendTwo
  <2> QED
    BY <2>3, <2>4
<1> QED
  BY <1>4, <1>5, <1>6, <1>7 DEF Found, value, first

\* A row of the table.
LEMMA SpecType ==
    ASSUME NEW i \in DOMAIN Specs
    PROVE  /\ Specs[i].name \in Strings /\ Specs[i].label \in Strings
           /\ Specs[i].endpoint \in Strings /\ Specs[i].endpoint \in Endpoints
           /\ Specs[i].path \in Seq(Strings) /\ Len(Specs[i].path) \in {1, 2}
<1> DEFINE S == [name : Strings, endpoint : Strings, path : Seq(Strings), label : Strings]
<1>1. Specs[i] \in S
  <2>1. Specs \in Seq(S)
    BY SpecsAssumption
  <2> HIDE DEF S
  <2> QED
    BY <2>1, LenProperties, ElementOfSeq
<1>2. Len(Specs[i].path) \in {1, 2}
  BY SpecsAssumption
<1>3. Specs[i].endpoint \in Endpoints
  BY DEF Endpoints
<1> QED
  BY <1>1, <1>2, <1>3

\* lookup finds what Nodes has at the path of a row.
LEMMA LookupFinds ==
    ASSUME NEW body, Body(body), NEW i \in DOMAIN Specs
    PROVE  Found(body, Specs[i].path, Lookup(body, Specs[i].path))
<1> DEFINE path == Specs[i].path
<1>1. path \in Seq(Strings) /\ Len(path) \in {1, 2}
  BY SpecType
<1> HIDE DEF path
<1>2. ASSUME Len(path) = 1 PROVE Found(body, path, Lookup(body, path))
  BY <1>1, <1>2, LookupFirst, FoundFirst, ShortPath
<1>3. ASSUME Len(path) = 2 PROVE Found(body, path, Lookup(body, path))
  BY <1>1, <1>3, LookupSecond, FoundSecond, ShortPath
<1>4. Found(body, path, Lookup(body, path))
  BY <1>1, <1>2, <1>3
<1> QED
  BY <1>4 DEF path

-----------------------------------------------------------------------------
(* extractMetric                                                           *)

Measurements == [name : Strings, label : Strings, key : Strings, value : Numbers]

\* What a row is expected to give, in terms of what lookup finds.
LEMMA ExpectedPlain ==
    ASSUME NEW body, Body(body), NEW i \in DOMAIN Specs, Specs[i].label = NoLabel, NEW m,
           NEW value, value = Lookup(body, Specs[i].path)
    PROVE  m \in Expected(body, Specs[i]) <=>
             value # Missing /\ Numeric(value) /\ m = Metric(Specs[i], NoLabel, Number(value))
<1>1. Found(body, Specs[i].path, value)
  BY LookupFinds
<1>2. m \in Expected(body, Specs[i]) <=>
        \E n \in Nodes(body) : /\ Numeric(n[2]) /\ Specs[i].path = n[1]
                               /\ m = Metric(Specs[i], NoLabel, Number(n[2]))
  BY DEF Expected
<1>3. \A n : n \in Nodes(body) /\ n[1] = Specs[i].path <=> value # Missing /\ n = Node(Specs[i].path, value)
  BY <1>1 DEF Found
<1>4. PICK node : node = Node(Specs[i].path, value)
  OBVIOUS
<1>5. node[2] = value
  BY <1>4, NodeParts
<1>6. m \in Expected(body, Specs[i]) <=>
        value # Missing /\ Numeric(node[2]) /\ m = Metric(Specs[i], NoLabel, Number(node[2]))
  BY <1>2, <1>3, <1>4
<1> QED
  BY <1>5, <1>6

\* With a label it is one metric for every numeric member of the object found.
LEMMA ExpectedLabelled ==
    ASSUME NEW body, Body(body), NEW i \in DOMAIN Specs, Specs[i].label # NoLabel, NEW m,
           NEW value, value = Lookup(body, Specs[i].path)
    PROVE  m \in Expected(body, Specs[i]) <=>
             \E key \in Fields(value) : Numeric(value.obj[key]) /\ m = Metric(Specs[i], key, Number(value.obj[key]))
<1> DEFINE path == Specs[i].path
<1>1. Found(body, path, value)
  BY LookupFinds
<1>2. path \in Seq(Strings) /\ Len(path) \in {1, 2}
  BY SpecType
<1>3. \A key : Last(Longer(path, key)) = key
  BY <1>2, ShortPath, AppendOne, AppendTwo, FrontOf
<1>4. m \in Expected(body, Specs[i]) <=>
        \E n \in Nodes(body) : /\ Numeric(n[2]) /\ path = Front(n[1])
                               /\ m = Metric(Specs[i], Last(n[1]), Number(n[2]))
  BY DEF Expected
<1>5. \A n : n \in Nodes(body) /\ Front(n[1]) = path <=>
               \E key \in Fields(value) : n = Node(Longer(path, key), value.obj[key])
  BY <1>1 DEF Found
<1> HIDE DEF path
<1>7. ASSUME NEW key \in Fields(value), NEW n, n = Node(Longer(path, key), value.obj[key]), Numeric(n[2])
      PROVE  Metric(Specs[i], Last(n[1]), Number(n[2]))
               = Metric(Specs[i], key, Number(value.obj[key]))
  <2>1. n[1] = Longer(path, key) /\ n[2] = value.obj[key]
    BY <1>7, NodeParts
  <2>2. Last(n[1]) = key
    BY <1>3, <2>1
  <2> QED
    BY <2>1, <2>2
<1>8. ASSUME m \in Expected(body, Specs[i])
      PROVE  \E key \in Fields(value) : Numeric(value.obj[key]) /\ m = Metric(Specs[i], key, Number(value.obj[key]))
  <2>1. PICK n \in Nodes(body) : /\ Numeric(n[2]) /\ path = Front(n[1])
                                 /\ m = Metric(Specs[i], Last(n[1]), Number(n[2]))
    BY <1>4, <1>8
  <2>2. PICK key \in Fields(value) : n = Node(Longer(path, key), value.obj[key])
    BY <1>5, <2>1
  <2>3. n[2] = value.obj[key]
    BY <2>2, NodeParts
  <2> QED
    BY <1>7, <2>1, <2>2, <2>3
<1>9. ASSUME NEW key \in Fields(value), Numeric(value.obj[key]), m = Metric(Specs[i], key, Number(value.obj[key]))
      PROVE  m \in Expected(body, Specs[i])
  <2>1. PICK n : n = Node(Longer(path, key), value.obj[key])
    OBVIOUS
  <2>2. n \in Nodes(body) /\ Front(n[1]) = path
    BY <1>5, <2>1
  <2>3. Numeric(n[2])
    BY <1>9, <2>1, NodeParts
  <2> QED
    BY <1>4, <1>7, <1>9, <2>1, <2>2, <2>3
<1> QED
  BY <1>8, <1>9

\* A row is unreadable when what lookup finds is of the wrong kind.
LEMMA UnreadableIs ==
    ASSUME NEW body, Body(body), NEW i \in DOMAIN Specs,
           NEW value, value = Lookup(body, Specs[i].path)
    PROVE  Unreadable(body, Specs[i]) <=>
             value # Missing /\ IF Specs[i].label = NoLabel THEN ~Numeric(value) ELSE ~IsObject(value)
<1>1. \A n : n \in Nodes(body) /\ n[1] = Specs[i].path <=> value # Missing /\ n = Node(Specs[i].path, value)
  BY LookupFinds DEF Found
<1>2. PICK node : node = Node(Specs[i].path, value)
  OBVIOUS
<1>3. node[1] = Specs[i].path /\ node[2] = value
  BY <1>2, NodeParts
<1>4. Unreadable(body, Specs[i]) <=>
        value # Missing /\ IF Specs[i].label = NoLabel THEN ~Numeric(node[2]) ELSE ~IsObject(node[2])
  BY <1>1, <1>2, <1>3 DEF Unreadable
<1> QED
  BY <1>3, <1>4

\* What a row is expected to give belongs to it.
LEMMA ExpectedType ==
    ASSUME NEW body, Body(body), NEW i \in DOMAIN Specs, NEW m \in Expected(body, Specs[i])
    PROVE  m \in Measurements /\ m.name = Specs[i].name /\ m.label = Specs[i].label
<1> DEFINE value == Lookup(body, Specs[i].path)
<1>1. value # Missing => value \in Json
  BY LookupFinds DEF Found
<1>2. Specs[i].name \in Strings /\ Specs[i].label \in Strings
  BY SpecType
<1>3. \A key \in Strings, v \in Json : Numeric(v) =>
        LET metric == Metric(Specs[i], key, Number(v))
        IN  metric \in Measurements /\ metric.name = Specs[i].name /\ metric.label = Specs[i].label
  BY <1>2, JsonKinds DEF Metric, Measurements
<1>0. value = Lookup(body, Specs[i].path)
  OBVIOUS
<1> HIDE DEF value
<1>4. CASE Specs[i].label = NoLabel
  <2>1. value # Missing /\ Numeric(value) /\ m = Metric(Specs[i], NoLabel, Number(value))
    BY <1>0, <1>4, ExpectedPlain
  <2> QED
    BY <1>1, <1>3, <2>1, OrderAssumption
<1>5. CASE Specs[i].label # NoLabel
  <2>1. PICK key \in Fields(value) : Numeric(value.obj[key]) /\ m = Metric(Specs[i], key, Number(value.obj[key]))
    BY <1>0, <1>5, ExpectedLabelled
  <2>2. value # Missing /\ IsObject(value)
    BY <2>1 DEF Fields, Missing, IsObject
  <2>3. key \in Strings /\ value.obj[key] \in Json
    BY <1>1, <2>1, <2>2, JsonKinds, FieldsOf DEF Body
  <2> QED
    BY <1>3, <2>1, <2>3
<1> QED
  BY <1>4, <1>5

\* What a row can give: an error, or a sequence of what is expected of it, no
\* series twice.
Correct(result, body, spec) ==
    /\ result.failed <=> Unreadable(body, spec)
    /\ ~result.failed =>
          /\ result.metrics \in Seq(Measurements)
          /\ ToSet(result.metrics) = Expected(body, spec)
          /\ \A a, b \in DOMAIN result.metrics : a # b => result.metrics[a].key # result.metrics[b].key

\* The members of a labelled object give what is expected of its row.
LEMMA MembersCorrect ==
    ASSUME NEW body, Body(body), NEW i \in DOMAIN Specs, Specs[i].label # NoLabel,
           NEW value, value = Lookup(body, Specs[i].path), value # Missing, IsObject(value),
           NEW result \in Members(value.obj, Specs[i])
    PROVE  Correct(result, body, Specs[i])
<1> DEFINE keys == {key \in DOMAIN value.obj : NumberValue(value.obj[key]) # <<>>}
           found(s) == [j \in DOMAIN s |-> Metric(Specs[i], s[j], NumberValue(value.obj[s[j]])[1])]
<1>1. value \in Json /\ Body(value)
  BY LookupFinds, JsonKinds DEF Found
<1>2. PICK sorted \in InOrder(keys) : result = Extracted(found(sorted))
  BY DEF Members
<1>3. IsFiniteSet(keys) /\ keys \subseteq Strings
  BY <1>1, FS_Subset DEF Body
<1>4. Cardinality(keys) \in Nat
  BY <1>3, FS_CardinalityType
<1>5. \A key : key \in keys <=> key \in Fields(value) /\ Numeric(value.obj[key])
  BY <1>1, JsonKinds, FieldsOf
<1> HIDE DEF keys
<1>6. /\ DOMAIN sorted = 1..Cardinality(keys) /\ \A j \in DOMAIN sorted : sorted[j] \in keys
      /\ \A key \in keys : \E j \in DOMAIN sorted : sorted[j] = key
      /\ \A j, k \in DOMAIN sorted : j < k => Before(sorted[j], sorted[k])
  BY <1>2 DEF InOrder, ToSet
<1>7. result.failed = FALSE /\ result.metrics = found(sorted)
  BY <1>2 DEF Extracted
<1>8. \A j \in DOMAIN sorted : found(sorted)[j] \in Expected(body, Specs[i])
  <2>1. \A j \in DOMAIN sorted : found(sorted)[j] = Metric(Specs[i], sorted[j], Number(value.obj[sorted[j]]))
    <3>1. \A j \in DOMAIN sorted : NumberValue(value.obj[sorted[j]])[1] = Number(value.obj[sorted[j]])
      BY <1>1, <1>5, <1>6, JsonKinds, FieldsOf
    <3> QED
      BY <3>1
  <2>2. \A key \in keys : Metric(Specs[i], key, Number(value.obj[key])) \in Expected(body, Specs[i])
    BY <1>5, ExpectedLabelled
  <2> HIDE DEF found
  <2> QED
    BY <1>6, <2>1, <2>2
<1>9. \A m \in Expected(body, Specs[i]) : \E j \in DOMAIN sorted : found(sorted)[j] = m
  <2> SUFFICES ASSUME NEW m \in Expected(body, Specs[i]) PROVE \E j \in DOMAIN sorted : found(sorted)[j] = m
    OBVIOUS
  <2>1. PICK key \in Fields(value) : Numeric(value.obj[key]) /\ m = Metric(Specs[i], key, Number(value.obj[key]))
    BY ExpectedLabelled
  <2>2. PICK j \in DOMAIN sorted : sorted[j] = key
    BY <1>5, <1>6, <2>1
  <2>3. NumberValue(value.obj[key])[1] = Number(value.obj[key])
    BY <1>1, <2>1, JsonKinds, FieldsOf
  <2>4. found(sorted)[j] = Metric(Specs[i], key, NumberValue(value.obj[key])[1])
    BY <2>2
  <2> QED
    BY <2>1, <2>3, <2>4
<1>10. found(sorted) \in Seq(Measurements)
  <2>1. found(sorted) \in [1..Cardinality(keys) -> Measurements]
    BY <1>6, <1>8, ExpectedType
  <2> QED
    BY <1>4, <2>1, SeqDef
<1>11. ToSet(found(sorted)) = Expected(body, Specs[i])
  BY <1>8, <1>9 DEF ToSet
<1>12. \A a, b \in DOMAIN sorted : a # b => found(sorted)[a].key # found(sorted)[b].key
  <2>1. \A a, b \in DOMAIN sorted : a # b => sorted[a] # sorted[b]
    <3> SUFFICES ASSUME NEW a \in DOMAIN sorted, NEW b \in DOMAIN sorted, a # b PROVE sorted[a] # sorted[b]
      OBVIOUS
    <3>1. a \in Int /\ b \in Int
      BY <1>4, <1>6
    <3>2. a < b \/ b < a
      BY <3>1
    <3>3. sorted[a] \in Strings /\ sorted[b] \in Strings
      BY <1>3, <1>6
    <3>4. Before(sorted[a], sorted[b]) \/ Before(sorted[b], sorted[a])
      BY <1>6, <3>2
    <3> QED
      BY <3>3, <3>4, OrderAssumption
  <2>2. \A a \in DOMAIN sorted : found(sorted)[a].key = sorted[a]
    BY DEF Metric
  <2> QED
    BY <2>1, <2>2
<1>13. ~Unreadable(body, Specs[i])
  BY UnreadableIs
<1>14. DOMAIN found(sorted) = DOMAIN sorted
  OBVIOUS
<1> HIDE DEF found
<1> QED
  BY <1>7, <1>10, <1>11, <1>12, <1>13, <1>14 DEF Correct

\* extractMetric is correct in all its cases: missing, labelled, plain.
LEMMA ExtractCorrect ==
    ASSUME NEW body, Body(body), NEW i \in DOMAIN Specs, NEW result \in Extract(body, Specs[i])
    PROVE  Correct(result, body, Specs[i])
<1> DEFINE value == Lookup(body, Specs[i].path)
<1>1. value # Missing => value \in Json
  BY LookupFinds DEF Found
<1>2. Unreadable(body, Specs[i]) <=>
        value # Missing /\ IF Specs[i].label = NoLabel THEN ~Numeric(value) ELSE ~IsObject(value)
  BY UnreadableIs
<1>3. Failed.failed = TRUE /\ \A s : Extracted(s).failed = FALSE /\ Extracted(s).metrics = s
  BY DEF Failed, Extracted
<1>0. value = Lookup(body, Specs[i].path)
  OBVIOUS
<1> HIDE DEF value
<1>4. CASE value = Missing
  <2>1. result = Extracted(<<>>)
    BY <1>4 DEF Extract, value
  <2>2. Expected(body, Specs[i]) = {}
    <3>1. CASE Specs[i].label = NoLabel
      BY <1>0, <1>4, <3>1, ExpectedPlain
    <3>2. CASE Specs[i].label # NoLabel
      <4>1. Fields(value) = {}
        BY <1>4 DEF Fields, Missing, IsObject
      <4> QED
        BY <1>0, <3>2, <4>1, ExpectedLabelled
    <3> QED
      BY <3>1, <3>2
  <2>3. <<>> \in Seq(Measurements) /\ ToSet(<<>>) = {} /\ DOMAIN <<>> = {}
    BY DEF ToSet
  <2>4. result.failed = FALSE /\ result.metrics = <<>>
    BY <1>3, <2>1
  <2> QED
    BY <1>2, <1>4, <2>2, <2>3, <2>4 DEF Correct
<1>5. CASE value # Missing /\ Specs[i].label # NoLabel
  <2>1. CASE IsObject(value)
    <3>1. result \in Members(value.obj, Specs[i])
      BY <1>5, <2>1 DEF Extract, value
    <3> QED
      BY <1>0, <1>5, <2>1, <3>1, MembersCorrect
  <2>2. CASE ~IsObject(value)
    <3>1. result = Failed
      BY <1>5, <2>2 DEF Extract, value
    <3> QED
      BY <1>2, <1>3, <1>5, <2>2, <3>1 DEF Correct
  <2> QED
    BY <2>1, <2>2
<1>6. CASE value # Missing /\ Specs[i].label = NoLabel
  <2>1. NumberValue(value) # <<>> <=> Numeric(value)
    BY <1>1, <1>6, JsonKinds
  <2>2. CASE Numeric(value)
    <3> DEFINE m == Metric(Specs[i], NoLabel, NumberValue(value)[1])
    <3>1. result = Extracted(<<m>>)
      BY <1>6, <2>1, <2>2 DEF Extract, value
    <3>2. \A n : n \in Expected(body, Specs[i]) <=> n = m
      <4>1. NumberValue(value)[1] = Number(value)
        BY <1>1, <1>6, <2>2, JsonKinds
      <4>2. m = Metric(Specs[i], NoLabel, Number(value))
        BY <4>1
      <4>3. \A n : n \in Expected(body, Specs[i]) <=> n = Metric(Specs[i], NoLabel, Number(value))
        BY <1>0, <1>6, <2>2, ExpectedPlain
      <4> HIDE DEF m
      <4> QED
        BY <4>2, <4>3
    <3>3. m \in Measurements
      BY <3>2, ExpectedType
    <3> HIDE DEF m
    <3>4. <<m>> \in Seq(Measurements) /\ DOMAIN <<m>> = 1..1 /\ <<m>>[1] = m
      BY <3>3
    <3>5. ToSet(<<m>>) = Expected(body, Specs[i])
      BY <3>2, <3>4 DEF ToSet
    <3>6. \A a, b \in DOMAIN <<m>> : a = b
      BY <3>4
    <3>7. result.failed = FALSE /\ result.metrics = <<m>>
      BY <1>3, <3>1
    <3> QED
      BY <1>2, <1>6, <2>2, <3>4, <3>5, <3>6, <3>7 DEF Correct
  <2>3. CASE ~Numeric(value)
    <3>1. result = Failed
      BY <1>6, <2>1, <2>3 DEF Extract, value
    <3> QED
      BY <1>2, <1>3, <1>6, <2>3, <3>1 DEF Correct
  <2> QED
    BY <2>2, <2>3
<1> QED
  BY <1>4, <1>5, <1>6

-----------------------------------------------------------------------------
(* Sequences of metrics                                                    *)

Distinct(s) == \A a, b \in DOMAIN s : a # b => Series(s[a]) # Series(s[b])

\* A series is a name and a key.
LEMMA SeriesEqual ==
    ASSUME NEW m, NEW n
    PROVE  Series(m) = Series(n) <=> m.name = n.name /\ m.key = n.key
  BY DEF Series

\* What extractMetric returns is appended: the series stay distinct when the
\* names are others.
LEMMA Joined ==
    ASSUME NEW s \in Seq(Measurements), NEW t \in Seq(Measurements), Distinct(s), Distinct(t),
           \A m \in ToSet(s), n \in ToSet(t) : m.name # n.name
    PROVE  /\ s \o t \in Seq(Measurements) /\ Distinct(s \o t)
           /\ ToSet(s \o t) = ToSet(s) \cup ToSet(t)
<1>1. PICK u : u = s \o t
  OBVIOUS
<1>2. u \in Seq(Measurements) /\ Len(u) = Len(s) + Len(t)
  BY <1>1, ConcatProperties
<1>3. Len(s) \in Nat /\ Len(t) \in Nat /\ DOMAIN s = 1..Len(s) /\ DOMAIN t = 1..Len(t) /\ DOMAIN u = 1..Len(u)
  BY <1>2, LenProperties
<1>4. \A i \in 1..Len(u) : u[i] = IF i <= Len(s) THEN s[i] ELSE t[i - Len(s)]
  BY <1>1, <1>2, ConcatProperties
<1>5. \A i \in DOMAIN u :
        \/ i \in DOMAIN s /\ u[i] = s[i]
        \/ i - Len(s) \in DOMAIN t /\ u[i] = t[i - Len(s)]
  <2> TAKE i \in DOMAIN u
  <2>1. i \in 1..Len(u) /\ u[i] = IF i <= Len(s) THEN s[i] ELSE t[i - Len(s)]
    BY <1>3, <1>4
  <2>2. CASE i <= Len(s)
    BY <1>2, <1>3, <2>1, <2>2
  <2>3. CASE ~(i <= Len(s))
    <3>1. i - Len(s) \in 1..Len(t)
      BY <1>2, <1>3, <2>1, <2>3
    <3> QED
      BY <1>3, <2>1, <2>3, <3>1
  <2> QED
    BY <2>2, <2>3
<1>6. \A i \in DOMAIN s : i \in DOMAIN u /\ u[i] = s[i]
  BY <1>2, <1>3, <1>4
<1>7. \A i \in DOMAIN t : i + Len(s) \in DOMAIN u /\ u[i + Len(s)] = t[i]
  BY <1>2, <1>3, <1>4
<1>8. ToSet(u) = ToSet(s) \cup ToSet(t)
  <2>1. \A m : m \in ToSet(u) => m \in ToSet(s) \/ m \in ToSet(t)
    BY <1>5 DEF ToSet
  <2>2. \A m : m \in ToSet(s) \/ m \in ToSet(t) => m \in ToSet(u)
    BY <1>6, <1>7 DEF ToSet
  <2> QED
    BY <2>1, <2>2
<1>9. Distinct(u)
  <2> SUFFICES ASSUME NEW a \in DOMAIN u, NEW b \in DOMAIN u, a # b PROVE Series(u[a]) # Series(u[b])
    BY DEF Distinct
  <2>1. ASSUME NEW i \in DOMAIN s, NEW j \in DOMAIN t PROVE Series(s[i]) # Series(t[j])
    <3>1. s[i] \in ToSet(s) /\ t[j] \in ToSet(t)
      BY DEF ToSet
    <3> QED
      BY <3>1, SeriesEqual
  <2>2. CASE a \in DOMAIN s /\ b \in DOMAIN s /\ u[a] = s[a] /\ u[b] = s[b]
    BY <2>2 DEF Distinct
  <2>3. CASE a - Len(s) \in DOMAIN t /\ b - Len(s) \in DOMAIN t /\ u[a] = t[a - Len(s)] /\ u[b] = t[b - Len(s)]
    <3>1. a - Len(s) # b - Len(s)
      BY <1>2, <1>3
    <3> QED
      BY <2>3, <3>1 DEF Distinct
  <2> QED
    BY <1>5, <2>1, <2>2, <2>3
<1> QED
  BY <1>1, <1>2, <1>8, <1>9

\* sort.Slice rearranges: nothing is lost or repeated, and since the series are
\* distinct the order it leaves is strict.
LEMMA Rearranged ==
    ASSUME NEW s \in Seq(Measurements), Distinct(s), NEW perm \in Bijection(DOMAIN s, DOMAIN s),
           NEW t, t = [i \in DOMAIN s |-> s[perm[i]]],
           \A i, j \in DOMAIN s : i < j => ~Less(t[j], t[i])
    PROVE  /\ t \in Seq(Measurements) /\ ToSet(t) = ToSet(s) /\ Distinct(t)
           /\ \A i, j \in DOMAIN t : i < j => Less(t[i], t[j])
<1>1. /\ Len(s) \in Nat /\ DOMAIN s = 1..Len(s)
      /\ \A i \in DOMAIN s : s[i] \in Measurements
  BY LenProperties, ElementOfSeq
<1>2. /\ perm \in [DOMAIN s -> DOMAIN s]
      /\ \A j \in DOMAIN s : \E i \in DOMAIN s : perm[i] = j
      /\ \A i, j \in DOMAIN s : perm[i] = perm[j] => i = j
  BY DEF Bijection, Injection, Surjection, IsInjective
<1>3. DOMAIN t = DOMAIN s /\ \A i \in DOMAIN s : t[i] = s[perm[i]] /\ perm[i] \in DOMAIN s
  BY <1>2
<1>4. t \in Seq(Measurements)
  <2>1. t \in [1..Len(s) -> Measurements]
    BY <1>1, <1>2
  <2> QED
    BY <1>1, <2>1, SeqDef
<1>5. ToSet(t) = ToSet(s)
  BY <1>2, <1>3 DEF ToSet
<1>6. Distinct(t)
  BY <1>2, <1>3 DEF Distinct
<1>7. ASSUME NEW i \in DOMAIN t, NEW j \in DOMAIN t, i < j PROVE Less(t[i], t[j])
  <2>1. ~Less(t[j], t[i])
    BY <1>3, <1>7
  <2>2. i # j
    BY <1>1, <1>3, <1>7
  <2>3. ~(t[i].name = t[j].name /\ t[i].key = t[j].key)
    BY <1>6, <2>2, SeriesEqual DEF Distinct
  <2>4. t[i] \in Measurements /\ t[j] \in Measurements
    BY <1>1, <1>3
  <2>5. t[i].name \in Strings /\ t[j].name \in Strings /\ t[i].key \in Strings /\ t[j].key \in Strings
    BY <2>4 DEF Measurements
  <2> QED
    BY <2>1, <2>3, <2>5, OrderAssumption DEF Less
<1> QED
  BY <1>4, <1>5, <1>6, <1>7

-----------------------------------------------------------------------------
(* The inductive invariant                                                 *)

\* The rows whose endpoint has answered, and those extracted.
Asked == {i \in DOMAIN Specs : Specs[i].endpoint \in DOMAIN bodies}
Done == Asked \ rows

\* Something Pi-hole answered fails the scrape.
Cause ==
    \E endpoint \in DOMAIN bodies :
        \/ ~IsObject(Decoded(bodies[endpoint]))
        \/ \E i \in Rows(endpoint) : Unreadable(Decoded(bodies[endpoint]), Specs[i])

\* Endpoints are asked once, and their rows extracted while the scrape runs.
Progress ==
    /\ verdict \in {"running", "ok", "error"}
    /\ todo \subseteq Endpoints
    /\ DOMAIN bodies = Endpoints \ todo
    /\ rows \subseteq Asked
    /\ verdict = "ok" => todo = {} /\ rows = {}

\* As long as nothing failed, every body is an object and every row done was
\* readable, and the metrics are exactly what those rows are expected to give.
Collected ==
    verdict # "error" =>
        /\ \A endpoint \in DOMAIN bodies : Body(Decoded(bodies[endpoint]))
        /\ \A i \in Done : ~Unreadable(BodyOf(Specs[i]), Specs[i])
        /\ metrics \in Seq(Measurements) /\ Distinct(metrics)
        /\ \A m : m \in ToSet(metrics) <=> \E i \in Done : m \in Expected(BodyOf(Specs[i]), Specs[i])

Sorted == verdict = "ok" => \A i, j \in DOMAIN metrics : i < j => Less(metrics[i], metrics[j])
Failure == verdict = "error" => metrics = <<>> /\ Cause

\* What the exporters make of the result.
Registry ==
    /\ gathered \in {"nothing yet", "200", "500"}
    /\ gathered = "200" => verdict = "ok" /\ shown = ToSet(metrics)
    /\ gathered = "500" => verdict = "error" /\ shown = {}
Observed ==
    observed # <<>> =>
        /\ verdict # "running"
        /\ DOMAIN observed \ {Success} = {Series(m) : m \in ToSet(metrics)}
        /\ \A m \in ToSet(metrics) : observed[Series(m)] = m.value
        /\ observed[Success] = 1 <=> verdict = "ok"

Inv == Progress /\ Collected /\ Sorted /\ Failure /\ Registry /\ Observed

\* While the scrape runs, nothing has been told to the exporters.
LEMMA Untold ==
    ASSUME Inv, verdict = "running", UNCHANGED exported
    PROVE  Registry' /\ Observed'
  BY DEF Inv, Registry, Observed, exported

\* Before the first request nothing is collected.
LEMMA InitInv == Init => Inv
<1> SUFFICES ASSUME Init PROVE Inv
  OBVIOUS
<1>1. DOMAIN bodies = {} /\ rows = {} /\ todo = Endpoints
  <2>1. bodies = <<>>
    BY DEF Init
  <2>2. DOMAIN bodies = {}
    BY <2>1
  <2> QED
    BY <2>2 DEF Init
<1>2. Asked = {} /\ Done = {}
  BY <1>1 DEF Asked, Done
<1>3. Progress
  BY <1>1, <1>2 DEF Init, Progress
<1>4. metrics \in Seq(Measurements) /\ DOMAIN metrics = {} /\ \A m : m \notin ToSet(metrics)
  <2>1. metrics = <<>>
    BY DEF Init
  <2>2. DOMAIN metrics = {}
    BY <2>1
  <2> QED
    BY <2>1, <2>2, EmptySeq DEF ToSet
<1>5. Collected
  BY <1>1, <1>2, <1>4 DEF Collected, Distinct
<1> QED
  BY <1>3, <1>5 DEF Init, Inv, Sorted, Failure, Registry, Observed

\* Asking an endpoint adds its body, and its rows to those asked.
LEMMA AskStep ==
    ASSUME Inv, NEW endpoint \in todo, NEW body, Ask(endpoint, body)
    PROVE  /\ endpoint \notin DOMAIN bodies /\ DOMAIN bodies' = DOMAIN bodies \cup {endpoint}
           /\ bodies'[endpoint] = body /\ \A e \in DOMAIN bodies : bodies'[e] = bodies[e]
           /\ todo' \subseteq Endpoints /\ DOMAIN bodies' = Endpoints \ todo'
           /\ Done = Asked /\ Rows(endpoint) \subseteq Asked' /\ Asked' \ Rows(endpoint) = Asked
           /\ Registry' /\ Observed'
<1>1. verdict = "running" /\ rows = {} /\ UNCHANGED exported /\ todo' = todo \ {endpoint}
  BY DEF Ask
<1>2. bodies' = [e \in DOMAIN bodies \cup {endpoint} |-> IF e = endpoint THEN body ELSE bodies[e]]
  BY DEF Ask
<1>3. todo \subseteq Endpoints /\ DOMAIN bodies = Endpoints \ todo
  BY DEF Inv, Progress
<1>4. endpoint \notin DOMAIN bodies /\ DOMAIN bodies' = DOMAIN bodies \cup {endpoint}
  BY <1>2, <1>3
<1>5. bodies'[endpoint] = body /\ \A e \in DOMAIN bodies : bodies'[e] = bodies[e]
  BY <1>2, <1>4
<1>6. todo' \subseteq Endpoints /\ DOMAIN bodies' = Endpoints \ todo'
  BY <1>1, <1>3, <1>4
<1>7. Done = Asked /\ Rows(endpoint) \subseteq Asked' /\ Asked' \ Rows(endpoint) = Asked
  BY <1>1, <1>4 DEF Done, Asked, Rows
<1> QED
  BY <1>1, <1>4, <1>5, <1>6, <1>7, Untold

\* A failure leaves no metrics, and has its cause.
LEMMA FailStep ==
    ASSUME Inv, NEW endpoint \in todo, NEW body, Ask(endpoint, body), Fail, ~IsObject(Decoded(body))
    PROVE  Inv'
<1>1. Cause'
  BY AskStep DEF Cause
<1>2. Progress'
  BY AskStep DEF Fail, Progress
<1> QED
  BY <1>1, <1>2, AskStep DEF Fail, Inv, Collected, Sorted, Failure

\* A failed request is such a failure.
LEMMA FetchFailsStep == ASSUME Inv, FetchFails PROVE Inv'
<1>1. PICK endpoint \in todo : Ask(endpoint, NoBody) /\ Fail
  BY DEF FetchFails
<1>2. ~IsObject(Decoded(NoBody))
  BY DEF NoBody, NullBody, Decoded, IsObject
<1> QED
  BY <1>1, <1>2, FailStep

\* An answer that is an object adds rows to extract, and changes nothing already done.
LEMMA FetchStep == ASSUME Inv, Fetch PROVE Inv'
<1>0. PICK endpoint \in todo : \E value \in Answers[endpoint] :
        /\ Ask(endpoint, value)
        /\ IF IsObject(Decoded(value)) THEN rows' = Rows(endpoint) /\ UNCHANGED <<metrics, verdict>> ELSE Fail
  BY DEF Fetch
<1>1. PICK value \in Answers[endpoint] :
        /\ Ask(endpoint, value)
        /\ IF IsObject(Decoded(value)) THEN rows' = Rows(endpoint) /\ UNCHANGED <<metrics, verdict>> ELSE Fail
  BY <1>0
<1>2. CASE ~IsObject(Decoded(value))
  BY <1>1, <1>2, FailStep
<1>3. CASE IsObject(Decoded(value))
  <2>1. verdict = "running" /\ verdict' = "running" /\ rows' = Rows(endpoint) /\ metrics' = metrics
    BY <1>1, <1>3 DEF Ask
  <2>2. /\ endpoint \notin DOMAIN bodies /\ DOMAIN bodies' = DOMAIN bodies \cup {endpoint}
        /\ bodies'[endpoint] = value /\ \A e \in DOMAIN bodies : bodies'[e] = bodies[e]
        /\ todo' \subseteq Endpoints /\ DOMAIN bodies' = Endpoints \ todo'
        /\ Done = Asked /\ Rows(endpoint) \subseteq Asked' /\ Asked' \ Rows(endpoint) = Asked
        /\ Registry' /\ Observed'
    BY <1>1, AskStep
  <2>3. Done' = Done
    BY <2>1, <2>2 DEF Done
  <2>4. \A i \in Done : BodyOf(Specs[i])' = BodyOf(Specs[i])
    BY <2>2 DEF BodyOf, Asked
  <2>5. Body(Decoded(value))
    BY <1>3, DecodedBody DEF Inv, Progress
  <2>6. Progress'
    BY <2>1, <2>2 DEF Progress
  <2>7. Collected'
    <3>1. \A e \in DOMAIN bodies' : Body(Decoded(bodies'[e]))
      BY <2>1, <2>2, <2>5 DEF Inv, Collected
    <3>2. \A i \in Done' : ~Unreadable(BodyOf(Specs[i])', Specs[i])
      BY <2>1, <2>3, <2>4 DEF Inv, Collected
    <3>3. metrics' \in Seq(Measurements) /\ Distinct(metrics')
      BY <2>1 DEF Inv, Collected
    <3>4. \A m : m \in ToSet(metrics') <=> \E i \in Done' : m \in Expected(BodyOf(Specs[i])', Specs[i])
      BY <2>1, <2>3, <2>4 DEF Inv, Collected
    <3> QED
      BY <3>1, <3>2, <3>3, <3>4 DEF Collected
  <2> QED
    BY <2>1, <2>2, <2>6, <2>7 DEF Inv, Sorted, Failure
<1> QED
  BY <1>2, <1>3

\* A row that was readable adds what is expected of it, under a name of its own.
LEMMA ExtractNextStep == ASSUME Inv, ExtractNext PROVE Inv'
<1>1. PICK i \in rows : \E result \in Extract(BodyOf(Specs[i]), Specs[i]) :
        IF result.failed THEN Fail
        ELSE metrics' = metrics \o result.metrics /\ rows' = rows \ {i} /\ UNCHANGED verdict
  BY DEF ExtractNext
<1>2. PICK result \in Extract(BodyOf(Specs[i]), Specs[i]) :
        IF result.failed THEN Fail
        ELSE metrics' = metrics \o result.metrics /\ rows' = rows \ {i} /\ UNCHANGED verdict
  BY <1>1
<1>3. verdict = "running" /\ todo' = todo /\ bodies' = bodies /\ UNCHANGED exported
  BY DEF ExtractNext
<1>4. i \in Asked /\ i \in DOMAIN Specs /\ Specs[i].endpoint \in DOMAIN bodies
  BY DEF Inv, Progress, Asked
<1>5. Body(BodyOf(Specs[i]))
  BY <1>3, <1>4 DEF Inv, Collected, BodyOf
<1>6. Correct(result, BodyOf(Specs[i]), Specs[i])
  BY <1>2, <1>4, <1>5, ExtractCorrect
<1>7. Registry' /\ Observed'
  BY <1>3, Untold
<1>8. Asked' = Asked /\ \A j : BodyOf(Specs[j])' = BodyOf(Specs[j])
  BY <1>3 DEF Asked, BodyOf
<1>9. CASE result.failed
  <2>1. Fail
    BY <1>2, <1>9
  <2>2. Unreadable(BodyOf(Specs[i]), Specs[i])
    BY <1>6, <1>9 DEF Correct
  <2>3. i \in Rows(Specs[i].endpoint)
    BY <1>4 DEF Rows
  <2>4. Cause'
    BY <1>3, <1>4, <2>2, <2>3 DEF Cause, BodyOf
  <2>5. Progress'
    BY <1>3, <2>1 DEF Fail, Inv, Progress
  <2> QED
    BY <1>7, <2>1, <2>4, <2>5 DEF Fail, Inv, Collected, Sorted, Failure
<1>10. CASE ~result.failed
  <2>1. metrics' = metrics \o result.metrics /\ rows' = rows \ {i} /\ verdict' = "running"
    BY <1>2, <1>3, <1>10
  <2>2. Done' = Done \cup {i} /\ i \notin Done
    BY <1>4, <1>8, <2>1 DEF Done
  <2>3. /\ metrics \in Seq(Measurements) /\ Distinct(metrics)
        /\ \A m : m \in ToSet(metrics) <=> \E j \in Done : m \in Expected(BodyOf(Specs[j]), Specs[j])
        /\ \A j \in Done : ~Unreadable(BodyOf(Specs[j]), Specs[j])
        /\ \A endpoint \in DOMAIN bodies : Body(Decoded(bodies[endpoint]))
    BY <1>3 DEF Inv, Collected
  <2>4. /\ result.metrics \in Seq(Measurements)
        /\ ToSet(result.metrics) = Expected(BodyOf(Specs[i]), Specs[i])
        /\ \A a, b \in DOMAIN result.metrics : a # b => result.metrics[a].key # result.metrics[b].key
        /\ ~Unreadable(BodyOf(Specs[i]), Specs[i])
    BY <1>6, <1>10 DEF Correct
  <2>5. Distinct(result.metrics)
    BY <2>4, SeriesEqual DEF Distinct
  <2>6. ASSUME NEW m \in ToSet(metrics), NEW n \in ToSet(result.metrics) PROVE m.name # n.name
    <3>1. n.name = Specs[i].name
      BY <1>4, <1>5, <2>4, ExpectedType
    <3>2. PICK j \in Done : m \in Expected(BodyOf(Specs[j]), Specs[j])
      BY <2>3
    <3>3. j \in DOMAIN Specs /\ Body(BodyOf(Specs[j]))
      BY <2>3 DEF Done, Asked, BodyOf
    <3>4. m.name = Specs[j].name
      BY <3>2, <3>3, ExpectedType
    <3>5. i # j
      BY <2>2
    <3> QED
      BY <1>4, <3>1, <3>3, <3>4, <3>5, SpecsAssumption
  <2>7. /\ metrics' \in Seq(Measurements) /\ Distinct(metrics')
        /\ ToSet(metrics') = ToSet(metrics) \cup ToSet(result.metrics)
    BY <2>1, <2>3, <2>4, <2>5, <2>6, Joined
  <2>8. \A m : m \in ToSet(metrics') <=> \E j \in Done' : m \in Expected(BodyOf(Specs[j])', Specs[j])
    BY <1>8, <2>2, <2>3, <2>4, <2>7
  <2>9. \A j \in Done' : ~Unreadable(BodyOf(Specs[j])', Specs[j])
    BY <1>8, <2>2, <2>3, <2>4
  <2>10. Collected'
    BY <1>3, <2>3, <2>7, <2>8, <2>9 DEF Collected
  <2>11. Progress'
    BY <1>3, <1>8, <2>1 DEF Inv, Progress
  <2> QED
    BY <1>7, <2>1, <2>10, <2>11 DEF Inv, Sorted, Failure
<1> QED
  BY <1>9, <1>10

\* Sorting keeps the metrics and leaves them in strict order.
LEMMA FinishStep == ASSUME Inv, Finish PROVE Inv'
<1>1. /\ verdict = "running" /\ rows = {} /\ todo = {} /\ verdict' = "ok"
      /\ todo' = todo /\ bodies' = bodies /\ rows' = rows /\ UNCHANGED exported
  BY DEF Finish
<1>2. PICK perm \in Bijection(DOMAIN metrics, DOMAIN metrics) :
        /\ \A i, j \in DOMAIN metrics : i < j => ~Less(metrics[perm[j]], metrics[perm[i]])
        /\ metrics' = [i \in DOMAIN metrics |-> metrics[perm[i]]]
  BY DEF Finish
<1>3. /\ metrics \in Seq(Measurements) /\ Distinct(metrics)
      /\ \A m : m \in ToSet(metrics) <=> \E j \in Done : m \in Expected(BodyOf(Specs[j]), Specs[j])
      /\ \A j \in Done : ~Unreadable(BodyOf(Specs[j]), Specs[j])
      /\ \A endpoint \in DOMAIN bodies : Body(Decoded(bodies[endpoint]))
  BY <1>1 DEF Inv, Collected
<1>4. /\ metrics' \in Seq(Measurements) /\ ToSet(metrics') = ToSet(metrics) /\ Distinct(metrics')
      /\ \A i, j \in DOMAIN metrics' : i < j => Less(metrics'[i], metrics'[j])
  <2>1. \A i, j \in DOMAIN metrics : i < j => ~Less(metrics'[j], metrics'[i])
    BY <1>2
  <2> QED
    BY <1>2, <1>3, <2>1, Rearranged
<1>5. Done' = Done /\ \A j : BodyOf(Specs[j])' = BodyOf(Specs[j])
  BY <1>1 DEF Done, Asked, BodyOf
<1>6. Collected'
  BY <1>1, <1>3, <1>4, <1>5 DEF Collected
<1>7. Progress'
  BY <1>1 DEF Inv, Progress, Asked
<1>8. Registry' /\ Observed'
  BY <1>1, Untold
<1> QED
  BY <1>1, <1>4, <1>6, <1>7, <1>8 DEF Inv, Sorted, Failure

\* What is in metrics belongs to a row and is not the success metric.
LEMMA Described ==
    ASSUME Inv, verdict # "error", NEW m \in ToSet(metrics)
    PROVE  /\ m \in Measurements /\ m.name # "scrape_success"
           /\ \E j \in DOMAIN Specs : Specs[j].name = m.name /\ Specs[j].label = m.label
<1>1. PICK j \in Done : m \in Expected(BodyOf(Specs[j]), Specs[j])
  BY DEF Inv, Collected
<1>2. j \in DOMAIN Specs /\ Body(BodyOf(Specs[j]))
  BY DEF Inv, Collected, Done, Asked, BodyOf
<1>3. m \in Measurements /\ m.name = Specs[j].name /\ m.label = Specs[j].label
  BY <1>1, <1>2, ExpectedType
<1> QED
  BY <1>2, <1>3, SpecsAssumption

\* The registry refuses nothing of a scrape that succeeded.
LEMMA NothingRefused == ASSUME Inv, verdict # "error" PROVE ~Refused
<1>1. ASSUME NEW i \in DOMAIN metrics
      PROVE  [name |-> metrics[i].name, label |-> metrics[i].label] \in Describe
  <2>1. metrics[i] \in ToSet(metrics)
    BY DEF ToSet
  <2>2. PICK j \in DOMAIN Specs : Specs[j].name = metrics[i].name /\ Specs[j].label = metrics[i].label
    BY <2>1, Described
  <2> QED
    BY <2>2 DEF Describe
<1>2. Distinct(metrics)
  BY DEF Inv, Collected
<1> QED
  BY <1>1, <1>2 DEF Refused, Distinct

\* Prometheus takes over the verdict and the metrics.
LEMMA GatherStep == ASSUME Inv, Gather PROVE Inv'
<1>1. /\ todo' = todo /\ bodies' = bodies /\ rows' = rows /\ metrics' = metrics
      /\ verdict' = verdict /\ observed' = observed /\ verdict # "running"
  BY DEF Gather
<1>2. IF verdict = "error" THEN gathered' = "500" /\ shown' = {} ELSE gathered' = "200" /\ shown' = ToSet(metrics)
  BY NothingRefused DEF Gather
<1>3. verdict \in {"ok", "error"}
  BY <1>1 DEF Inv, Progress
<1>4. Registry'
  BY <1>1, <1>2, <1>3 DEF Registry
<1>5. Progress' /\ Collected' /\ Sorted'
  BY <1>1 DEF Inv, Progress, Collected, Sorted, Done, Asked, BodyOf
<1>6. Failure' /\ Observed'
  BY <1>1 DEF Inv, Failure, Cause, Observed
<1> QED
  BY <1>4, <1>5, <1>6 DEF Inv

\* Observations of series that differ, none of them the success metric, are all left.
LEMMA ObservationsLeft ==
    ASSUME NEW seen, DOMAIN seen \subseteq Nat,
           \A i, j \in DOMAIN seen : i # j => seen[i].series # seen[j].series,
           \A i \in DOMAIN seen : seen[i].series # Success
    PROVE  /\ DOMAIN Observations(seen) = {Success} \cup {seen[i].series : i \in DOMAIN seen}
           /\ \A i \in DOMAIN seen : Observations(seen)[seen[i].series] = seen[i].value
           /\ Observations(seen)[Success] = IF verdict = "ok" THEN 1 ELSE 0
<1>1. DOMAIN Observations(seen) = {Success} \cup {seen[i].series : i \in DOMAIN seen}
  BY DEF Observations
<1>2. ASSUME NEW i \in DOMAIN seen PROVE Observations(seen)[seen[i].series] = seen[i].value
  <2> DEFINE s == seen[i].series
             Last1(k) == seen[k].series = s /\ \A j \in DOMAIN seen : seen[j].series = s => j <= k
             last == CHOOSE k \in DOMAIN seen : Last1(k)
  <2>1. Last1(i)
    <3>1. \A j \in DOMAIN seen : seen[j].series = s => j = i
      OBVIOUS
    <3> QED
      BY <3>1
  <2>2. last \in DOMAIN seen /\ Last1(last)
    BY <2>1
  <2>3. last = i
    BY <2>2
  <2>4. Observations(seen)[s] = seen[last].value
    BY DEF Observations
  <2> QED
    BY <2>3, <2>4
<1>3. Observations(seen)[Success] = IF verdict = "ok" THEN 1 ELSE 0
  BY DEF Observations
<1> QED
  BY <1>1, <1>2, <1>3

\* OpenTelemetry observes every metric under its own series.
LEMMA ObserveStep == ASSUME Inv, Observe PROVE Inv'
<1> DEFINE known == {i \in DOMAIN metrics : \E j \in DOMAIN Specs : Specs[j].name = metrics[i].name}
           seen == [i \in known |-> [series |-> Series(metrics[i]), value |-> metrics[i].value]]
<1>1. /\ todo' = todo /\ bodies' = bodies /\ rows' = rows /\ metrics' = metrics
      /\ verdict' = verdict /\ gathered' = gathered /\ shown' = shown
      /\ verdict # "running" /\ observed' = Observations(seen)
  BY DEF Observe
<1>2. DOMAIN metrics \subseteq Nat /\ Distinct(metrics)
  <2>1. CASE verdict = "error"
    <3>1. metrics = <<>>
      BY <2>1 DEF Inv, Failure
    <3>2. DOMAIN metrics = {}
      BY <3>1
    <3> QED
      BY <3>2 DEF Distinct
  <2>2. CASE verdict # "error"
    <3>1. metrics \in Seq(Measurements) /\ Distinct(metrics)
      BY <2>2 DEF Inv, Collected
    <3>2. DOMAIN metrics = 1..Len(metrics)
      BY <3>1, LenProperties
    <3> QED
      BY <3>1, <3>2
  <2> QED
    BY <2>1, <2>2
<1>3. \A i \in DOMAIN metrics : metrics[i].name # "scrape_success" /\ i \in known
  <2>1. CASE verdict = "error"
    <3>1. metrics = <<>>
      BY <2>1 DEF Inv, Failure
    <3> QED
      BY <3>1
  <2>2. CASE verdict # "error"
    <3>1. \A i \in DOMAIN metrics : metrics[i] \in ToSet(metrics)
      BY DEF ToSet
    <3> QED
      BY <2>2, <3>1, Described
  <2> QED
    BY <2>1, <2>2
<1>4. DOMAIN seen = DOMAIN metrics
  BY <1>3
<1>5. \A i \in DOMAIN metrics : seen[i].series = Series(metrics[i]) /\ seen[i].value = metrics[i].value
  BY <1>3
<1> HIDE DEF seen, known
<1>6. \A i \in DOMAIN metrics : Series(metrics[i]) # Success
  BY <1>3 DEF Series, Success
<1>7. /\ DOMAIN Observations(seen) = {Success} \cup {seen[i].series : i \in DOMAIN seen}
      /\ \A i \in DOMAIN seen : Observations(seen)[seen[i].series] = seen[i].value
      /\ Observations(seen)[Success] = IF verdict = "ok" THEN 1 ELSE 0
  <2>1. \A i, j \in DOMAIN seen : i # j => seen[i].series # seen[j].series
    BY <1>2, <1>4, <1>5 DEF Distinct
  <2>2. \A i \in DOMAIN seen : seen[i].series # Success
    BY <1>4, <1>5, <1>6
  <2>3. DOMAIN seen \subseteq Nat
    BY <1>2, <1>4
  <2> QED
    BY ONLY <2>1, <2>2, <2>3, ObservationsLeft
<1>8. \A m \in ToSet(metrics) : \E i \in DOMAIN metrics : m = metrics[i]
  BY DEF ToSet
<1>9. DOMAIN observed' \ {Success} = {Series(m) : m \in ToSet(metrics)}
  <2>1. \A s : s \in DOMAIN observed' \ {Success} <=> \E i \in DOMAIN metrics : s = Series(metrics[i])
    BY <1>1, <1>4, <1>5, <1>6, <1>7
  <2>2. \A i \in DOMAIN metrics : metrics[i] \in ToSet(metrics)
    BY DEF ToSet
  <2> QED
    BY <1>8, <2>1, <2>2
<1>10. \A m \in ToSet(metrics) : observed'[Series(m)] = m.value
  BY <1>1, <1>4, <1>5, <1>7, <1>8
<1>11. observed'[Success] = 1 <=> verdict = "ok"
  BY <1>1, <1>7
<1>12. Observed'
  BY <1>1, <1>9, <1>10, <1>11 DEF Observed
<1>13. Progress' /\ Collected' /\ Sorted'
  BY <1>1 DEF Inv, Progress, Collected, Sorted, Done, Asked, BodyOf
<1>14. Failure' /\ Registry'
  BY <1>1 DEF Inv, Failure, Cause, Registry
<1> QED
  BY <1>12, <1>13, <1>14 DEF Inv

\* Other steps change nothing the invariant is about.
LEMMA StutterStep == ASSUME Inv, UNCHANGED vars PROVE Inv'
<1>1. /\ todo' = todo /\ bodies' = bodies /\ rows' = rows /\ metrics' = metrics /\ verdict' = verdict
      /\ gathered' = gathered /\ shown' = shown /\ observed' = observed
  BY DEF vars, exported
<1>2. Progress' /\ Collected' /\ Sorted'
  BY <1>1 DEF Inv, Progress, Collected, Sorted, Done, Asked, BodyOf
<1>3. Failure' /\ Registry' /\ Observed'
  BY <1>1 DEF Inv, Failure, Cause, Registry, Observed
<1> QED
  BY <1>2, <1>3 DEF Inv

-----------------------------------------------------------------------------
(* The theorems                                                            *)

\* The invariant holds in every reachable state.
THEOREM Invariance == Spec => []Inv
<1>1. Inv /\ [Next]_vars => Inv'
  BY FetchStep, FetchFailsStep, ExtractNextStep, FinishStep, GatherStep, ObserveStep, StutterStep DEF Next
<1> QED
  BY <1>1, InitInv, PTL DEF Spec

\* Values are finite, every metric belongs to a row, and a scrape that failed
\* returns none (metrics.go:40-116).
THEOREM MetricsTypeCorrect == Spec => []TypeOK
<1>1. Inv => TypeOK
  <2> SUFFICES ASSUME Inv PROVE TypeOK
    OBVIOUS
  <2>1. ASSUME NEW i \in DOMAIN metrics
        PROVE  metrics[i].value \in Numbers /\ \E j \in DOMAIN Specs : metrics[i].name = Specs[j].name
    <3>1. metrics[i] \in ToSet(metrics)
      BY DEF ToSet
    <3>2. verdict # "error"
      <4>1. ~(metrics = <<>>)
        OBVIOUS
      <4> QED
        BY <4>1 DEF Inv, Failure
    <3>3. metrics[i] \in Measurements
      BY <3>1, <3>2, Described
    <3> QED
      BY <3>1, <3>2, <3>3, Described DEF Measurements
  <2> QED
    BY <2>1 DEF TypeOK, Inv, Progress, Failure, Registry
<1> QED
  BY <1>1, Invariance, PTL

\* A scrape that succeeds returns exactly the numbers Pi-hole sent for the table,
\* whatever it sent: none lost, none made up, none twice, in name and label
\* order (metrics.go:40-116).
THEOREM ScrapeIsComplete == Spec => []Complete
<1>1. Inv => Complete
  <2> SUFFICES ASSUME Inv, verdict = "ok" PROVE Complete
    BY DEF Complete
  <2>1. DOMAIN bodies = Endpoints /\ rows = {}
    BY DEF Inv, Progress
  <2>2. Done = DOMAIN Specs
    BY <2>1 DEF Done, Asked, Endpoints
  <2>3. \A m : m \in ToSet(metrics) <=> \E i \in DOMAIN Specs : m \in Expected(BodyOf(Specs[i]), Specs[i])
    BY <2>2 DEF Inv, Collected
  <2>4. ToSet(metrics) = UNION {Expected(BodyOf(Specs[i]), Specs[i]) : i \in DOMAIN Specs}
    BY <2>3
  <2> QED
    BY <2>1, <2>4 DEF Complete, Inv, Sorted
<1> QED
  BY <1>1, Invariance, PTL

\* The scrape fails if and only if something Pi-hole sent is a reason to: an
\* answer that is no object, a field of the wrong kind (metrics.go:78-124).
THEOREM FailureHasCause == Spec => []ErrorHasCause
<1>1. Inv => ErrorHasCause
  <2> SUFFICES ASSUME Inv, verdict # "running" PROVE verdict = "error" <=> Cause
    BY DEF ErrorHasCause, Cause
  <2>1. CASE verdict = "error"
    BY <2>1 DEF Inv, Failure
  <2>2. CASE verdict = "ok"
    <3>1. \A endpoint \in DOMAIN bodies : IsObject(Decoded(bodies[endpoint]))
      BY <2>2 DEF Inv, Collected, Body
    <3>2. rows = {} /\ \A i \in Done : ~Unreadable(BodyOf(Specs[i]), Specs[i])
      BY <2>2 DEF Inv, Collected, Progress
    <3>3. \A endpoint \in DOMAIN bodies : \A i \in Rows(endpoint) : ~Unreadable(Decoded(bodies[endpoint]), Specs[i])
      BY <3>2 DEF Done, Asked, Rows, BodyOf
    <3> QED
      BY <2>2, <3>1, <3>3 DEF Cause
  <2> QED
    BY <2>1, <2>2 DEF Inv, Progress
<1> QED
  BY <1>1, Invariance, PTL

\* A scrape that succeeds is never refused by the registry: every series is
\* described and none comes twice (collector.go:65-73, 103-120).
THEOREM RegistryAccepts == Spec => []GatherAccepts
<1>1. Inv => GatherAccepts
  BY DEF Inv, Registry, GatherAccepts
<1> QED
  BY <1>1, Invariance, PTL

\* Prometheus and OpenTelemetry show the same series and values, and a failed
\* scrape as failed (collector.go:103-120, otel.go:164-202).
THEOREM ExportersAgree == Spec => []SameSeries
<1>1. Inv => SameSeries
  <2> SUFFICES ASSUME Inv, observed # <<>>, gathered # "nothing yet" PROVE SameSeries
    BY DEF SameSeries
  <2>1. \/ gathered = "200" /\ verdict = "ok" /\ shown = ToSet(metrics)
        \/ gathered = "500" /\ verdict = "error" /\ shown = {}
    BY DEF Inv, Registry
  <2>2. ASSUME verdict = "error" PROVE ToSet(metrics) = {}
    <3>1. metrics = <<>>
      BY <2>2 DEF Inv, Failure
    <3>2. DOMAIN metrics = {}
      BY ONLY <3>1
    <3>3. \A m : m \notin ToSet(metrics)
      BY <3>2 DEF ToSet
    <3> QED
      BY <3>3
  <2>3. shown = ToSet(metrics) /\ (verdict = "ok" <=> gathered = "200")
    BY <2>1, <2>2
  <2> QED
    BY <2>3 DEF SameSeries, Inv, Observed
<1> QED
  BY <1>1, Invariance, PTL
=============================================================================
