-------------------------- MODULE PiholeMockProofs --------------------------
(***************************************************************************)
(* What a passing test proves when it uses the mock, for every plan of     *)
(* expectations and any number of requests.                                *)
(***************************************************************************)
EXTENDS PiholeMock, FiniteSetTheorems, TLAPS

\* The requests expectation e has taken.
TakenBy(e) == {i \in 1..Len(taken) : taken[i] = e}

\* Where everything lives.
Shapes ==
    /\ plan \in Plans
    /\ used \in [DOMAIN plan -> Nat]
    /\ arrived \in Seq(Requests)
    /\ taken \in Seq(DOMAIN plan \cup {0})
    /\ Len(taken) = Len(arrived)
    /\ failed \in BOOLEAN
    /\ verdict \in {"running", "passed", "failed"}

\* The counters agree with the history and stay within what was asked.
Counted ==
    \A e \in DOMAIN plan : used[e] = Cardinality(TakenBy(e)) /\ used[e] <= plan[e].times

\* A taken request matches, and what its expectation must follow is complete:
\* so that one can take nothing more, which is what keeps the order.
TakenInOrder ==
    \A i \in 1..Len(taken) : taken[i] # 0 =>
        /\ Matches(plan[taken[i]], arrived[i])
        /\ plan[taken[i]].after # 0 => Spent(plan[taken[i]].after)

\* A refused request is remembered, and so is the verdict's reason.
Remembered ==
    /\ failed <=> (\E i \in 1..Len(taken) : taken[i] = 0)
    /\ verdict = "passed" => ~failed /\ \A e \in DOMAIN plan : Spent(e)

Ordered ==
    \A i, j \in 1..Len(taken) :
        taken[j] # 0 /\ taken[i] # 0 /\ plan[taken[j]].after = taken[i] => i < j

MockInv == Shapes /\ Counted /\ TakenInOrder /\ Remembered /\ Ordered

\* What the assumption says of the plan of a behaviour.
LEMMA PlanFacts ==
    ASSUME plan \in Plans, NEW e \in DOMAIN plan
    PROVE  e # 0 /\ plan[e].times \in Nat /\ plan[e].after \in DOMAIN plan \cup {0}
  BY PlansAssumption

\* A new mock has no requests.
LEMMA InitInv == Init => MockInv
<1> SUFFICES ASSUME Init PROVE MockInv
  OBVIOUS
<1>1. Len(taken) = 0 /\ Len(arrived) = 0
  BY DEF Init
<1>2. Shapes
  <2>1. arrived \in Seq(Requests) /\ taken \in Seq(DOMAIN plan \cup {0})
    BY DEF Init
  <2>2. used \in [DOMAIN plan -> Nat] /\ plan \in Plans /\ failed \in BOOLEAN
    BY DEF Init
  <2> QED
    BY <1>1, <2>1, <2>2 DEF Init, Shapes
<1>3. ASSUME NEW e \in DOMAIN plan PROVE used[e] = Cardinality(TakenBy(e)) /\ used[e] <= plan[e].times
  <2>1. TakenBy(e) = {}
    BY <1>1 DEF TakenBy
  <2>2. plan[e].times \in Nat
    BY PlanFacts DEF Init
  <2> QED
    BY <2>1, <2>2, FS_EmptySet DEF Init
<1> QED
  BY <1>1, <1>2, <1>3 DEF Init, MockInv, Counted, TakenInOrder, Remembered, Ordered

\* A request that expectation e takes.
LEMMA TakeStep ==
    ASSUME MockInv, NEW request \in Requests, NEW e \in DOMAIN plan,
           Takes(e, request),
           arrived' = Append(arrived, request), taken' = Append(taken, e),
           used' = [used EXCEPT ![e] = @ + 1], failed' = failed,
           plan' = plan, verdict' = verdict, verdict = "running"
    PROVE  MockInv'
<1>1. e # 0 /\ plan[e].times \in Nat /\ used[e] \in Nat /\ used[e] < plan[e].times
  <2>1. e # 0 /\ plan[e].times \in Nat /\ used[e] \in Nat
    BY PlanFacts DEF MockInv, Shapes
  <2> QED
    BY <2>1 DEF Takes, Spent
<1>2. Shapes'
  BY <1>1 DEF MockInv, Shapes
<1>3. Len(taken') = Len(taken) + 1 /\ Len(taken) \in Nat /\ taken'[Len(taken) + 1] = e
  BY DEF MockInv, Shapes
<1>4. \A i \in 1..Len(taken) : taken'[i] = taken[i] /\ arrived'[i] = arrived[i]
  BY DEF MockInv, Shapes
<1>5. arrived'[Len(taken) + 1] = request
  BY DEF MockInv, Shapes
<1>6. \A d \in DOMAIN plan : Spent(d) => used'[d] >= plan[d].times
  <2> SUFFICES ASSUME NEW d \in DOMAIN plan, used[d] >= plan[d].times
               PROVE  used'[d] >= plan[d].times
    BY DEF Spent
  <2>1. plan[d].times \in Nat /\ used[d] \in Nat /\ used'[d] \in {used[d], used[d] + 1}
    BY PlanFacts DEF MockInv, Shapes
  <2> QED
    BY <2>1
<1>7. Counted'
  <2> SUFFICES ASSUME NEW d \in DOMAIN plan
               PROVE  used'[d] = Cardinality(TakenBy(d)') /\ used'[d] <= plan[d].times
    BY DEF Counted
  <2>1. IsFiniteSet(TakenBy(d))
    <3>1. IsFiniteSet(1..Len(taken))
      BY <1>3, FS_Interval
    <3>2. TakenBy(d) \subseteq 1..Len(taken)
      BY DEF TakenBy
    <3> QED
      BY <3>1, <3>2, FS_Subset
  <2>2. CASE d = e
    <3>1. TakenBy(d)' = TakenBy(d) \cup {Len(taken) + 1} /\ Len(taken) + 1 \notin TakenBy(d)
      BY <1>3, <1>4, <2>2 DEF TakenBy
    <3>2. Cardinality(TakenBy(d)') = Cardinality(TakenBy(d)) + 1
      BY <2>1, <3>1, FS_AddElement
    <3> QED
      BY <1>1, <2>2, <3>2 DEF MockInv, Counted, Shapes
  <2>3. CASE d # e
    <3>1. TakenBy(d)' = TakenBy(d)
      BY <1>3, <1>4, <2>3 DEF TakenBy
    <3> QED
      BY <2>3, <3>1 DEF MockInv, Counted, Shapes
  <2> QED
    BY <2>2, <2>3
<1>8. TakenInOrder'
  <2>1. ASSUME NEW i \in 1..Len(taken'), taken'[i] # 0
        PROVE  /\ Matches(plan[taken'[i]], arrived'[i])
               /\ plan[taken'[i]].after # 0 => used'[plan[taken'[i]].after] >= plan[plan[taken'[i]].after].times
    <3>1. CASE i = Len(taken) + 1
      <4>1. plan[e].after # 0 => plan[e].after \in DOMAIN plan /\ Spent(plan[e].after)
        BY PlanFacts DEF Takes, MockInv, Shapes
      <4> QED
        BY <1>3, <1>5, <1>6, <3>1, <4>1 DEF Takes
    <3>2. CASE i \in 1..Len(taken)
      <4>1. taken[i] \in DOMAIN plan /\ taken[i] # 0
        BY <1>4, <2>1, <3>2 DEF MockInv, Shapes
      <4>2. plan[taken[i]].after # 0 =>
               plan[taken[i]].after \in DOMAIN plan /\ Spent(plan[taken[i]].after)
        BY <3>2, <4>1, PlanFacts DEF MockInv, TakenInOrder, Shapes
      <4> QED
        BY <1>4, <1>6, <3>2, <4>1, <4>2 DEF MockInv, TakenInOrder
    <3>3. i = Len(taken) + 1 \/ i \in 1..Len(taken)
      BY <1>3
    <3> QED
      BY <3>1, <3>2, <3>3
  <2> QED
    BY <2>1 DEF TakenInOrder, Spent, Matches
<1>9. Remembered'
  BY <1>1, <1>3, <1>4 DEF MockInv, Remembered
<1>10. Ordered'
  <2> SUFFICES ASSUME NEW i \in 1..Len(taken'), NEW j \in 1..Len(taken'),
                      taken'[j] # 0, taken'[i] # 0, plan[taken'[j]].after = taken'[i]
               PROVE  i < j
    BY DEF Ordered
  <2>1. CASE i = Len(taken) + 1 /\ j = Len(taken) + 1
    BY <1>1, <1>3, <2>1 DEF Takes
  <2>2. CASE i = Len(taken) + 1 /\ j \in 1..Len(taken)
    <3>1. Spent(e)
      BY <1>1, <1>3, <1>4, <2>2 DEF MockInv, TakenInOrder
    <3> QED
      BY <3>1 DEF Takes
  <2>3. CASE i \in 1..Len(taken) /\ j \in 1..Len(taken)
    BY <1>4, <2>3 DEF MockInv, Ordered
  <2> QED
    BY <1>3, <2>1, <2>2, <2>3
<1> QED
  BY <1>2, <1>7, <1>8, <1>9, <1>10 DEF MockInv

\* A request that no expectation takes.
LEMMA RefuseStep ==
    ASSUME MockInv, NEW request \in Requests,
           arrived' = Append(arrived, request), taken' = Append(taken, 0),
           used' = used, failed' = TRUE, plan' = plan, verdict' = verdict, verdict = "running"
    PROVE  MockInv'
<1>1. Shapes'
  BY DEF MockInv, Shapes
<1>2. Len(taken') = Len(taken) + 1 /\ Len(taken) \in Nat /\ taken'[Len(taken) + 1] = 0
  BY DEF MockInv, Shapes
<1>3. \A i \in 1..Len(taken) : taken'[i] = taken[i] /\ arrived'[i] = arrived[i]
  BY DEF MockInv, Shapes
<1>4. \A d \in DOMAIN plan : TakenBy(d)' = TakenBy(d)
  BY <1>2, <1>3, PlansAssumption DEF TakenBy, MockInv, Shapes
<1>5. Counted'
  BY <1>4 DEF MockInv, Counted
<1>6. TakenInOrder'
  <2> SUFFICES ASSUME NEW i \in 1..Len(taken'), taken'[i] # 0
               PROVE  /\ Matches(plan[taken'[i]], arrived'[i])
                      /\ plan[taken'[i]].after # 0 => Spent(plan[taken'[i]].after)
    BY DEF TakenInOrder, Spent, Matches
  <2>1. i \in 1..Len(taken)
    BY <1>2
  <2> QED
    BY <1>3, <2>1 DEF MockInv, TakenInOrder
<1>7. Remembered'
  BY <1>2 DEF MockInv, Remembered
<1>8. Ordered'
  BY <1>2, <1>3 DEF MockInv, Ordered
<1> QED
  BY <1>1, <1>5, <1>6, <1>7, <1>8 DEF MockInv

\* Every step keeps the invariant.
LEMMA MockStep == MockInv /\ [Next]_vars => MockInv'
<1> SUFFICES ASSUME MockInv, [Next]_vars PROVE MockInv'
  OBVIOUS
<1>1. ASSUME NEW request \in Requests, Respond(request) PROVE MockInv'
  <2>1. CASE taken' = Append(taken, 0) /\ failed' = TRUE /\ used' = used
    BY <1>1, <2>1, RefuseStep DEF Respond
  <2>2. ASSUME NEW e \in DOMAIN plan, Takes(e, request), taken' = Append(taken, e),
               used' = [used EXCEPT ![e] = @ + 1], failed' = failed
        PROVE  MockInv'
    BY <1>1, <2>2, TakeStep DEF Respond
  <2> QED
    BY <1>1, <2>1, <2>2 DEF Respond
<1>2. CASE Verify
  BY <1>2 DEF Verify, MockInv, Shapes, Counted, TakenBy, TakenInOrder, Remembered, Ordered, Spent, Matches
<1>3. CASE UNCHANGED vars
  BY <1>3 DEF vars, MockInv, Shapes, Counted, TakenBy, TakenInOrder, Remembered, Ordered, Spent, Matches
<1> QED
  BY <1>1, <1>2, <1>3 DEF Next

\* The invariant of the mock, from which the theorems follow.
LEMMA MockInvariance == Spec => []MockInv
  BY InitInv, MockStep, PTL DEF Spec

\* The counters agree with the history and stay within what was asked, and a
\* refused request fails the test for good (mock.go:161-186).
THEOREM MockTypeCorrect == Spec => []TypeOK
<1>1. ASSUME MockInv PROVE TypeOK
  <2>1. DOMAIN taken = 1..Len(taken)
    BY <1>1 DEF MockInv, Shapes
  <2>2. \A e \in DOMAIN plan :
          used[e] = Cardinality({i \in DOMAIN taken : taken[i] = e}) /\ used[e] <= plan[e].times
    BY <1>1, <2>1 DEF MockInv, Counted, TakenBy
  <2>3. failed <=> \E i \in DOMAIN taken : taken[i] = 0
    BY <1>1, <2>1 DEF MockInv, Remembered
  <2> QED
    BY <1>1, <2>2, <2>3 DEF MockInv, Shapes, TypeOK
<1> QED
  BY <1>1, MockInvariance, PTL

\* A request goes to an expectation declared After another only when all
\* requests of that one have come (mock.go:115-121, 164-167).
THEOREM AfterIsKept == Spec => []AfterHolds
<1>1. MockInv => AfterHolds
  <2> SUFFICES ASSUME MockInv, NEW j \in DOMAIN taken, NEW e \in DOMAIN plan,
                      taken[j] # 0, plan[taken[j]].after = e
               PROVE  Cardinality({i \in 1..(j - 1) : taken[i] = e}) = plan[e].times
    BY DEF AfterHolds
  <2>1. e # 0
    BY PlanFacts DEF MockInv, Shapes
  <2>2. j \in 1..Len(taken) /\ Len(taken) \in Nat
    BY DEF MockInv, Shapes
  <2>3. {i \in 1..(j - 1) : taken[i] = e} = TakenBy(e)
    <3>1. \A i \in TakenBy(e) : i \in 1..Len(taken) /\ taken[i] = e /\ i < j
      BY <2>1, <2>2 DEF MockInv, Ordered, TakenBy
    <3> QED
      BY <2>2, <3>1 DEF TakenBy
  <2>4. used[e] = Cardinality(TakenBy(e)) /\ used[e] <= plan[e].times
    BY DEF MockInv, Counted
  <2>5. used[e] >= plan[e].times
    BY <2>1, <2>2 DEF MockInv, TakenInOrder, Spent
  <2>6. used[e] \in Nat /\ plan[e].times \in Nat
    BY PlanFacts DEF MockInv, Shapes
  <2> QED
    BY <2>3, <2>4, <2>5, <2>6
<1> QED
  BY <1>1, MockInvariance, PTL

\* A test that passes got exactly the requests it expects, in an order it allows
\* (mock.go:25-28, 150-187, 217-227): the assignment is the one the mock made.
THEOREM PassingTestFits == Spec => []PassMeansFits
<1>1. ASSUME MockInv, verdict = "passed" PROVE Fits
  <2>1. \A i \in 1..Len(taken) : taken[i] \in DOMAIN plan /\ taken[i] # 0
    BY <1>1, PlansAssumption DEF MockInv, Shapes, Remembered
  <2>2. DOMAIN arrived = 1..Len(taken) /\ DOMAIN taken = 1..Len(taken)
    BY <1>1 DEF MockInv, Shapes
  <2>3. taken \in [DOMAIN arrived -> DOMAIN plan]
    BY <1>1, <2>1, <2>2 DEF MockInv, Shapes
  <2>4. \A e \in DOMAIN plan : Cardinality({i \in DOMAIN arrived : taken[i] = e}) = plan[e].times
    <3> SUFFICES ASSUME NEW e \in DOMAIN plan PROVE Cardinality(TakenBy(e)) = plan[e].times
      BY <2>2 DEF TakenBy
    <3>1. used[e] >= plan[e].times /\ used[e] <= plan[e].times /\ used[e] = Cardinality(TakenBy(e))
      BY <1>1 DEF MockInv, Counted, Remembered, Spent
    <3>2. used[e] \in Nat /\ plan[e].times \in Nat
      BY <1>1, PlansAssumption DEF MockInv, Shapes
    <3> QED
      BY <3>1, <3>2
  <2>5. \A i \in DOMAIN arrived : Matches(plan[taken[i]], arrived[i])
    BY <1>1, <2>1, <2>2 DEF MockInv, TakenInOrder
  <2>6. \A i, j \in DOMAIN arrived : plan[taken[j]].after = taken[i] => i < j
    BY <1>1, <2>1, <2>2 DEF MockInv, Ordered
  <2> QED
    BY <2>3, <2>4, <2>5, <2>6 DEF Fits
<1>2. MockInv => PassMeansFits
  BY <1>1 DEF PassMeansFits
<1> QED
  BY <1>2, MockInvariance, PTL

-----------------------------------------------------------------------------
(* The converse: a test whose requests fit does not fail.                  *)

\* The requests before i that expectation e has taken.
TakenBefore(i, e) == {j \in 1..(i - 1) : taken[j] = e}

\* Why request i was refused: what it matches had its number, or waits for more
\* requests of another.
HadReason(i) ==
    \A e \in DOMAIN plan : Matches(plan[e], arrived[i]) =>
        \/ Cardinality(TakenBefore(i, e)) >= plan[e].times
        \/ /\ plan[e].after # 0
           /\ Cardinality(TakenBefore(i, plan[e].after)) < plan[plan[e].after].times

\* The first refusal is kept with its reason.  Of a later one no reason can be
\* given in terms of the requests: it may wait for the one refused.
FirstRefusal ==
    failed => \E i \in 1..Len(taken) :
                /\ taken[i] = 0 /\ HadReason(i)
                /\ \A j \in 1..(i - 1) : taken[j] # 0

FailedForCause == verdict = "failed" => failed \/ \E e \in DOMAIN plan : ~Spent(e)

RefusalInv == FirstRefusal /\ FailedForCause

\* One more request changes nothing about an earlier refusal.
LEMMA RefusalKept ==
    ASSUME MockInv, FirstRefusal, failed, plan' = plan,
           NEW request, NEW e, arrived' = Append(arrived, request), taken' = Append(taken, e)
    PROVE  FirstRefusal'
<1>1. PICK i \in 1..Len(taken) :
        taken[i] = 0 /\ HadReason(i) /\ \A j \in 1..(i - 1) : taken[j] # 0
  BY DEF FirstRefusal
<1>2. Len(taken) \in Nat /\ Len(taken') = Len(taken) + 1 /\ Len(arrived) = Len(taken)
  BY DEF MockInv, Shapes
<1>3. \A j \in 1..Len(taken) : taken'[j] = taken[j] /\ arrived'[j] = arrived[j]
  BY DEF MockInv, Shapes
<1>4. 1..(i - 1) \subseteq 1..Len(taken) /\ i \in 1..Len(taken')
  BY <1>2
<1>5. \A d : TakenBefore(i, d)' = TakenBefore(i, d)
  BY <1>3, <1>4 DEF TakenBefore
<1>6. HadReason(i)'
  <2>1. arrived'[i] = arrived[i]
    BY <1>3
  <2> QED
    BY <1>1, <1>5, <2>1 DEF HadReason, Matches
<1>7. taken'[i] = 0 /\ \A j \in 1..(i - 1) : taken'[j] # 0
  BY <1>1, <1>3, <1>4
<1> QED
  BY <1>4, <1>6, <1>7 DEF FirstRefusal

\* The first request that no expectation takes.
LEMMA RefusalBegins ==
    ASSUME MockInv, ~failed, plan' = plan,
           NEW request \in Requests, \A e \in DOMAIN plan : ~Takes(e, request),
           arrived' = Append(arrived, request), taken' = Append(taken, 0)
    PROVE  FirstRefusal'
<1> PICK n \in Nat : n = Len(taken) + 1
  BY DEF MockInv, Shapes
<1>1. Len(taken) \in Nat /\ Len(taken') = n /\ n \in 1..n /\ n - 1 = Len(taken)
  BY DEF MockInv, Shapes
<1>2. /\ \A j \in 1..Len(taken) : taken'[j] = taken[j]
      /\ taken'[n] = 0 /\ arrived'[n] = request
  BY DEF MockInv, Shapes
<1>3. \A j \in 1..(n - 1) : taken'[j] # 0
  BY <1>1, <1>2 DEF MockInv, Remembered
<1>4. \A d \in DOMAIN plan : used[d] = Cardinality(TakenBefore(n, d)')
  <2>1. \A d : TakenBefore(n, d)' = TakenBy(d)
    BY <1>1, <1>2 DEF TakenBefore, TakenBy
  <2> QED
    BY <2>1 DEF MockInv, Counted
<1>5. HadReason(n)'
  <2> SUFFICES ASSUME NEW e \in DOMAIN plan, Matches(plan[e], request)
               PROVE  \/ Cardinality(TakenBefore(n, e)') >= plan[e].times
                      \/ /\ plan[e].after # 0
                         /\ Cardinality(TakenBefore(n, plan[e].after)') < plan[plan[e].after].times
    BY <1>2 DEF HadReason, Matches
  <2>1. ~Takes(e, request)
    OBVIOUS
  <2>2. CASE Spent(e)
    BY <1>4, <2>2 DEF Spent
  <2>3. CASE plan[e].after # 0 /\ ~Spent(plan[e].after)
    <3>1. plan[e].after \in DOMAIN plan
      BY <2>3, PlanFacts DEF MockInv, Shapes
    <3>2. used[plan[e].after] \in Nat /\ plan[plan[e].after].times \in Nat
      BY <3>1, PlanFacts DEF MockInv, Shapes
    <3> QED
      BY <1>4, <2>3, <3>1, <3>2 DEF Spent
  <2> QED
    BY <2>1, <2>2, <2>3 DEF Takes
<1> QED
  BY <1>1, <1>2, <1>3, <1>5 DEF FirstRefusal

\* Every step keeps the reasons.
LEMMA RefusalStep == MockInv /\ RefusalInv /\ [Next]_vars => RefusalInv'
<1> SUFFICES ASSUME MockInv, RefusalInv, [Next]_vars PROVE RefusalInv'
  OBVIOUS
<1>1. ASSUME NEW request \in Requests, Respond(request) PROVE RefusalInv'
  <2>1. plan' = plan /\ arrived' = Append(arrived, request) /\ FailedForCause'
    BY <1>1 DEF Respond, FailedForCause
  <2>2. ASSUME NEW e \in DOMAIN plan, taken' = Append(taken, e), failed' = failed
        PROVE  FirstRefusal'
    <3>1. CASE failed
      BY <2>1, <2>2, <3>1, RefusalKept DEF RefusalInv
    <3>2. CASE ~failed
      BY <2>2, <3>2 DEF FirstRefusal
    <3> QED
      BY <3>1, <3>2
  <2>3. ASSUME taken' = Append(taken, 0), \A e \in DOMAIN plan : ~Takes(e, request)
        PROVE  FirstRefusal'
    <3>1. CASE failed
      BY <2>1, <2>3, <3>1, RefusalKept DEF RefusalInv
    <3>2. CASE ~failed
      BY <2>1, <2>3, <3>2, RefusalBegins
    <3> QED
      BY <3>1, <3>2
  <2> QED
    BY <1>1, <2>1, <2>2, <2>3 DEF Respond, RefusalInv
<1>2. CASE Verify
  BY <1>2 DEF Verify, RefusalInv, FirstRefusal, FailedForCause, HadReason, TakenBefore, Spent, Matches
<1>3. CASE UNCHANGED vars
  BY <1>3 DEF vars, RefusalInv, FirstRefusal, FailedForCause, HadReason, TakenBefore, Spent, Matches
<1> QED
  BY <1>1, <1>2, <1>3 DEF Next

\* The reasons hold in every state.
LEMMA RefusalInvariance == Spec => [](MockInv /\ RefusalInv)
<1>1. Init => RefusalInv
  BY DEF Init, RefusalInv, FirstRefusal, FailedForCause
<1> QED
  BY <1>1, MockInvariance, RefusalStep, PTL DEF Spec

\* An assignment that makes the requests fit, as in Fits.
Assigns(f) ==
    /\ f \in [DOMAIN arrived -> DOMAIN plan]
    /\ \A i \in DOMAIN arrived : Matches(plan[f[i]], arrived[i])
    /\ \A e \in DOMAIN plan : Cardinality({i \in DOMAIN arrived : f[i] = e}) = plan[e].times
    /\ \A i, j \in DOMAIN arrived : plan[f[j]].after = f[i] => i < j

\* If no request matches two expectations, the mock follows every assignment
\* that fits, as far as it takes requests at all.
LEMMA MockFollows ==
    ASSUME MockInv, Unambiguous, NEW f, Assigns(f), NEW i \in 1..Len(taken), taken[i] # 0
    PROVE  f[i] = taken[i]
<1>1. i \in DOMAIN arrived /\ arrived[i] \in Requests /\ taken[i] \in DOMAIN plan
  BY DEF MockInv, Shapes
<1>2. Matches(plan[taken[i]], arrived[i]) /\ Matches(plan[f[i]], arrived[i]) /\ f[i] \in DOMAIN plan
  BY <1>1 DEF MockInv, TakenInOrder, Assigns
<1> QED
  BY <1>1, <1>2 DEF Unambiguous

\* Requests that fit are all taken: a first one refused would be one too many
\* for its expectation, or come before one that its expectation waits for.
LEMMA FittingIsTaken ==
    ASSUME MockInv, RefusalInv, Unambiguous, NEW f, Assigns(f)
    PROVE  ~failed
<1> SUFFICES ASSUME failed PROVE FALSE
  OBVIOUS
<1>1. PICK i \in 1..Len(taken) :
        taken[i] = 0 /\ HadReason(i) /\ \A j \in 1..(i - 1) : taken[j] # 0
  BY DEF RefusalInv, FirstRefusal
<1>2. Len(taken) \in Nat /\ DOMAIN arrived = 1..Len(taken) /\ 1..(i - 1) \subseteq 1..Len(taken)
  BY DEF MockInv, Shapes
<1>3. f[i] \in DOMAIN plan /\ Matches(plan[f[i]], arrived[i])
  BY <1>2 DEF Assigns
<1>4. \A j \in 1..(i - 1) : f[j] = taken[j]
  BY <1>1, <1>2, MockFollows
<1> DEFINE Given(e) == {j \in DOMAIN arrived : f[j] = e}
<1>5. \A e \in DOMAIN plan : IsFiniteSet(Given(e)) /\ Cardinality(Given(e)) = plan[e].times
  <2>1. IsFiniteSet(1..Len(taken))
    BY <1>2, FS_Interval
  <2>2. \A e : Given(e) \subseteq 1..Len(taken)
    BY <1>2
  <2> QED
    BY <2>1, <2>2, FS_Subset DEF Assigns
<1>6. ASSUME Cardinality(TakenBefore(i, f[i])) >= plan[f[i]].times PROVE FALSE
  <2> DEFINE before == TakenBefore(i, f[i])
  <2>1. before \subseteq Given(f[i]) /\ i \in Given(f[i]) /\ i \notin before
    BY <1>2, <1>4 DEF TakenBefore
  <2>2. before \subseteq Given(f[i]) \ {i}
    BY <2>1
  <2>3. IsFiniteSet(Given(f[i]) \ {i}) /\ Cardinality(Given(f[i]) \ {i}) = plan[f[i]].times - 1
    BY <1>3, <1>5, <2>1, FS_RemoveElement
  <2>4. IsFiniteSet(before) /\ Cardinality(before) <= plan[f[i]].times - 1
    BY <2>2, <2>3, FS_Subset
  <2>5. Cardinality(before) \in Nat /\ plan[f[i]].times \in Nat
    BY <1>3, <2>4, FS_CardinalityType, PlanFacts DEF MockInv, Shapes
  <2> QED
    BY <1>6, <2>4, <2>5
<1>7. ASSUME plan[f[i]].after # 0,
             Cardinality(TakenBefore(i, plan[f[i]].after)) < plan[plan[f[i]].after].times
      PROVE  FALSE
  <2> DEFINE d == plan[f[i]].after
  <2>1. d \in DOMAIN plan
    BY <1>3, <1>7, PlanFacts DEF MockInv, Shapes
  <2>2. \A j \in Given(d) : j \in 1..(i - 1)
    BY <1>2 DEF Assigns
  <2>3. Given(d) = TakenBefore(i, d)
    BY <1>2, <1>4, <2>2 DEF TakenBefore
  <2>4. plan[d].times \in Nat
    BY <2>1, PlanFacts DEF MockInv, Shapes
  <2>5. Cardinality(Given(d)) = plan[d].times
    BY <1>5, <2>1
  <2> HIDE DEF Given
  <2> QED
    BY <1>7, <2>3, <2>4, <2>5
<1> QED
  BY <1>1, <1>3, <1>6, <1>7 DEF HadReason

\* The mock does not fail a test whose requests can be assigned to the
\* expectations, in whatever order they come and whatever follows what, when no
\* request matches two expectations (mock.go:30, 150-187, 217-227).
THEOREM FittingTestPasses == Spec => []FitsMeansPass
<1>1. ASSUME MockInv, RefusalInv, verdict = "failed", Unambiguous, Fits PROVE FALSE
  <2>1. PICK f : Assigns(f)
    BY <1>1 DEF Fits, Assigns
  <2>2. ~failed
    BY <1>1, <2>1, FittingIsTaken
  <2>3. PICK e \in DOMAIN plan : ~Spent(e)
    BY <1>1, <2>2 DEF RefusalInv, FailedForCause
  <2>4. \A i \in 1..Len(taken) : f[i] = taken[i]
    BY <1>1, <2>1, <2>2, MockFollows DEF MockInv, Remembered
  <2>5. {i \in DOMAIN arrived : f[i] = e} = TakenBy(e)
    BY <1>1, <2>4 DEF TakenBy, MockInv, Shapes
  <2>6. used[e] = plan[e].times /\ plan[e].times \in Nat
    BY <1>1, <2>1, <2>5, PlanFacts DEF Assigns, MockInv, Counted, Shapes
  <2> QED
    BY <2>3, <2>6 DEF Spent
<1>2. MockInv /\ RefusalInv => FitsMeansPass
  BY <1>1 DEF FitsMeansPass
<1> QED
  BY <1>2, RefusalInvariance, PTL
=============================================================================
