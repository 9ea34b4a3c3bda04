----------------------------- MODULE PiholeMock -----------------------------
(***************************************************************************)
(* internal/piholetest/mock.go: the Pi-hole API mock the tests trust.  A   *)
(* test plans expectations; the code under test sends requests, from any   *)
(* goroutine and so in any order; respond gives each, under a mutex, to    *)
(* the first expectation that takes it; verify reports what is unmet.      *)
(*                                                                         *)
(* An expectation is [key, accepts, times, after]: key stands for method   *)
(* and path, accepts for the header and body values it allows, after is    *)
(* the place of the expectation it must follow, or 0.  A request is        *)
(* [key, variant].  The plan is complete before the first request.         *)
(***************************************************************************)
EXTENDS Integers, Sequences, FiniteSets

CONSTANTS
    Plans,       \* sequences of expectations a test may declare
    Requests,    \* what the code under test may send
    MaxRequests  \* the bound on requests in one test

ASSUME PlansAssumption ==
    \A p \in Plans :
        /\ 0 \notin DOMAIN p
        /\ \A e \in DOMAIN p : p[e].times \in Nat /\ p[e].after \in DOMAIN p \cup {0}

VARIABLES
    plan,     \* Mock.expectations
    used,     \* Expectation.used, by place in the plan
    arrived,  \* history: the requests, in order
    taken,    \* history: the expectation each went to, 0 for none
    failed,   \* t.Errorf was called
    verdict   \* "running", then "passed" or "failed"

vars == <<plan, used, arrived, taken, failed, verdict>>

Init ==
    /\ plan \in Plans
    /\ used = [e \in DOMAIN plan |-> 0]
    /\ arrived = <<>>
    /\ taken = <<>>
    /\ failed = FALSE
    /\ verdict = "running"

Spent(e) == used[e] >= plan[e].times

\* mismatch: header values and body, compared as the expectation asks.
Matches(expectation, request) ==
    expectation.key = request.key /\ request.variant \in expectation.accepts

\* Mutant: one request of the earlier expectation is enough.
TakesAfterFirst(e, request) ==
    /\ ~Spent(e)
    /\ plan[e].after # 0 => used[plan[e].after] > 0
    /\ Matches(plan[e], request)

\* Mutant: an expectation may be met once too often.
TakesOnceMore(e, request) ==
    /\ used[e] <= plan[e].times
    /\ plan[e].after # 0 => Spent(plan[e].after)
    /\ Matches(plan[e], request)

\* Mutant: expectations are met in the order they are declared.
TakesInTurn(e, request) ==
    /\ ~Spent(e)
    /\ \A d \in DOMAIN plan : d < e => Spent(d)
    /\ Matches(plan[e], request)

\* What respond asks of an expectation.
Takes(e, request) ==
    /\ ~Spent(e)
    /\ plan[e].after # 0 => Spent(plan[e].after)
    /\ Matches(plan[e], request)

\* respond: the first that takes the request is used; without one the test fails
\* and the reply is a 500.  A path nothing was expected on (New) ends the same.
Respond(request) ==
    /\ verdict = "running"
    /\ Len(arrived) < MaxRequests
    /\ arrived' = Append(arrived, request)
    /\ \/ \E e \in DOMAIN plan :
            /\ Takes(e, request)
            /\ \A d \in DOMAIN plan : d < e => ~Takes(d, request)
            /\ used' = [used EXCEPT ![e] = @ + 1]
            /\ taken' = Append(taken, e)
            /\ UNCHANGED failed
       \/ /\ \A e \in DOMAIN plan : ~Takes(e, request)
          /\ taken' = Append(taken, 0)
          /\ failed' = TRUE
          /\ UNCHANGED used
    /\ UNCHANGED <<plan, verdict>>

\* Mutant: an unmet expectation is not reported.
VerifyErrorsOnly ==
    /\ verdict = "running"
    /\ verdict' = IF failed THEN "failed" ELSE "passed"
    /\ UNCHANGED <<plan, used, arrived, taken, failed>>

\* verify, when the test ends.
Verify ==
    /\ verdict = "running"
    /\ verdict' = IF failed \/ \E e \in DOMAIN plan : ~Spent(e) THEN "failed" ELSE "passed"
    /\ UNCHANGED <<plan, used, arrived, taken, failed>>

Next == Verify \/ \E request \in Requests : Respond(request)

Spec == Init /\ [][Next]_vars

-----------------------------------------------------------------------------
(* Properties                                                              *)

\* Types, and the counters against the history: each expectation has been used
\* as often as it took a request, and never more often than asked.
TypeOK ==
    /\ used \in [DOMAIN plan -> Nat]
    /\ Len(taken) = Len(arrived)
    /\ \A e \in DOMAIN plan :
          used[e] = Cardinality({i \in DOMAIN taken : taken[i] = e}) /\ used[e] <= plan[e].times
    /\ failed <=> \E i \in DOMAIN taken : taken[i] = 0

\* The requests are what the plan asks for: each can be given an expectation
\* that matches, every expectation gets its number, and the ones after another
\* come after all of its requests.
Fits ==
    \E f \in [DOMAIN arrived -> DOMAIN plan] :
        /\ \A i \in DOMAIN arrived : Matches(plan[f[i]], arrived[i])
        /\ \A e \in DOMAIN plan : Cardinality({i \in DOMAIN arrived : f[i] = e}) = plan[e].times
        /\ \A i, j \in DOMAIN arrived : plan[f[j]].after = f[i] => i < j

\* Expectations for one request are apart: no request matches two of them.
Unambiguous ==
    \A d, e \in DOMAIN plan : \A request \in Requests :
        Matches(plan[d], request) /\ Matches(plan[e], request) => d = e

\* A request went to an expectation only after all requests of the one it is
\* declared After had come (mock.go:115-121).
AfterHolds ==
    \A j \in DOMAIN taken : \A e \in DOMAIN plan :
        taken[j] # 0 /\ plan[taken[j]].after = e =>
            Cardinality({i \in 1..(j - 1) : taken[i] = e}) = plan[e].times

\* A test passes only if exactly the requests it expects arrived, in an order it
\* allows: "A request that matches no remaining expectation fails the test, and
\* so does an expectation still unmet when the test ends" (mock.go:25-28).
PassMeansFits == verdict = "passed" => Fits

\* And the mock does not fail a test whose requests fit, in whatever order they
\* come ("Expectations match in any order", mock.go:30), as long as no request
\* matches two expectations: else the first declared takes it even if a later
\* request can go nowhere else.
FitsMeansPass == verdict = "failed" /\ Unambiguous => ~Fits
=============================================================================
