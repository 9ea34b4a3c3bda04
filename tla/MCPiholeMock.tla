---------------------------- MODULE MCPiholeMock ----------------------------
(***************************************************************************)
(* Plans for PiholeMock: up to MaxPlan expectations of a login and of      *)
(* queries that ask for one session, for the other, or for any.            *)
(***************************************************************************)
EXTENDS PiholeMock

CONSTANT MaxPlan

Expectation(key, accepts, times) == [key |-> key, accepts |-> accepts, times |-> times]
Kinds ==
    {Expectation("auth", {"none"}, 1), Expectation("stats", {"sid1"}, 1), Expectation("stats", {"sid2"}, 2),
     Expectation("stats", {"sid1", "sid2"}, 1), Expectation("stats", {"sid1", "sid2"}, 2)}

\* After points at an earlier expectation, as a test that chains them does.
Declared(kinds, afters) ==
    [e \in DOMAIN kinds |-> [key |-> kinds[e].key, accepts |-> kinds[e].accepts,
                             times |-> kinds[e].times, after |-> afters[e]]]
SomePlans ==
    UNION {{Declared(kinds, afters) : kinds \in [1..n -> Kinds],
                                      afters \in {a \in [1..n -> 0..n] : \A e \in 1..n : a[e] < e}} : n \in 1..MaxPlan}

SomeRequests ==
    {[key |-> "auth", variant |-> "none"], [key |-> "stats", variant |-> "sid1"],
     [key |-> "stats", variant |-> "sid2"], [key |-> "other", variant |-> "none"]}
=============================================================================
