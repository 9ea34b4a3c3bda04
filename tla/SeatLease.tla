----------------------------- MODULE SeatLease -----------------------------
(***************************************************************************)
(* What the AuthClient promises Pi-hole about API seats, in terms of seats *)
(* alone.  The exporter has at most one session on lease.  It takes a new  *)
(* one only when it has none, it forgets one only when the seat is free    *)
(* again, and a seat it loses track of is one of the abandoned, which only *)
(* Pi-hole frees.                                                          *)
(***************************************************************************)
CONSTANT Sids  \* session identifiers

VARIABLES
    seats,     \* sessions Pi-hole holds
    issued,    \* sessions Pi-hole ever granted
    lease,     \* the session the exporter answers for, or none
    abandoned  \* sessions the exporter has lost track of

leaseVars == <<seats, issued, lease, abandoned>>

Init ==
    /\ seats = {}
    /\ issued = {}
    /\ lease = {}
    /\ abandoned = {}

\* Pi-hole grants a session that has never been used before.
Grant(s) ==
    /\ s \in Sids \ issued
    /\ issued' = issued \cup {s}
    /\ seats' = seats \cup {s}

\* The exporter, having none, is granted a session.
Take(s) ==
    /\ lease = {}
    /\ Grant(s)
    /\ lease' = {s}
    /\ UNCHANGED abandoned

\* Pi-hole grants a session to a request the exporter has given up.
Lose(s) ==
    /\ Grant(s)
    /\ abandoned' = abandoned \cup {s}
    /\ UNCHANGED lease

\* Sessions are deleted, expire or are evicted.
Free(S) ==
    /\ S # {}
    /\ S \subseteq seats
    /\ seats' = seats \ S
    /\ UNCHANGED <<issued, lease, abandoned>>

\* The exporter forgets its session: the seat is free already.
Forget ==
    /\ lease # {}
    /\ lease \cap seats = {}
    /\ lease' = {}
    /\ UNCHANGED <<seats, issued, abandoned>>

\* The exporter lets its session go without knowing what became of the seat.
Abandon ==
    /\ lease # {}
    /\ lease' = {}
    /\ abandoned' = abandoned \cup lease
    /\ UNCHANGED <<seats, issued>>

Next ==
    \/ \E s \in Sids : Take(s) \/ Lose(s)
    \/ \E S \in SUBSET seats : Free(S)
    \/ Forget
    \/ Abandon

Spec == Init /\ [][Next]_leaseVars

\* The promise: what is not abandoned is on lease, and that is one seat.
AtMostOneLease ==
    /\ seats \subseteq lease \cup abandoned
    /\ \A s, t \in lease : s = t
=============================================================================
