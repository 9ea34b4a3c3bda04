------------------------------- MODULE Pihole -------------------------------
(***************************************************************************)
(* The part of Pi-hole the exporter depends on: the table of API sessions  *)
(* ("seats") and the clock that ages them.  Pi-hole is not part of this    *)
(* repository; it is modelled from how pkg/pihole uses it and from what    *)
(* its comments say: a login takes a seat for a fixed time to live, seats  *)
(* are capped, DELETE /api/auth frees one, and Pi-hole may drop a session  *)
(* early (restart, eviction).                                              *)
(*                                                                         *)
(* Session identifiers are random strings; here they are numbered in the   *)
(* order Pi-hole grants them, so a granted identifier is always fresh.     *)
(***************************************************************************)
EXTENDS Integers, FiniteSets

CONSTANTS
    Validity,  \* seconds a granted session lives (1800 in the fixtures)
    MaxSeats,  \* Pi-hole's cap on concurrent API sessions
    MaxSid,    \* bound: sessions granted in one behaviour
    MaxNow     \* bound: last instant of the clock

ASSUME PiholeAssumption ==
    /\ Validity \in Nat \ {0}
    /\ MaxSeats \in Nat
    /\ MaxSid \in Nat
    /\ MaxNow \in Nat

VARIABLES
    now,      \* the clock; exporter and Pi-hole clocks run at the same rate
    ttl,      \* ttl[s]: the instant session s expires, 0 if never granted or dropped
    lastSid   \* the session granted last

piholeVars == <<now, ttl, lastSid>>

Sids == 1..MaxSid

\* The sessions Pi-hole holds: the seats in use.
Seats == {s \in Sids : now < ttl[s]}

PiholeInit ==
    /\ now = 0
    /\ ttl = [s \in Sids |-> 0]
    /\ lastSid = 0

\* A login is accepted and takes a seat.
Grant ==
    /\ lastSid < MaxSid
    /\ Cardinality(Seats) < MaxSeats
    /\ lastSid' = lastSid + 1
    /\ ttl' = [ttl EXCEPT ![lastSid + 1] = now + Validity]
    /\ UNCHANGED now

\* Session s is deleted or evicted; nothing happens to one already gone.
Drop(s) ==
    /\ ttl' = [ttl EXCEPT ![s] = 0]
    /\ UNCHANGED <<now, lastSid>>

\* A second passes; sessions whose time is up leave Seats.
Elapse ==
    /\ now < MaxNow
    /\ now' = now + 1
    /\ UNCHANGED <<ttl, lastSid>>

PiholeTypeOK ==
    /\ now \in Nat
    /\ ttl \in [Sids -> Nat]
    /\ lastSid \in 0..MaxSid
=============================================================================
