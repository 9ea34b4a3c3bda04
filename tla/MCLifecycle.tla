---------------------------- MODULE MCLifecycle ----------------------------
(***************************************************************************)
(* Model-checking instances of Lifecycle: HTTP connections are             *)
(* interchangeable, Main and the Reader are not.                           *)
(***************************************************************************)
EXTENDS Lifecycle, TLC

\* Nothing goes wrong: Pi-hole drops no session by itself, accepting does not
\* fail, and no second passes while a call has its reply or a free mu to go on
\* with.  A counterexample under it needs no failure and no slow machine.
Orderly ==
    /\ \A s \in Sids : ~Evict(s)
    /\ ServeReturns => ~listening
    /\ now' # now => \A c \in Callers : ~Answered(c) /\ (pc[c] \in Locking => mu # Nobody)

OrderlyLifecycle == LifecycleInit /\ [][LifecycleNext /\ Orderly]_allVars

Symmetry == Permutations(Callers \ {Main, Reader})
=============================================================================
