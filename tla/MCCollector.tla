---------------------------- MODULE MCCollector ----------------------------
(***************************************************************************)
(* Model-checking instances of Collector.  Scrapes are interchangeable.    *)
(***************************************************************************)
EXTENDS Collector, TLC

Symmetry == Permutations(Scrapes)
=============================================================================
