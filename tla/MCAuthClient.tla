---------------------------- MODULE MCAuthClient ----------------------------
(***************************************************************************)
(* Model-checking instances of AuthClient.  Callers are interchangeable,   *)
(* so the safety runs use symmetry; the liveness run does not.             *)
(***************************************************************************)
EXTENDS AuthClient, TLC

Symmetry == Permutations(Callers)
=============================================================================
