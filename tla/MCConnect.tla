----------------------------- MODULE MCConnect ------------------------------
(***************************************************************************)
(* The instance of Connect that the Connect_*.cfg files check.             *)
(***************************************************************************)
EXTENDS Connect, TLC

Symmetry == Permutations(Pool) \cup Permutations(Calls)
=============================================================================
