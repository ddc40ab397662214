------------------------------- MODULE MCBind -------------------------------
(***************************************************************************)
(* The instance of Bind that the Bind_*.cfg files check.                   *)
(***************************************************************************)
EXTENDS Bind, TLC

Symmetry == Permutations(Handles) \cup Permutations(Sockets)
=============================================================================
