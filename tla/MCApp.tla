------------------------------- MODULE MCApp --------------------------------
(***************************************************************************)
(* The instance of App that the App_*.cfg files check.                     *)
(***************************************************************************)
EXTENDS App, TLC

Symmetry == Permutations(Pool)
=============================================================================
