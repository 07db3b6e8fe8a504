-------------------------- MODULE MCReproductionFlow --------------------------
(***************************************************************************)
(* Two sessions of one device, either of which may come first.             *)
(***************************************************************************)
EXTENDS ReproductionFlow, TLC

Symmetry == Permutations(Session)
=============================================================================
