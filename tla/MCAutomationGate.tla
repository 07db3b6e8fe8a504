--------------------------- MODULE MCAutomationGate ---------------------------
(***************************************************************************)
(* Runs that differ in nothing but their id.                               *)
(***************************************************************************)
EXTENDS AutomationGate, TLC

Symmetry == Permutations(Run)
=============================================================================
