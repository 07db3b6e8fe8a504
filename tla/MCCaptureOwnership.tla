-------------------------- MODULE MCCaptureOwnership --------------------------
(***************************************************************************)
(* Two tasks with worker ids of their own, each able to serve any session. *)
(***************************************************************************)
EXTENDS CaptureOwnership, TLC

Symmetry == Permutations(Controller) \cup Permutations(Session)
=============================================================================
