---------------------------- MODULE MCCaptureLease ----------------------------
(***************************************************************************)
(* Three tasks, two of which present the same owner, as the start and the  *)
(* cleanup task of one reproduction session do (worker id                  *)
(* "reproduction-watch:<session>").                                        *)
(***************************************************************************)
EXTENDS CaptureLease

CONSTANTS a1, a2, b, A, B

MCController == {a1, a2, b}
MCOwner == {A, B}
MCOwnerOf == [c \in MCController |-> IF c = b THEN B ELSE A]
=============================================================================
