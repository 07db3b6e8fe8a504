--------------------------- MODULE FencedAuthority ---------------------------
(***************************************************************************)
(* What the capture lease of one DUT promises, with its clocks, its        *)
(* database row and its callers left out: authority is handed over in      *)
(* numbered epochs, each epoch has one owner, and an epoch that is held    *)
(* ends only because its owner gives it up or because its term lapses.     *)
(* CaptureLease implements this module.                                    *)
(***************************************************************************)
EXTENDS Naturals

CONSTANT Owner          \* the identities authority can be granted to

VARIABLES
    epoch,              \* number of the newest grant, 0 before the first
    owner,              \* whom that grant names
    phase               \* "free": given up or never granted; "held"; "lapsed"

vars == <<epoch, owner, phase>>

Granted == {"held", "lapsed"}

Init ==
    /\ epoch = 0
    /\ owner \in Owner
    /\ phase = "free"

\* A new epoch.  Only a free or a lapsed authority may change hands; a grant
\* whose caller was slow may already have lapsed when it is recorded.
Grant ==
    /\ phase \in {"free", "lapsed"}
    /\ epoch' = epoch + 1
    /\ owner' \in Owner
    /\ phase' \in Granted

\* The owner prolongs its term, or the term runs out: same epoch, same owner.
TermMoves ==
    /\ phase \in Granted
    /\ phase' \in Granted
    /\ UNCHANGED <<epoch, owner>>

GiveUp ==
    /\ phase \in Granted
    /\ phase' = "free"
    /\ UNCHANGED <<epoch, owner>>

Next == Grant \/ TermMoves \/ GiveUp

Spec == Init /\ [][Next]_vars
=============================================================================
