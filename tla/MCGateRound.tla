---------------------------- MODULE MCGateRound -----------------------------
(* Values for the constants of GateRound that a .cfg cannot write down. *)
EXTENDS GateRound, TLC

CONSTANTS i1, i2

OwnText == [i \in Issue |-> i]

\* Two issues a model words in the same way, as reviewers of two groups do.
SameText == [i \in Issue |-> i1]

Alike == Permutations(Session) \cup Permutations(Scanner)

=============================================================================
