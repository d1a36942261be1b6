-------------------------- MODULE MCReviewPipeline -------------------------
(* Values for the constants of ReviewPipeline that a .cfg cannot write down. *)
EXTENDS ReviewPipeline, TLC

CONSTANTS h1, h2, i1

Unpinned == {None}
UnpinnedOrFirst == {None, h1}

OwnText == [i \in Issue |-> i]

\* The two always-on reviewers are alike, and so are the planned ones and the
\* gap-fill reviewers.
Alike == Permutations(AlwaysOn) \cup Permutations(Planned)
           \cup Permutations(GapFill)

\* Heads are alike as well when no flow is pinned to one of them.
AlikeHeads == Alike \cup Permutations(Head)

LowOnly == {0}
LowAndCritical == {0, 3}

=============================================================================
