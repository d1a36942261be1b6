--------------------------- MODULE MCRoundHistory ---------------------------
(* Values for the constants of RoundHistory that a .cfg cannot write down. *)
EXTENDS RoundHistory, TLC

CONSTANTS h1, h2, rebased

\* h2 was pushed on top of h1; rebased is h1 rewritten onto a newer base.
Rewritten == (h1 :> {"a"}) @@ (h2 :> {"a", "b"}) @@ (rebased :> {"a'"})

\* No rewrite: each head is a descendant of the one before it.
Linear == (h1 :> {"a"}) @@ (h2 :> {"a", "b"}) @@ (rebased :> {"a", "b", "c"})

\* Overlapping rounds on a branch that is pushed to, rebased and rewound, or
\* rounds one after another over HTTP on one that only grows.
MCSettings ==
  { [commits |-> Rewritten, pushes |-> [h \in Head |-> Head \ {h}],
     maxPushes |-> 1, overlap |-> TRUE, upsertFails |-> TRUE, http |-> FALSE],
    [commits |-> Linear,
     pushes |-> [h \in Head |-> { g \in Head : Linear[h] \subseteq Linear[g] /\ g # h }],
     maxPushes |-> 2, overlap |-> FALSE, upsertFails |-> FALSE, http |-> TRUE] }

Alike == Permutations(Flow) \cup Permutations(Local)

=============================================================================
