---------------------------- MODULE MCGitHubClient --------------------------
(* Values for the constants of GitHubClient that a .cfg cannot write down. *)
EXTENDS GitHubClient, TLC

CONSTANTS h1, h2, fa, fb, fc, fd, fe

\* Either list goes over the cap of the compare endpoint.  That of h1 goes over
\* the other cap too, and ends with fc, which is bench configuration.
OverTheCap == (h1 :> <<fa, fb, fd, fe, fc>>) @@ (h2 :> <<fa, fb, fd>>)

Alike == Permutations(Run)

=============================================================================
