----------------------------- MODULE Workspace ------------------------------
(***************************************************************************)
(* argus/repo_provision.py: runs that review one repository on one host.   *)
(* They share a bare mirror at a fixed path; each run checks its head out  *)
(* into a worktree under a temporary directory of its own.                 *)
(*                                                                         *)
(* There is no lock.  Every step below is one call that awaits (a git      *)
(* command or a file operation on a thread), and other runs take theirs in *)
(* between.  A git clone is a process: it goes on when the run that        *)
(* started it is gone, and when it fails it removes its directory by path. *)
(***************************************************************************)
EXTENDS FiniteSets

CONSTANTS
  Run,        \* runs of this repository on this host
  None        \* no clone fills the mirror

ASSUME WorkspaceAssumption == None \notin Run

VARIABLES
  mirror,     \* what is at the mirror's path
  clones,     \* runs whose git clone process is alive
  tree,       \* what is in each run's temporary directory
  pc,         \* the call each run makes next
  held,       \* runs that killed a git whose descendant keeps its pipes open
  answered,   \* runs whose review has finished
  spilled,    \* runs that ended without a complete cleanup
  swept       \* a watchdog has swept the host's temporary directories

vars == <<mirror, clones, tree, pc, held, answered, spilled, swept>>
history == <<answered, spilled, swept>>

\* git makes the directory first ("broken": not yet a repository), then HEAD
\* and the configuration ("partial"), then the objects of every ref ("whole").
Mirror == [dir      : {"absent", "broken", "partial", "whole"},
           sentinel : BOOLEAN,            \* argus-clone-complete exists
           cloner   : Run \cup {None},    \* whose clone fills it
           has      : SUBSET Run,         \* runs whose head is in the store
           trees    : SUBSET Run]         \* runs whose worktree is registered

NoMirror == [dir |-> "absent", sentinel |-> FALSE, cloner |-> None,
             has |-> {}, trees |-> {}]

IsRepository == mirror.dir \in {"partial", "whole"}

\* What runs of earlier days may have left at the path.
Leftover ==
  { NoMirror,
    [NoMirror EXCEPT !.dir = "broken"],
    [NoMirror EXCEPT !.dir = "partial"],
    [NoMirror EXCEPT !.dir = "whole", !.sentinel = TRUE] }

Goto(c, place) == pc' = [pc EXCEPT ![c] = place]

\* _run_git at its timeout: kill, then a communicate() without a bound.  It
\* returns, or waits for a process that git has started and that outlives it
\* (git-remote-https) to close the pipes.  rev-parse starts none.
MayBeHeld(c) == held' \in {held, held \cup {c}}

\* A command fails, or runs out of time; its error ends the run when it comes.
Fails(c) ==
  \/ Goto(c, "failed") /\ UNCHANGED held
  \/ Goto(c, "raise") /\ held' = held \cup {c}

\* The last descendant of the killed git ends: external, and no one's duty.
Released(c) ==
  /\ c \in held
  /\ held' = held \ {c}
  /\ pc' = IF pc[c] = "raise" THEN [pc EXCEPT ![c] = "failed"] ELSE pc
  /\ UNCHANGED <<mirror, clones, tree, history>>

-----------------------------------------------------------------------------
(* _ensure_mirror *)

\* mirror.exists()
CheckMirror(c) ==
  /\ pc[c] = "check"
  /\ Goto(c, IF mirror.dir = "absent" THEN "clone" ELSE "rev_parse")
  /\ UNCHANGED <<mirror, clones, tree, held, history>>

\* rev-parse --git-dir: a repository is reused, with or without the sentinel.
ReuseMirror(c) ==
  /\ pc[c] = "rev_parse"
  /\ IsRepository
  /\ Goto(c, "fetch")
  /\ UNCHANGED <<mirror, clones, tree, held, history>>

\* No repository, or rev-parse timed out.
RejectMirror(c) ==
  /\ pc[c] = "rev_parse"
  /\ Goto(c, "rmtree")
  /\ UNCHANGED <<mirror, clones, tree, held, history>>

\* rmtree(ignore_errors=True): something may stay, for one when a clone writes
\* files meanwhile; a clone whose directory is taken away cannot complete.
RemoveMirror(c) ==
  /\ pc[c] = "rmtree"
  /\ \/ mirror' = NoMirror
     \/ /\ mirror.dir # "absent"
        /\ mirror' = [NoMirror EXCEPT !.dir = "broken"]
  /\ Goto(c, "clone")
  /\ UNCHANGED <<clones, tree, held, history>>

\* git refuses a path that exists and is not empty.
StartClone(c) ==
  /\ pc[c] = "clone"
  /\ IF mirror.dir = "absent"
     THEN /\ mirror' = [NoMirror EXCEPT !.dir = "broken", !.cloner = c]
          /\ clones' = clones \cup {c}
          /\ Goto(c, "cloning")
     ELSE /\ Goto(c, "validate")
          /\ UNCHANGED <<mirror, clones>>
  /\ UNCHANGED <<tree, held, history>>

\* The clone process of c, whatever has become of c.
CloneProgress(c) ==
  /\ mirror.cloner = c /\ mirror.dir = "broken"
  /\ mirror' = [mirror EXCEPT !.dir = "partial"]
  /\ UNCHANGED <<clones, tree, pc, held, history>>

\* A run that waits for its clone goes on, one that is gone does not.
AfterClone(c, place) ==
  pc' = IF pc[c] = "cloning" THEN [pc EXCEPT ![c] = place] ELSE pc

CloneCompletes(c) ==
  /\ c \in clones
  /\ mirror.cloner = c /\ mirror.dir = "partial"
  /\ \E known \in {{}, Run} :
       mirror' = [mirror EXCEPT !.dir = "whole", !.cloner = None,
                                !.has = @ \cup known]
  /\ clones' = clones \ {c}
  /\ AfterClone(c, "touch")
  /\ UNCHANGED <<tree, held, history>>

\* git removes what is at the path it was given.
CloneFails(c) ==
  /\ c \in clones
  /\ mirror' = NoMirror
  /\ clones' = clones \ {c}
  /\ AfterClone(c, "validate")
  /\ UNCHANGED <<tree, held, history>>

\* Mutant: the wait for git has no timeout.
CloneKilledWithItsRun(c) ==
  /\ c \in clones /\ pc[c] # "cloning"
  /\ mirror' = [mirror EXCEPT !.cloner = IF @ = c THEN None ELSE @]
  /\ clones' = clones \ {c}
  /\ UNCHANGED <<tree, pc, held, history>>

\* The timeout of _run_git, or the end of its process group, kills git: it
\* removes nothing.
CloneKilled(c) ==
  /\ c \in clones
  /\ mirror' = [mirror EXCEPT !.cloner = IF @ = c THEN None ELSE @]
  /\ clones' = clones \ {c}
  /\ AfterClone(c, "validate")
  /\ IF pc[c] = "cloning" THEN MayBeHeld(c) ELSE UNCHANGED held
  /\ UNCHANGED <<tree, history>>

\* _validate_mirror, its two reads as one
ValidMirror == mirror.sentinel /\ IsRepository

\* The clone failed: a peer's mirror is taken if it validates.
ValidatePeer(c) ==
  /\ pc[c] = "validate"
  /\ \/ ValidMirror /\ Goto(c, "fetch")
     \/ Goto(c, "failed")
  /\ UNCHANGED <<mirror, clones, tree, held, history>>

\* touch() in a directory that is gone raises.
TouchSentinel(c) ==
  /\ pc[c] = "touch"
  /\ IF mirror.dir = "absent"
     THEN Goto(c, "failed") /\ UNCHANGED mirror
     ELSE Goto(c, "fetch") /\ mirror' = [mirror EXCEPT !.sentinel = TRUE]
  /\ UNCHANGED <<clones, tree, held, history>>

-----------------------------------------------------------------------------
(* provision_worktree after the mirror, teardown_worktree *)

\* git fetch, whose exit code is ignored, and cat-file -e, whose is not.
FetchSha(c) ==
  /\ pc[c] = "fetch"
  /\ IsRepository
  /\ mirror' = [mirror EXCEPT !.has = @ \cup {c}]
  /\ Goto(c, "mkdtemp")
  /\ UNCHANGED <<clones, tree, held, history>>

\* No such commit, no network, a timeout, no repository at the path any more; a
\* head the store has already needs no fetch.
FetchFails(c) ==
  /\ pc[c] = "fetch"
  /\ \/ IsRepository /\ c \in mirror.has /\ Goto(c, "mkdtemp") /\ UNCHANGED held
     \/ Fails(c)
  /\ UNCHANGED <<mirror, clones, tree, history>>

MakeParent(c) ==
  /\ pc[c] = "mkdtemp"
  /\ tree' = [tree EXCEPT ![c] = "parent"]
  /\ Goto(c, "add")
  /\ UNCHANGED <<mirror, clones, held, history>>

AddWorktree(c) ==
  /\ pc[c] = "add"
  /\ IsRepository /\ c \in mirror.has
  /\ mirror' = [mirror EXCEPT !.trees = @ \cup {c}]
  /\ tree' = [tree EXCEPT ![c] = "checked_out"]
  /\ Goto(c, "assert")
  /\ UNCHANGED <<clones, held, history>>

\* The command failed or timed out; half a tree may be there.
AddFails(c) ==
  /\ pc[c] = "add"
  /\ tree' \in {tree, [tree EXCEPT ![c] = "torn"]}
  /\ mirror' \in {mirror} \cup
       { [mirror EXCEPT !.trees = @ \cup {x}] : x \in IF IsRepository THEN {c} ELSE {} }
  /\ Goto(c, "clean_up") /\ MayBeHeld(c)
  /\ UNCHANGED <<clones, history>>

\* rev-parse HEAD in the tree asks the mirror the tree is registered in.
AssertSha(c) ==
  /\ pc[c] = "assert"
  /\ IsRepository /\ c \in mirror.trees
  /\ Goto(c, "review")
  /\ UNCHANGED <<mirror, clones, tree, held, history>>

\* Mutant: a tree whose verification failed is left where it is.
AssertFailsDirty(c) ==
  /\ pc[c] = "assert"
  /\ Goto(c, "failed")
  /\ UNCHANGED <<mirror, clones, tree, held, history>>

AssertFails(c) ==
  /\ pc[c] = "assert"
  /\ Goto(c, "clean_up")
  /\ UNCHANGED <<mirror, clones, tree, held, history>>

\* The body of the context manager ends, with an answer or an exception.
ReviewEnds(c) ==
  /\ pc[c] = "review"
  /\ answered' \in {answered, answered \cup {c}}
  /\ Goto(c, "teardown")
  /\ UNCHANGED <<mirror, clones, tree, held, spilled, swept>>

\* Mutant: every argus worktree of the host is taken for a stale one.
TreesWithoutAny(c) == [d \in Run |-> "none"]

\* rmtree of the run's own parent directory.
TreesWithout(c) == [tree EXCEPT ![c] = "none"]

\* worktree remove --force and worktree prune, both best effort: entries whose
\* tree is gone are dropped, those of peers that are there are not.
CleanedMirror(c) ==
  [mirror EXCEPT !.trees = { d \in @ \ {c} : tree[d] \in {"checked_out", "torn"} }]

CleanUp(c) ==
  /\ pc[c] \in {"clean_up", "teardown"}
  /\ mirror' \in {mirror, CleanedMirror(c)}
  /\ tree' = TreesWithout(c)
  /\ Goto(c, IF pc[c] = "teardown" /\ c \in answered THEN "done" ELSE "failed")
  /\ UNCHANGED <<clones, held, history>>

\* check=False does not cover a timeout: _run_git raises, rmtree is not reached
\* and teardown_worktree raises in its turn.
CleanUpTimesOut(c) ==
  /\ pc[c] \in {"clean_up", "teardown"}
  /\ mirror' \in {mirror, CleanedMirror(c)}
  /\ spilled' = spilled \cup {c}
  /\ Fails(c)
  /\ UNCHANGED <<clones, tree, answered, swept>>

-----------------------------------------------------------------------------
(* Cancellation, death, the watchdog *)

Ended == {"done", "failed", "cancelled", "dead"}

\* CancelledError is no Exception: the handler of provision_worktree does not
\* run, and the context manager has no path to tear down before the yield.  A
\* review that is cancelled is torn down; a cleanup that is cancelled stops.
Cancel(c) ==
  /\ pc[c] \notin Ended
  /\ IF pc[c] = "review"
     THEN Goto(c, "teardown") /\ UNCHANGED spilled
     ELSE /\ Goto(c, "cancelled")
          /\ spilled' = IF tree[c] = "none" THEN spilled ELSE spilled \cup {c}
  /\ held' = held \ {c}
  /\ UNCHANGED <<mirror, clones, tree, answered, swept>>

\* The process is killed.
Die(c) ==
  /\ pc[c] \notin Ended
  /\ Goto(c, "dead") /\ held' = held \ {c}
  /\ UNCHANGED <<mirror, clones, tree, history>>

\* The watchdog of a CLI run that stalls: _sweep_stale_argus_tempdirs removes
\* every argus worktree of the host, then the process exits.
WatchdogFires(c) ==
  /\ pc[c] \notin Ended
  /\ tree' = [d \in Run |-> "none"]
  /\ swept' = TRUE
  /\ Goto(c, "dead") /\ held' = held \ {c}
  /\ UNCHANGED <<mirror, clones, answered, spilled>>

Init ==
  /\ mirror \in Leftover
  /\ clones = {} /\ held = {}
  /\ tree = [c \in Run |-> "none"]
  /\ pc = [c \in Run |-> "check"]
  /\ answered = {} /\ spilled = {} /\ swept = FALSE

\* What a run does by itself: each command ends or times out.
Proceed(c) ==
  /\ c \notin held
  /\ \/ CheckMirror(c) \/ ReuseMirror(c) \/ RejectMirror(c) \/ RemoveMirror(c)
     \/ StartClone(c) \/ ValidatePeer(c) \/ TouchSentinel(c)
     \/ FetchSha(c) \/ FetchFails(c) \/ MakeParent(c)
     \/ AddWorktree(c) \/ AddFails(c) \/ AssertSha(c) \/ AssertFails(c)
     \/ ReviewEnds(c) \/ CleanUp(c) \/ CleanUpTimesOut(c)

CloneEnds(c) == CloneCompletes(c) \/ CloneFails(c) \/ CloneKilled(c)

Next ==
  \E c \in Run :
    \/ Proceed(c) \/ CloneProgress(c) \/ CloneEnds(c)
    \/ Released(c) \/ Cancel(c) \/ Die(c) \/ WatchdogFires(c)

Spec == Init /\ [][Next]_vars

\* A run takes its next step, the timeout of _run_git kills a git that does not
\* end (no clone has to make progress, complete or fail), and the review ends
\* (AttemptEnds of ReviewPipeline).  Nothing makes a pipe close.
FairSpec == Spec /\ \A c \in Run : WF_vars(Proceed(c)) /\ WF_vars(CloneKilled(c))

-----------------------------------------------------------------------------
(* Properties *)

\* The mirror, the trees and the runs keep their shape; where no directory is
\* there is nothing in it.
TypeOK ==
  /\ mirror \in Mirror
  /\ mirror.dir = "absent" => mirror = NoMirror
  /\ clones \subseteq Run /\ held \subseteq Run
  /\ tree \in [Run -> {"none", "parent", "torn", "checked_out"}]
  /\ pc \in [Run -> Ended \cup
               {"check", "rev_parse", "rmtree", "clone", "cloning", "validate",
                "touch", "fetch", "mkdtemp", "add", "assert", "review",
                "clean_up", "teardown", "raise"}]
  /\ answered \subseteq Run /\ spilled \subseteq Run /\ swept \in BOOLEAN

\* _sweep_stale_argus_tempdirs removes "artifacts the forced exit would orphan":
\* a tree that a run reads for its review stays, whatever other runs clone,
\* remove, clean up or sweep.
TreeStays == \A c \in Run : pc[c] = "review" => tree[c] = "checked_out"

\* The same of the runs of _ensure_mirror, provision_worktree and
\* teardown_worktree alone, no watchdog having swept the host.
PeersLeaveTrees == ~ swept => TreeStays

\* A run that ends (provision_worktree, teardown_worktree) leaves no tree
\* behind, except one cancelled or hanging in git while it had one.
NothingLeft ==
  \A c \in Run :
    pc[c] \in Ended \ {"dead"} /\ c \notin spilled => tree[c] = "none"

\* _CLONE_COMPLETE_SENTINEL, "written inside a mirror only after its clone fully
\* completes": a mirror that has it is whole.
SentinelMeansWhole == mirror.sentinel => mirror.dir = "whole"

\* Every run ends: no wait for a peer or a directory is for ever, nor one for
\* git, but for the pipes of a git that was killed.
RunsEnd == \A c \in Run : <>(pc[c] \in Ended) \/ <>[](c \in held)

\* _run_git: "timeout bounds communicate() so a hung network operation cannot
\* block the event loop for the full flow-level timeout; the subprocess is killed
\* and a RuntimeError raised on expiry."
TimeoutBoundsTheWait == \A c \in Run : <>(pc[c] \in Ended)

\* teardown_worktree "logs but does not raise on cleanup failures": a review
\* that has an answer is not lost while it is cleaned up.
CleanupIsQuiet ==
  [][\A c \in Run : pc[c] = "teardown" /\ c \in answered => pc'[c] \notin {"failed", "raise"}]_vars

=============================================================================
