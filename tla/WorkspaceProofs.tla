-------------------------- MODULE WorkspaceProofs ---------------------------
(***************************************************************************)
(* Theorems about the worktrees of any number of runs on one host: no run  *)
(* takes another's tree away, and each clears its own, whatever becomes of *)
(* the mirror they share and in whatever order their steps come.           *)
(***************************************************************************)
EXTENDS Workspace, TLAPS

\* Before the call that makes its temporary directory.
Bare == {"check", "rev_parse", "rmtree", "clone", "cloning", "validate", "touch",
         "fetch", "mkdtemp"}

\* A run has no directory before it makes one, a whole tree once git has checked
\* it out, and none again when it has ended in order.
Place(c) ==
  /\ pc[c] \in Bare => tree[c] = "none"
  /\ ~ swept /\ pc[c] \in {"assert", "review"} => tree[c] = "checked_out"
  /\ pc[c] \in (Ended \ {"dead"}) \cup {"raise"} /\ c \notin spilled => tree[c] = "none"

Inv == TypeOK /\ \A c \in Run : Place(c)

-----------------------------------------------------------------------------
(* The mirror *)

MirrorOK == mirror \in Mirror /\ (mirror.dir = "absent" => mirror = NoMirror)

LEMMA InitMirror == Init => MirrorOK
  <1>1. NoMirror \in Mirror /\ NoMirror.dir = "absent"
    BY DEF NoMirror, Mirror
  <1>2. ASSUME NEW m \in Leftover
        PROVE  m \in Mirror /\ (m.dir = "absent" => m = NoMirror)
    <2>1. ASSUME NEW x \in {"broken", "partial"}
          PROVE  [NoMirror EXCEPT !.dir = x] \in Mirror
                 /\ [NoMirror EXCEPT !.dir = x].dir # "absent"
      BY DEF NoMirror, Mirror
    <2>2. [NoMirror EXCEPT !.dir = "whole", !.sentinel = TRUE] \in Mirror
          /\ [NoMirror EXCEPT !.dir = "whole", !.sentinel = TRUE].dir # "absent"
      BY DEF NoMirror, Mirror
    <2> QED
      BY <1>1, <1>2, <2>1, <2>2 DEF Leftover
  <1> QED
    BY <1>2 DEF Init, MirrorOK

\* What the steps of _ensure_mirror make of the mirror.
LEMMA MirrorMade ==
  ASSUME MirrorOK, NEW c \in Run,
         \/ RemoveMirror(c) \/ StartClone(c) \/ CloneProgress(c)
         \/ CloneCompletes(c) \/ CloneFails(c) \/ TouchSentinel(c)
  PROVE  MirrorOK'
  <1>1. NoMirror \in Mirror
    BY DEF NoMirror, Mirror
  <1>2. CASE mirror' = mirror \/ mirror' = NoMirror
    BY <1>1, <1>2 DEF MirrorOK
  <1>3. ASSUME NEW x \in {"broken", "partial", "whole"}, NEW m \in Mirror
        PROVE  [m EXCEPT !.dir = x] \in Mirror /\ [m EXCEPT !.dir = x].dir # "absent"
    BY DEF Mirror
  <1>4. CASE RemoveMirror(c)
    BY <1>1, <1>2, <1>3, <1>4 DEF RemoveMirror, MirrorOK
  <1>5. CASE StartClone(c)
    <2>1. [NoMirror EXCEPT !.dir = "broken", !.cloner = c] \in Mirror
      BY DEF NoMirror, Mirror
    <2>2. [NoMirror EXCEPT !.dir = "broken", !.cloner = c].dir # "absent"
      BY DEF NoMirror
    <2> QED
      BY <1>2, <1>5, <2>1, <2>2 DEF StartClone, MirrorOK
  <1>6. CASE CloneProgress(c)
    BY <1>3, <1>6 DEF CloneProgress, MirrorOK
  <1>7. CASE CloneCompletes(c)
    <2>1. \E known \in SUBSET Run :
            mirror' = [mirror EXCEPT !.dir = "whole", !.cloner = None, !.has = @ \cup known]
      BY <1>7 DEF CloneCompletes
    <2> QED
      BY <2>1 DEF MirrorOK, Mirror
  <1>8. CASE CloneFails(c)
    BY <1>2, <1>8 DEF CloneFails
  <1>9. CASE TouchSentinel(c)
    <2>1. [mirror EXCEPT !.sentinel = TRUE] \in Mirror
          /\ [mirror EXCEPT !.sentinel = TRUE].dir = mirror.dir
      BY DEF MirrorOK, Mirror
    <2> QED
      BY <1>2, <1>9, <2>1 DEF TouchSentinel, MirrorOK
  <1> QED
    BY <1>4, <1>5, <1>6, <1>7, <1>8, <1>9

\* What the steps of provision_worktree and teardown_worktree, or the end of a
\* clone, make of it: where no directory is they change nothing.
LEMMA MirrorUsed ==
  ASSUME MirrorOK, NEW c \in Run,
         \/ CloneKilled(c) \/ FetchSha(c) \/ AddWorktree(c) \/ AddFails(c)
         \/ CleanUp(c) \/ CleanUpTimesOut(c)
  PROVE  MirrorOK'
  <1>1. CASE mirror' = mirror
    BY <1>1 DEF MirrorOK
  <1>2. CASE mirror.dir # "absent" /\ mirror'.dir = mirror.dir /\ mirror' \in Mirror
    BY <1>2 DEF MirrorOK
  <1>3. CASE CloneKilled(c)
    <2>1. CASE mirror.dir = "absent"
      <3>1. mirror = NoMirror /\ mirror.cloner # c
        BY <2>1, WorkspaceAssumption DEF MirrorOK, NoMirror
      <3>2. mirror' = mirror
        BY <1>3, <3>1 DEF CloneKilled, NoMirror
      <3> QED
        BY <1>1, <3>2
    <2>2. CASE mirror.dir # "absent"
      BY <1>2, <1>3, <2>2 DEF CloneKilled, MirrorOK, Mirror
    <2> QED
      BY <2>1, <2>2
  <1>4. CASE FetchSha(c) \/ AddWorktree(c)
    BY <1>2, <1>4 DEF FetchSha, AddWorktree, MirrorOK, Mirror, IsRepository
  <1>5. CASE AddFails(c)
    BY <1>1, <1>2, <1>5 DEF AddFails, MirrorOK, Mirror, IsRepository
  <1>6. CASE CleanUp(c) \/ CleanUpTimesOut(c)
    <2>1. mirror' \in {mirror, CleanedMirror(c)}
      BY <1>6 DEF CleanUp, CleanUpTimesOut
    <2>2. CASE mirror' = CleanedMirror(c)
      <3> DEFINE kept == { d \in mirror.trees \ {c} : tree[d] \in {"checked_out", "torn"} }
      <3>1. mirror' = [mirror EXCEPT !.trees = kept] /\ kept \subseteq mirror.trees
        BY <2>2 DEF CleanedMirror
      <3> HIDE DEF kept
      <3>2. mirror' \in Mirror /\ mirror'.dir = mirror.dir
        BY <3>1 DEF MirrorOK, Mirror
      <3>3. mirror = NoMirror => mirror' = NoMirror
        <4> SUFFICES ASSUME mirror = NoMirror
                     PROVE  mirror' = NoMirror
          OBVIOUS
        <4>1. kept = {}
          BY <3>1 DEF NoMirror
        <4> QED
          BY <3>1, <4>1 DEF NoMirror
      <3> QED
        BY <3>2, <3>3 DEF MirrorOK
    <2> QED
      BY <1>1, <2>1, <2>2
  <1> QED
    BY <1>3, <1>4, <1>5, <1>6

LEMMA TypeStep == ASSUME TypeOK, [Next]_vars
                  PROVE  TypeOK'
  <1>1. MirrorOK
    BY DEF TypeOK, MirrorOK
  <1>2. MirrorOK'
    <2>1. CASE UNCHANGED mirror
      BY <1>1, <2>1 DEF MirrorOK
    <2> QED
      BY <1>1, <2>1, MirrorMade, MirrorUsed
      DEF Next, Proceed, CloneEnds, vars, CheckMirror, ReuseMirror, RejectMirror,
          ValidatePeer, FetchFails, MakeParent, AssertSha, AssertFails, ReviewEnds,
          Released, Cancel, Die, WatchdogFires
  <1>3. clones' \subseteq Run
    BY DEF TypeOK, Next, Proceed, CloneEnds, vars, history, CheckMirror, ReuseMirror,
       RejectMirror, RemoveMirror, StartClone, CloneProgress, CloneCompletes,
       CloneFails, CloneKilled, ValidatePeer, TouchSentinel, FetchSha, FetchFails,
       MakeParent, AddWorktree, AddFails, AssertSha, AssertFails, ReviewEnds,
       CleanUp, CleanUpTimesOut, Released, Cancel, Die, WatchdogFires
  <1>4. tree' \in [Run -> {"none", "parent", "torn", "checked_out"}]
    BY DEF TypeOK, Next, Proceed, CloneEnds, vars, history, CheckMirror, ReuseMirror,
       RejectMirror, RemoveMirror, StartClone, CloneProgress, CloneCompletes,
       CloneFails, CloneKilled, ValidatePeer, TouchSentinel, FetchSha, FetchFails,
       MakeParent, AddWorktree, AddFails, AssertSha, AssertFails, ReviewEnds,
       CleanUp, CleanUpTimesOut, TreesWithout, Released, Cancel, Die, WatchdogFires
  <1>5. pc' = pc \/ \E c \in Run, place \in Ended \cup Bare \cup
                      {"add", "assert", "review", "clean_up", "teardown", "raise"} :
                      pc' = [pc EXCEPT ![c] = place]
    BY DEF Next, Proceed, CloneEnds, vars, history, CheckMirror, ReuseMirror,
       RejectMirror, RemoveMirror, StartClone, CloneProgress, CloneCompletes,
       CloneFails, CloneKilled, ValidatePeer, TouchSentinel, FetchSha, FetchFails,
       MakeParent, AddWorktree, AddFails, AssertSha, AssertFails, ReviewEnds,
       CleanUp, CleanUpTimesOut, Released, Cancel, Die, WatchdogFires, Goto, Fails,
       AfterClone, Ended, Bare
  <1>6. answered' \subseteq Run /\ spilled' \subseteq Run /\ swept' \in BOOLEAN
    BY DEF TypeOK, Next, Proceed, CloneEnds, vars, history, CheckMirror, ReuseMirror,
       RejectMirror, RemoveMirror, StartClone, CloneProgress, CloneCompletes,
       CloneFails, CloneKilled, ValidatePeer, TouchSentinel, FetchSha, FetchFails,
       MakeParent, AddWorktree, AddFails, AssertSha, AssertFails, ReviewEnds,
       CleanUp, CleanUpTimesOut, Released, Cancel, Die, WatchdogFires
  <1>7. held' \subseteq Run
    BY DEF TypeOK, Next, Proceed, CloneEnds, vars, history, CheckMirror, ReuseMirror,
       RejectMirror, RemoveMirror, StartClone, CloneProgress, CloneCompletes,
       CloneFails, CloneKilled, ValidatePeer, TouchSentinel, FetchSha, FetchFails,
       MakeParent, AddWorktree, AddFails, AssertSha, AssertFails, ReviewEnds,
       CleanUp, CleanUpTimesOut, Released, Cancel, Die, WatchdogFires, MayBeHeld, Fails
  <1> QED
    BY <1>2, <1>3, <1>4, <1>5, <1>6, <1>7 DEF TypeOK, MirrorOK, Bare

-----------------------------------------------------------------------------
(* The trees *)

\* A step of one run, or of its clone.
StepOf(c) == \/ Proceed(c) \/ CloneProgress(c) \/ CloneEnds(c)
             \/ Released(c) \/ Cancel(c) \/ Die(c) \/ WatchdogFires(c)

\* Only the watchdog, which sweeps them all, touches the directory of another run.
LEMMA OthersStay ==
  ASSUME TypeOK, NEW c \in Run, StepOf(c), NEW d \in Run, d # c
  PROVE  /\ pc'[d] = pc[d] /\ (d \in spilled' <=> d \in spilled)
         /\ \/ tree'[d] = tree[d] /\ swept' = swept
            \/ tree'[d] = "none" /\ swept'
  <1>1. CASE WatchdogFires(c)
    BY <1>1 DEF WatchdogFires, TypeOK, Goto
  <1>2. CASE Proceed(c)
    BY <1>2 DEF TypeOK, Proceed, vars, history, CheckMirror, ReuseMirror,
       RejectMirror, RemoveMirror, StartClone, ValidatePeer, TouchSentinel,
       FetchSha, FetchFails, MakeParent, AddWorktree, AddFails, AssertSha,
       AssertFails, ReviewEnds, CleanUp, CleanUpTimesOut, TreesWithout, Goto, Fails
  <1>3. CASE CloneProgress(c) \/ CloneEnds(c) \/ Released(c) \/ Cancel(c) \/ Die(c)
    BY <1>3 DEF TypeOK, CloneEnds, history, CloneProgress, CloneCompletes,
       CloneFails, CloneKilled, Released, Cancel, Die, Goto, AfterClone
  <1> QED
    BY <1>1, <1>2, <1>3 DEF StepOf

LEMMA PlaceStep == ASSUME Inv, NEW c \in Run, StepOf(c)
                   PROVE  Place(c)'
  <1>1. TypeOK /\ Place(c)
    BY DEF Inv
  <1>2. CASE \/ CheckMirror(c) \/ ReuseMirror(c) \/ RejectMirror(c) \/ RemoveMirror(c)
             \/ StartClone(c) \/ ValidatePeer(c) \/ TouchSentinel(c)
             \/ FetchSha(c) \/ FetchFails(c)
    <2>1. /\ pc[c] \in Bare /\ tree' = tree
          /\ pc'[c] \in Bare \cup {"failed", "raise"}
      BY <1>1, <1>2
      DEF TypeOK, CheckMirror, ReuseMirror, RejectMirror, RemoveMirror, StartClone,
          ValidatePeer, TouchSentinel, FetchSha, FetchFails, Goto, Fails, Bare
    <2> QED
      BY <1>1, <2>1 DEF Place, Bare
  <1>3. CASE MakeParent(c) \/ AddFails(c)
    <2>1. pc'[c] \in {"add", "clean_up"}
      BY <1>1, <1>3 DEF TypeOK, MakeParent, AddFails, Goto
    <2> QED
      BY <2>1 DEF Place, Bare, Ended
  <1>4. CASE AddWorktree(c)
    <2>1. pc'[c] = "assert" /\ tree'[c] = "checked_out"
      BY <1>1, <1>4 DEF TypeOK, AddWorktree, Goto
    <2> QED
      BY <2>1 DEF Place, Bare, Ended
  <1>5. CASE AssertSha(c) \/ AssertFails(c) \/ ReviewEnds(c)
    <2>1. /\ pc[c] \in {"assert", "review"} /\ UNCHANGED <<tree, swept>>
          /\ pc'[c] \in {"review", "clean_up", "teardown"}
      BY <1>1, <1>5 DEF TypeOK, AssertSha, AssertFails, ReviewEnds, Goto, history
    <2> QED
      BY <1>1, <2>1 DEF Place, Bare, Ended
  <1>6. CASE CleanUp(c)
    <2>1. pc'[c] \in {"done", "failed"} /\ tree'[c] = "none"
      BY <1>1, <1>6 DEF TypeOK, CleanUp, TreesWithout, Goto
    <2> QED
      BY <2>1 DEF Place
  <1>7. CASE CleanUpTimesOut(c)
    <2>1. pc'[c] \in {"failed", "raise"} /\ c \in spilled'
      BY <1>1, <1>7 DEF TypeOK, CleanUpTimesOut, Goto, Fails
    <2> QED
      BY <2>1 DEF Place, Bare
  <1>8. CASE CloneProgress(c) \/ CloneEnds(c)
    <2>1. /\ UNCHANGED <<tree, spilled, swept>>
          /\ \/ pc'[c] = pc[c]
             \/ pc[c] \in Bare /\ pc'[c] \in Bare
      BY <1>1, <1>8 DEF TypeOK, CloneEnds, CloneProgress, CloneCompletes,
         CloneFails, CloneKilled, AfterClone, history, Bare
    <2> QED
      BY <1>1, <2>1 DEF Place, Bare, Ended
  <1>9. CASE Cancel(c)
    <2>1. /\ tree' = tree
          /\ \/ pc'[c] = "teardown"
             \/ pc'[c] = "cancelled" /\ (c \notin spilled' => tree[c] = "none")
      BY <1>1, <1>9 DEF TypeOK, Cancel, Goto
    <2> QED
      BY <2>1 DEF Place, Bare, Ended
  <1>10. CASE Die(c) \/ WatchdogFires(c)
    <2>1. pc'[c] = "dead"
      BY <1>1, <1>10 DEF TypeOK, Die, WatchdogFires, Goto
    <2> QED
      BY <2>1 DEF Place, Bare, Ended
  <1>11. CASE Released(c)
    <2>1. /\ UNCHANGED <<tree, spilled, swept>>
          /\ \/ pc'[c] = pc[c]
             \/ pc[c] = "raise" /\ pc'[c] = "failed"
      BY <1>1, <1>11 DEF TypeOK, Released, history
    <2> QED
      BY <1>1, <2>1 DEF Place, Bare, Ended
  <1> QED
    BY <1>2, <1>3, <1>4, <1>5, <1>6, <1>7, <1>8, <1>9, <1>10, <1>11 DEF StepOf, Proceed

LEMMA InvHolds == Spec => []Inv
  <1>1. Init => Inv
    <2> SUFFICES ASSUME Init
                 PROVE  Inv
      OBVIOUS
    <2>1. TypeOK
      BY InitMirror DEF Init, TypeOK, MirrorOK
    <2>2. \A c \in Run : Place(c)
      BY DEF Init, Place, Ended
    <2> QED
      BY <2>1, <2>2 DEF Inv
  <1>2. Inv /\ [Next]_vars => Inv'
    <2> SUFFICES ASSUME Inv, [Next]_vars
                 PROVE  Inv'
      OBVIOUS
    <2>1. TypeOK'
      BY TypeStep DEF Inv
    <2>2. ASSUME NEW c \in Run, StepOf(c), NEW d \in Run
          PROVE  Place(d)'
      <3>1. CASE d = c
        BY <2>2, <3>1, PlaceStep
      <3>2. CASE d # c
        BY <2>2, <3>2, OthersStay DEF Inv, Place
      <3> QED
        BY <3>1, <3>2
    <2>3. CASE UNCHANGED vars
      BY <2>1, <2>3 DEF Inv, Place, vars
    <2> QED
      BY <2>1, <2>2, <2>3 DEF Inv, Next, StepOf
  <1> QED
    BY <1>1, <1>2, PTL DEF Spec

-----------------------------------------------------------------------------
(* Theorems *)

\* The mirror, the trees and the runs keep their shape, and a mirror whose
\* directory is gone has nothing in it.
THEOREM TypeCorrect == Spec => []TypeOK
  BY InvHolds, PTL DEF Inv

\* A tree that a run reads for its review stays, whatever its peers clone, remove
\* or clean up, so long as no watchdog sweeps the host.
THEOREM PeersLeaveTreesAlone == Spec => []PeersLeaveTrees
  <1>1. Inv => PeersLeaveTrees
    BY DEF Inv, Place, PeersLeaveTrees, TreeStays
  <1> QED
    BY InvHolds, <1>1, PTL

\* A run that ends leaves no tree behind, except one cancelled or hanging in git
\* while it had one.
THEOREM RunsLeaveNothing == Spec => []NothingLeft
  <1>1. Inv => NothingLeft
    BY DEF Inv, Place, NothingLeft
  <1> QED
    BY InvHolds, <1>1, PTL

=============================================================================
