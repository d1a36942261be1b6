------------------------- MODULE SessionProcessProofs -----------------------
(***************************************************************************)
(* Theorems about SessionProcess, for every set of sessions and process    *)
(* ids and every size of the pool, along one inductive invariant.          *)
(***************************************************************************)
EXTENDS SessionProcess, TLAPS

\* Where the thread stands tells what is left of the worker, and an outcome is
\* there only when the thread has ended.
ThreadsAndWorkers ==
  \A s \in Session :
    /\ thread[s] \in {"idle", "queued"} => worker[s] = "none"
    /\ thread[s] \in {"join", "kill"} => worker[s] \in Working \cup {"dead"}
    /\ thread[s] = "reap" => worker[s] = "dead" /\ s \notin cli
    /\ thread[s] = "unlink" => worker[s] = "reaped" /\ s \notin cli
    /\ thread[s] = "receive" => worker[s] = "reaped"
    /\ Ended(s) => worker[s] \in {"none", "reaped"}
    /\ worker[s] \in {"none", "starting", "leader"} => s \notin cli
    /\ outcome[s] # "none" => Ended(s)
    /\ outcome[s] = "timeout" => worker[s] = "reaped" /\ s \notin cli

\* What went into the pipe is what the session came to, and nothing goes into
\* it, or takes another end, before there is something to say.
WordsAndPipes ==
  \A s \in Session :
    /\ worker[s] \in {"sending", "blocked", "exiting"} => said[s] # "none"
    /\ pipe[s] \in Said =>
         pipe[s] = said[s] /\ worker[s] \in {"exiting", "dead", "reaped"}
    /\ outcome[s] \in Said => outcome[s] = said[s] /\ worker[s] = "reaped"
    /\ worker[s] = "dead" /\ thread[s] = "join" => s \in killed \/ said[s] # "none"

\* A ledger carries the id of its worker, and outlives one that nothing outside
\* killed only until the parent unlinks it.
LedgersAndIds ==
  \A s \in Session, p \in Pid :
    ledger[p] = s =>
      /\ pid[s] = p
      /\ \/ s \in killed \/ thread[s] \in {"reap", "unlink"}
         \/ worker[s] \in {"session", "sending", "blocked", "exiting"}

Inv ==
  /\ TypeOK /\ parent # "killed"
  /\ ThreadsAndWorkers /\ WordsAndPipes /\ LedgersAndIds

-----------------------------------------------------------------------------
(* Whom a kill reaches *)

\* The signal takes the worker, with its CLI when it leads a group, and neither
\* the parent nor another session's processes.
LEMMA KillReaches ==
  ASSUME NEW s \in Session, KillProcessGroup(s), TypeOK
  PROVE  /\ thread[s] = "kill" /\ Goto(s, "reap")
         /\ worker' = [worker EXCEPT ![s] = "dead"]
         /\ cli' = IF worker[s] = "starting" THEN cli ELSE cli \ {s}
         /\ UNCHANGED <<parent, pid, killed, files, outcome>>
  <1>1. \A t \in Session : WorkerOf(t) \in KillTargets(s) <=> t = s
    BY DEF KillTargets, OwnGroup, WorkerOf, CliOf
  <1>2. \A t \in Session :
          CliOf(t) \in KillTargets(s) <=> t = s /\ worker[s] # "starting"
    BY DEF KillTargets, OwnGroup, WorkerOf, CliOf
  <1>3. Parent \notin KillTargets(s)
    BY DEF KillTargets, OwnGroup, WorkerOf, CliOf, Parent
  <1>4. worker' = [worker EXCEPT ![s] = "dead"]
    <2>1. worker' = [t \in Session |-> IF t = s THEN "dead" ELSE worker[t]]
      BY <1>1 DEF KillProcessGroup
    <2> QED
      BY <2>1 DEF TypeOK
  <1>5. cli' = IF worker[s] = "starting" THEN cli ELSE cli \ {s}
    <2>1. cli' = { t \in cli : ~(t = s /\ worker[s] # "starting") }
      BY <1>2 DEF KillProcessGroup, TypeOK
    <2> QED
      BY <2>1
  <1> QED
    BY <1>3, <1>4, <1>5 DEF KillProcessGroup

-----------------------------------------------------------------------------
(* Every step keeps the invariant *)

\* Every action keeps the shapes, and the ids apart.
LEMMA TypeStep == Inv /\ [Next]_vars => TypeOK'
  <1> SUFFICES ASSUME Inv, [Next]_vars PROVE TypeOK'
    OBVIOUS
  <1> USE DEF Inv
  <1>1. ASSUME NEW s \in Session, Submit(s) PROVE TypeOK'
    BY <1>1 DEF Submit, TypeOK, Said, Working, Goto, processes, files
  <1>2. ASSUME NEW s \in Session, Cancel(s) PROVE TypeOK'
    BY <1>2 DEF Cancel, TypeOK, Said, Working, Goto, processes, files
  <1>3. ASSUME NEW s \in Session, StartProcess(s) PROVE TypeOK'
    BY <1>3, SessionAssumption DEF StartProcess, TypeOK, Said, Working,
           ThreadsAndWorkers, Goto, Become, Free, files
  <1>4. ASSUME NEW s \in Session, JoinReturns(s) PROVE TypeOK'
    BY <1>4 DEF JoinReturns, TypeOK, Said, Working, Goto, Become, files
  <1>5. ASSUME NEW s \in Session, JoinTimesOut(s) PROVE TypeOK'
    BY <1>5 DEF JoinTimesOut, TypeOK, Said, Working, Goto, processes, files
  <1>6. ASSUME NEW s \in Session, KillProcessGroup(s) PROVE TypeOK'
    <2>1. /\ thread[s] = "kill" /\ thread' = [thread EXCEPT ![s] = "reap"]
          /\ worker' = [worker EXCEPT ![s] = "dead"]
          /\ cli' = IF worker[s] = "starting" THEN cli ELSE cli \ {s}
          /\ UNCHANGED <<parent, pid, killed, said, pipe, ledger, outcome>>
      BY <1>6, KillReaches DEF Goto, files
    <2> QED
      BY <2>1 DEF TypeOK, Said, Working, ThreadsAndWorkers
  <1>7. ASSUME NEW s \in Session, Reap(s) PROVE TypeOK'
    BY <1>7 DEF Reap, TypeOK, Said, Working, Goto, Become, files
  <1>8. ASSUME NEW s \in Session, ReportTimeout(s) PROVE TypeOK'
    BY <1>8 DEF ReportTimeout, TypeOK, Said, Working, Goto, Unlinked,
           processes
  <1>9. ASSUME NEW s \in Session, Receive(s) PROVE TypeOK'
    BY <1>9 DEF Receive, TypeOK, Said, Working, Goto, processes, files
  <1>10. ASSUME NEW s \in Session, SetSid(s) PROVE TypeOK'
    BY <1>10 DEF SetSid, TypeOK, Said, Working, Become, files
  <1>11. ASSUME NEW s \in Session, OpenClient(s) PROVE TypeOK'
    BY <1>11 DEF OpenClient, TypeOK, Said, Working, Become, files
  <1>12. ASSUME NEW s \in Session, AppendLedger(s) PROVE TypeOK'
    BY <1>12 DEF AppendLedger, TypeOK, Said, Working, processes
  <1>13. ASSUME NEW s \in Session, SessionEnds(s) PROVE TypeOK'
    BY <1>13 DEF SessionEnds, TypeOK, Said, Working, Become
  <1>14. ASSUME NEW s \in Session, Send(s) PROVE TypeOK'
    BY <1>14 DEF Send, TypeOK, Said, Working, WordsAndPipes, Become
  <1>15. ASSUME NEW s \in Session, SendBlocks(s) PROVE TypeOK'
    BY <1>15 DEF SendBlocks, TypeOK, Said, Working, Become
  <1>16. ASSUME NEW s \in Session, SendBreaks(s) PROVE TypeOK'
    BY <1>16 DEF SendBreaks, TypeOK, Said, Working, Become, files
  <1>17. ASSUME NEW s \in Session, WorkerExits(s) PROVE TypeOK'
    BY <1>17 DEF WorkerExits, TypeOK, Said, Working, Become, Unlinked
  <1>18. ASSUME NEW s \in Session, WorkerIsKilled(s) PROVE TypeOK'
    BY <1>18 DEF WorkerIsKilled, TypeOK, Said, Working, Become, files
  <1>19. ASSUME NEW s \in Session, CliExits(s) PROVE TypeOK'
    BY <1>19 DEF CliExits, TypeOK, Said, Working, files
  <1>20. CASE ParentExits
    BY <1>20 DEF ParentExits, TypeOK, Said, Working, files
  <1>21. CASE UNCHANGED vars
    BY <1>21 DEF vars, processes, files, TypeOK, Said, Working
  <1> QED
    BY <1>1, <1>2, <1>3, <1>4, <1>5, <1>6, <1>7, <1>8, <1>9, <1>10, <1>11,
       <1>12, <1>13, <1>14, <1>15, <1>16, <1>17, <1>18, <1>19, <1>20, <1>21 DEF Next, ThreadStep, WorkerStep

\* Every action keeps threads and workers in step.
LEMMA ThreadsStep == Inv /\ [Next]_vars => ThreadsAndWorkers'
  <1> SUFFICES ASSUME Inv, [Next]_vars PROVE ThreadsAndWorkers'
    OBVIOUS
  <1> USE DEF Inv
  <1>1. ASSUME NEW s \in Session, Submit(s) PROVE ThreadsAndWorkers'
    BY <1>1 DEF Submit, TypeOK, ThreadsAndWorkers, Ended, Said, Working, Goto,
           processes, files
  <1>2. ASSUME NEW s \in Session, Cancel(s) PROVE ThreadsAndWorkers'
    BY <1>2 DEF Cancel, TypeOK, ThreadsAndWorkers, Ended, Said, Working, Goto,
           processes, files
  <1>3. ASSUME NEW s \in Session, StartProcess(s) PROVE ThreadsAndWorkers'
    BY <1>3 DEF StartProcess, TypeOK, ThreadsAndWorkers, Ended, Said, Working,
           Goto, Become, Free, files
  <1>4. ASSUME NEW s \in Session, JoinReturns(s) PROVE ThreadsAndWorkers'
    BY <1>4 DEF JoinReturns, TypeOK, ThreadsAndWorkers, Ended, Said, Working,
           Goto, Become, files
  <1>5. ASSUME NEW s \in Session, JoinTimesOut(s) PROVE ThreadsAndWorkers'
    BY <1>5 DEF JoinTimesOut, TypeOK, ThreadsAndWorkers, Ended, Said, Working,
           Goto, processes, files
  <1>6. ASSUME NEW s \in Session, KillProcessGroup(s) PROVE ThreadsAndWorkers'
    <2>1. /\ thread[s] = "kill" /\ thread' = [thread EXCEPT ![s] = "reap"]
          /\ worker' = [worker EXCEPT ![s] = "dead"]
          /\ cli' = IF worker[s] = "starting" THEN cli ELSE cli \ {s}
          /\ UNCHANGED <<parent, pid, killed, said, pipe, ledger, outcome>>
      BY <1>6, KillReaches DEF Goto, files
    <2> QED
      BY <2>1 DEF TypeOK, ThreadsAndWorkers, Ended, Said, Working
  <1>7. ASSUME NEW s \in Session, Reap(s) PROVE ThreadsAndWorkers'
    BY <1>7 DEF Reap, TypeOK, ThreadsAndWorkers, Ended, Said, Working, Goto,
           Become, files
  <1>8. ASSUME NEW s \in Session, ReportTimeout(s) PROVE ThreadsAndWorkers'
    BY <1>8 DEF ReportTimeout, TypeOK, ThreadsAndWorkers, Ended, Said,
           Working, Goto, Unlinked, processes
  <1>9. ASSUME NEW s \in Session, Receive(s) PROVE ThreadsAndWorkers'
    BY <1>9 DEF Receive, TypeOK, ThreadsAndWorkers, Ended, Said, Working,
           Goto, processes, files
  <1>10. ASSUME NEW s \in Session, SetSid(s) PROVE ThreadsAndWorkers'
    BY <1>10 DEF SetSid, TypeOK, ThreadsAndWorkers, Ended, Said, Working,
           Become, files
  <1>11. ASSUME NEW s \in Session, OpenClient(s) PROVE ThreadsAndWorkers'
    BY <1>11 DEF OpenClient, TypeOK, ThreadsAndWorkers, Ended, Said, Working,
           Become, files
  <1>12. ASSUME NEW s \in Session, AppendLedger(s) PROVE ThreadsAndWorkers'
    BY <1>12 DEF AppendLedger, TypeOK, ThreadsAndWorkers, Ended, Said,
           Working, processes
  <1>13. ASSUME NEW s \in Session, SessionEnds(s) PROVE ThreadsAndWorkers'
    BY <1>13 DEF SessionEnds, TypeOK, ThreadsAndWorkers, Ended, Said, Working,
           Become
  <1>14. ASSUME NEW s \in Session, Send(s) PROVE ThreadsAndWorkers'
    BY <1>14 DEF Send, TypeOK, ThreadsAndWorkers, Ended, Said, Working, Become
  <1>15. ASSUME NEW s \in Session, SendBlocks(s) PROVE ThreadsAndWorkers'
    BY <1>15 DEF SendBlocks, TypeOK, ThreadsAndWorkers, Ended, Said, Working,
           Become
  <1>16. ASSUME NEW s \in Session, SendBreaks(s) PROVE ThreadsAndWorkers'
    BY <1>16 DEF SendBreaks, TypeOK, ThreadsAndWorkers, Ended, Said, Working,
           Become, files
  <1>17. ASSUME NEW s \in Session, WorkerExits(s) PROVE ThreadsAndWorkers'
    BY <1>17 DEF WorkerExits, TypeOK, ThreadsAndWorkers, Ended, Said, Working,
           Become, Unlinked
  <1>18. ASSUME NEW s \in Session, WorkerIsKilled(s) PROVE ThreadsAndWorkers'
    BY <1>18 DEF WorkerIsKilled, TypeOK, ThreadsAndWorkers, Ended, Said,
           Working, Become, files
  <1>19. ASSUME NEW s \in Session, CliExits(s) PROVE ThreadsAndWorkers'
    BY <1>19 DEF CliExits, TypeOK, ThreadsAndWorkers, Ended, Said, Working,
           files
  <1>20. CASE ParentExits
    BY <1>20 DEF ParentExits, TypeOK, ThreadsAndWorkers, Ended, Said, Working,
           files
  <1>21. CASE UNCHANGED vars
    BY <1>21 DEF vars, processes, files, TypeOK, ThreadsAndWorkers, Ended,
           Said, Working
  <1> QED
    BY <1>1, <1>2, <1>3, <1>4, <1>5, <1>6, <1>7, <1>8, <1>9, <1>10, <1>11,
       <1>12, <1>13, <1>14, <1>15, <1>16, <1>17, <1>18, <1>19, <1>20, <1>21 DEF Next, ThreadStep, WorkerStep

\* Nothing is said, sent or read out of turn.
LEMMA WordsStep == Inv /\ [Next]_vars => WordsAndPipes'
  <1> SUFFICES ASSUME Inv, [Next]_vars PROVE WordsAndPipes'
    OBVIOUS
  <1> USE DEF Inv
  <1>1. ASSUME NEW s \in Session, Submit(s) PROVE WordsAndPipes'
    BY <1>1 DEF Submit, TypeOK, WordsAndPipes, ThreadsAndWorkers, Ended, Said,
           Working, Goto, processes, files
  <1>2. ASSUME NEW s \in Session, Cancel(s) PROVE WordsAndPipes'
    BY <1>2 DEF Cancel, TypeOK, WordsAndPipes, ThreadsAndWorkers, Ended, Said,
           Working, Goto, processes, files
  <1>3. ASSUME NEW s \in Session, StartProcess(s) PROVE WordsAndPipes'
    BY <1>3 DEF StartProcess, TypeOK, WordsAndPipes, ThreadsAndWorkers, Ended,
           Said, Working, Goto, Become, Free, files
  <1>4. ASSUME NEW s \in Session, JoinReturns(s) PROVE WordsAndPipes'
    BY <1>4 DEF JoinReturns, TypeOK, WordsAndPipes, ThreadsAndWorkers, Ended,
           Said, Working, Goto, Become, files
  <1>5. ASSUME NEW s \in Session, JoinTimesOut(s) PROVE WordsAndPipes'
    BY <1>5 DEF JoinTimesOut, TypeOK, WordsAndPipes, ThreadsAndWorkers, Ended,
           Said, Working, Goto, processes, files
  <1>6. ASSUME NEW s \in Session, KillProcessGroup(s) PROVE WordsAndPipes'
    <2>1. /\ thread[s] = "kill" /\ thread' = [thread EXCEPT ![s] = "reap"]
          /\ worker' = [worker EXCEPT ![s] = "dead"]
          /\ cli' = IF worker[s] = "starting" THEN cli ELSE cli \ {s}
          /\ UNCHANGED <<parent, pid, killed, said, pipe, ledger, outcome>>
      BY <1>6, KillReaches DEF Goto, files
    <2> QED
      BY <2>1 DEF TypeOK, WordsAndPipes, ThreadsAndWorkers, Ended, Said,
             Working
  <1>7. ASSUME NEW s \in Session, Reap(s) PROVE WordsAndPipes'
    BY <1>7 DEF Reap, TypeOK, WordsAndPipes, ThreadsAndWorkers, Ended, Said,
           Working, Goto, Become, files
  <1>8. ASSUME NEW s \in Session, ReportTimeout(s) PROVE WordsAndPipes'
    BY <1>8 DEF ReportTimeout, TypeOK, WordsAndPipes, ThreadsAndWorkers,
           Ended, Said, Working, Goto, Unlinked, processes
  <1>9. ASSUME NEW s \in Session, Receive(s) PROVE WordsAndPipes'
    BY <1>9 DEF Receive, TypeOK, WordsAndPipes, ThreadsAndWorkers, Ended,
           Said, Working, Goto, processes, files
  <1>10. ASSUME NEW s \in Session, SetSid(s) PROVE WordsAndPipes'
    BY <1>10 DEF SetSid, TypeOK, WordsAndPipes, ThreadsAndWorkers, Ended,
           Said, Working, Become, files
  <1>11. ASSUME NEW s \in Session, OpenClient(s) PROVE WordsAndPipes'
    BY <1>11 DEF OpenClient, TypeOK, WordsAndPipes, ThreadsAndWorkers, Ended,
           Said, Working, Become, files
  <1>12. ASSUME NEW s \in Session, AppendLedger(s) PROVE WordsAndPipes'
    BY <1>12 DEF AppendLedger, TypeOK, WordsAndPipes, ThreadsAndWorkers,
           Ended, Said, Working, processes
  <1>13. ASSUME NEW s \in Session, SessionEnds(s) PROVE WordsAndPipes'
    BY <1>13 DEF SessionEnds, TypeOK, WordsAndPipes, ThreadsAndWorkers, Ended,
           Said, Working, Become
  <1>14. ASSUME NEW s \in Session, Send(s) PROVE WordsAndPipes'
    BY <1>14 DEF Send, TypeOK, WordsAndPipes, ThreadsAndWorkers, Ended, Said,
           Working, Become
  <1>15. ASSUME NEW s \in Session, SendBlocks(s) PROVE WordsAndPipes'
    BY <1>15 DEF SendBlocks, TypeOK, WordsAndPipes, ThreadsAndWorkers, Ended,
           Said, Working, Become
  <1>16. ASSUME NEW s \in Session, SendBreaks(s) PROVE WordsAndPipes'
    BY <1>16 DEF SendBreaks, TypeOK, WordsAndPipes, ThreadsAndWorkers, Ended,
           Said, Working, Become, files
  <1>17. ASSUME NEW s \in Session, WorkerExits(s) PROVE WordsAndPipes'
    BY <1>17 DEF WorkerExits, TypeOK, WordsAndPipes, ThreadsAndWorkers, Ended,
           Said, Working, Become, Unlinked
  <1>18. ASSUME NEW s \in Session, WorkerIsKilled(s) PROVE WordsAndPipes'
    BY <1>18 DEF WorkerIsKilled, TypeOK, WordsAndPipes, ThreadsAndWorkers,
           Ended, Said, Working, Become, files
  <1>19. ASSUME NEW s \in Session, CliExits(s) PROVE WordsAndPipes'
    BY <1>19 DEF CliExits, TypeOK, WordsAndPipes, ThreadsAndWorkers, Ended,
           Said, Working, files
  <1>20. CASE ParentExits
    BY <1>20 DEF ParentExits, TypeOK, WordsAndPipes, ThreadsAndWorkers, Ended,
           Said, Working, files
  <1>21. CASE UNCHANGED vars
    BY <1>21 DEF vars, processes, files, TypeOK, WordsAndPipes,
           ThreadsAndWorkers, Ended, Said, Working
  <1> QED
    BY <1>1, <1>2, <1>3, <1>4, <1>5, <1>6, <1>7, <1>8, <1>9, <1>10, <1>11,
       <1>12, <1>13, <1>14, <1>15, <1>16, <1>17, <1>18, <1>19, <1>20, <1>21 DEF Next, ThreadStep, WorkerStep

\* A ledger keeps its id, and its worker or the unlink that removes it.
LEMMA LedgersStep == Inv /\ [Next]_vars => LedgersAndIds'
  <1> SUFFICES ASSUME Inv, [Next]_vars PROVE LedgersAndIds'
    OBVIOUS
  <1> USE SessionAssumption DEF Inv
  <1>1. ASSUME NEW s \in Session, Submit(s) PROVE LedgersAndIds'
    BY <1>1 DEF Submit, TypeOK, LedgersAndIds, ThreadsAndWorkers, Ended, Said,
           Working, Goto, processes, files
  <1>2. ASSUME NEW s \in Session, Cancel(s) PROVE LedgersAndIds'
    BY <1>2 DEF Cancel, TypeOK, LedgersAndIds, ThreadsAndWorkers, Ended, Said,
           Working, Goto, processes, files
  <1>3. ASSUME NEW s \in Session, StartProcess(s) PROVE LedgersAndIds'
    BY <1>3 DEF StartProcess, TypeOK, LedgersAndIds, ThreadsAndWorkers, Ended,
           Said, Working, Goto, Become, Free, files
  <1>4. ASSUME NEW s \in Session, JoinReturns(s) PROVE LedgersAndIds'
    BY <1>4 DEF JoinReturns, TypeOK, LedgersAndIds, ThreadsAndWorkers, Ended,
           Said, Working, Goto, Become, files
  <1>5. ASSUME NEW s \in Session, JoinTimesOut(s) PROVE LedgersAndIds'
    BY <1>5 DEF JoinTimesOut, TypeOK, LedgersAndIds, ThreadsAndWorkers, Ended,
           Said, Working, Goto, processes, files
  <1>6. ASSUME NEW s \in Session, KillProcessGroup(s) PROVE LedgersAndIds'
    <2>1. /\ thread[s] = "kill" /\ thread' = [thread EXCEPT ![s] = "reap"]
          /\ worker' = [worker EXCEPT ![s] = "dead"]
          /\ cli' = IF worker[s] = "starting" THEN cli ELSE cli \ {s}
          /\ UNCHANGED <<parent, pid, killed, said, pipe, ledger, outcome>>
      BY <1>6, KillReaches DEF Goto, files
    <2> QED
      BY <2>1 DEF TypeOK, LedgersAndIds, ThreadsAndWorkers, Ended, Said,
             Working
  <1>7. ASSUME NEW s \in Session, Reap(s) PROVE LedgersAndIds'
    BY <1>7 DEF Reap, TypeOK, LedgersAndIds, ThreadsAndWorkers, Ended, Said,
           Working, Goto, Become, files
  <1>8. ASSUME NEW s \in Session, ReportTimeout(s) PROVE LedgersAndIds'
    BY <1>8 DEF ReportTimeout, TypeOK, LedgersAndIds, ThreadsAndWorkers,
           Ended, Said, Working, Goto, Unlinked, processes
  <1>9. ASSUME NEW s \in Session, Receive(s) PROVE LedgersAndIds'
    BY <1>9 DEF Receive, TypeOK, LedgersAndIds, ThreadsAndWorkers, Ended,
           Said, Working, Goto, processes, files
  <1>10. ASSUME NEW s \in Session, SetSid(s) PROVE LedgersAndIds'
    BY <1>10 DEF SetSid, TypeOK, LedgersAndIds, ThreadsAndWorkers, Ended,
           Said, Working, Become, files
  <1>11. ASSUME NEW s \in Session, OpenClient(s) PROVE LedgersAndIds'
    BY <1>11 DEF OpenClient, TypeOK, LedgersAndIds, ThreadsAndWorkers, Ended,
           Said, Working, Become, files
  <1>12. ASSUME NEW s \in Session, AppendLedger(s) PROVE LedgersAndIds'
    BY <1>12 DEF AppendLedger, TypeOK, LedgersAndIds, ThreadsAndWorkers,
           Ended, Said, Working, processes
  <1>13. ASSUME NEW s \in Session, SessionEnds(s) PROVE LedgersAndIds'
    BY <1>13 DEF SessionEnds, TypeOK, LedgersAndIds, ThreadsAndWorkers, Ended,
           Said, Working, Become
  <1>14. ASSUME NEW s \in Session, Send(s) PROVE LedgersAndIds'
    BY <1>14 DEF Send, TypeOK, LedgersAndIds, ThreadsAndWorkers, Ended, Said,
           Working, Become
  <1>15. ASSUME NEW s \in Session, SendBlocks(s) PROVE LedgersAndIds'
    BY <1>15 DEF SendBlocks, TypeOK, LedgersAndIds, ThreadsAndWorkers, Ended,
           Said, Working, Become
  <1>16. ASSUME NEW s \in Session, SendBreaks(s) PROVE LedgersAndIds'
    BY <1>16 DEF SendBreaks, TypeOK, LedgersAndIds, ThreadsAndWorkers, Ended,
           Said, Working, Become, files
  <1>17. ASSUME NEW s \in Session, WorkerExits(s) PROVE LedgersAndIds'
    BY <1>17 DEF WorkerExits, TypeOK, LedgersAndIds, ThreadsAndWorkers, Ended,
           Said, Working, Become, Unlinked
  <1>18. ASSUME NEW s \in Session, WorkerIsKilled(s) PROVE LedgersAndIds'
    BY <1>18 DEF WorkerIsKilled, TypeOK, LedgersAndIds, ThreadsAndWorkers,
           Ended, Said, Working, Become, files
  <1>19. ASSUME NEW s \in Session, CliExits(s) PROVE LedgersAndIds'
    BY <1>19 DEF CliExits, TypeOK, LedgersAndIds, ThreadsAndWorkers, Ended,
           Said, Working, files
  <1>20. CASE ParentExits
    BY <1>20 DEF ParentExits, TypeOK, LedgersAndIds, ThreadsAndWorkers, Ended,
           Said, Working, files
  <1>21. CASE UNCHANGED vars
    BY <1>21 DEF vars, processes, files, TypeOK, LedgersAndIds,
           ThreadsAndWorkers, Ended, Said, Working
  <1> QED
    BY <1>1, <1>2, <1>3, <1>4, <1>5, <1>6, <1>7, <1>8, <1>9, <1>10, <1>11,
       <1>12, <1>13, <1>14, <1>15, <1>16, <1>17, <1>18, <1>19, <1>20, <1>21 DEF Next, ThreadStep, WorkerStep

-----------------------------------------------------------------------------
(* The theorems *)

\* Every reachable state satisfies the invariant.
THEOREM InvHolds == Spec => []Inv
  <1>1. Init => Inv
    <2>1. Init => TypeOK
      BY DEF Init, TypeOK, Said
    <2>2. Init => ThreadsAndWorkers /\ WordsAndPipes
      BY DEF Init, ThreadsAndWorkers, WordsAndPipes, Ended, Said
    <2>3. Init => LedgersAndIds
      BY SessionAssumption DEF Init, LedgersAndIds
    <2> QED
      BY <2>1, <2>2, <2>3 DEF Init, Inv
  <1>2. Inv /\ [Next]_vars => (parent # "killed")'
    <2> SUFFICES ASSUME Inv, [Next]_vars PROVE parent' # "killed"
      OBVIOUS
    <2>1. ASSUME NEW s \in Session, KillProcessGroup(s) PROVE parent' # "killed"
      BY <2>1, KillReaches DEF Inv
    <2>2. CASE parent' = parent
      BY <2>2 DEF Inv
    <2>3. CASE ParentExits
      BY <2>3 DEF ParentExits
    <2>4. ASSUME NEW s \in Session, ~KillProcessGroup(s),
                 Submit(s) \/ Cancel(s) \/ ThreadStep(s) \/ WorkerStep(s)
                   \/ WorkerIsKilled(s) \/ CliExits(s)
          PROVE  parent' = parent
      BY <2>4
      DEF Submit, Cancel, ThreadStep, StartProcess, JoinReturns, JoinTimesOut, Reap,
          ReportTimeout, Receive, WorkerStep, SetSid, OpenClient, AppendLedger,
          SessionEnds, Send, SendBlocks, SendBreaks, WorkerExits, WorkerIsKilled,
          CliExits, processes
    <2>5. CASE UNCHANGED vars
      BY <2>2, <2>5 DEF vars, processes
    <2> QED
      BY <2>1, <2>2, <2>3, <2>4, <2>5 DEF Next
  <1>3. Inv /\ [Next]_vars => Inv'
    BY <1>2, TypeStep, ThreadsStep, WordsStep, LedgersStep DEF Inv
  <1> QED
    BY <1>1, <1>3, PTL DEF Spec

\* Type correctness; no two workers that were not joined have the same id.
THEOREM TypeCorrect == Spec => []TypeOK
  <1>1. Inv => TypeOK
    BY DEF Inv
  <1> QED
    BY <1>1, InvHolds, PTL

\* _kill_process_group: of a session that was reported as timed out neither the
\* worker nor its CLI is alive, wherever the timeout met them.
THEOREM TimeoutsLeaveNothing == Spec => []TimeoutLeavesNothing
  <1>1. Inv => TimeoutLeavesNothing
    BY DEF Inv, ThreadsAndWorkers, TimeoutLeavesNothing
  <1> QED
    BY <1>1, InvHolds, PTL

\* _kill_process_group, "never kill that": no timeout reaches the parent or the
\* worker of another session.
THEOREM KillsStayInTheSession == Spec => []KillStaysInTheSession
  <1>1. Inv => KillStaysInTheSession
    BY DEF Inv, WordsAndPipes, KillStaysInTheSession
  <1> QED
    BY <1>1, InvHolds, PTL

\* The parent takes for an answer what the session said and nothing else,
\* whatever a dead worker has left in the pipe.
THEOREM AnswersAreWhole == Spec => []AnswerIsWhole
  <1>1. Inv => AnswerIsWhole
    BY DEF Inv, WordsAndPipes, AnswerIsWhole
  <1> QED
    BY <1>1, InvHolds, PTL

\* The ledger of a session that has ended is gone, though its id may be another
\* worker's by now, unless something outside killed the worker.
THEOREM LedgersAreRemoved == Spec => []LedgerIsRemoved
  <1>1. Inv => LedgerIsRemoved
    BY DEF Inv, TypeOK, ThreadsAndWorkers, LedgersAndIds, LedgerIsRemoved, Ended
  <1> QED
    BY <1>1, InvHolds, PTL

=============================================================================
