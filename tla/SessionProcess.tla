--------------------------- MODULE SessionProcess ---------------------------
(***************************************************************************)
(* argus/runners.py: reviewer sessions of the Claude platform.             *)
(*                                                                         *)
(* A session runs in a worker process of its own, started and awaited by a *)
(* thread of a small pool of the parent.  The worker leads a process group *)
(* in which the claude CLI runs, keeps a ledger file named by its pid, and *)
(* hands its result over through a pipe.  The thread first joins the       *)
(* worker, for at most the session's timeout, and reads the pipe after.    *)
(***************************************************************************)
EXTENDS Naturals, FiniteSets

CONSTANTS
  Session,    \* sessions of the parent process
  Pid,        \* process ids the system gives to workers
  PoolSize,   \* threads of the reviewer executor
  None        \* no process, no ledger

ASSUME SessionAssumption == PoolSize \in Nat \ {0} /\ None \notin Session \cup Pid

VARIABLES
  parent,     \* the parent process
  thread,     \* what the pool's thread does next for each session
  pid,        \* each worker's process id
  worker,     \* each worker process
  cli,        \* sessions whose claude CLI is alive
  said,       \* what each session came to, inside its worker
  pipe,       \* what each result pipe holds
  ledger,     \* the session that wrote the file of each pid
  outcome,    \* what the parent made of each session
  killed      \* workers that something outside the program killed

processes == <<parent, pid, worker, cli, killed>>
files == <<said, pipe, ledger>>
vars == <<processes, thread, files, outcome>>

Said == {"answer", "turn_budget_exhausted", "worker_crashed"}

\* "sending" has a result to write, "blocked" is inside a write that does not
\* fit into the pipe, "exiting" is past it; "dead" awaits its parent.
Working == {"starting", "leader", "session", "sending", "blocked", "exiting"}

\* The processes a signal reaches.
WorkerOf(s) == <<"worker", s>>
CliOf(s) == <<"cli", s>>
Parent == <<"parent">>

OwnGroup(s) == {WorkerOf(s), CliOf(s)}
ParentGroup ==
  {Parent} \cup { WorkerOf(s) : s \in { t \in Session : worker[t] = "starting" } }

Goto(s, place) == thread' = [thread EXCEPT ![s] = place]
Become(s, state) == worker' = [worker EXCEPT ![s] = state]

Ended(s) == thread[s] = "ended"

-----------------------------------------------------------------------------
(* The parent: _run_session_isolated, _run_session_in_subprocess *)

Submit(s) ==
  /\ parent = "alive"
  /\ thread[s] = "idle"
  /\ Goto(s, "queued")
  /\ UNCHANGED <<processes, files, outcome>>

\* A task cancelled while its call waits for a thread; later the thread goes on.
Cancel(s) ==
  /\ parent = "alive"
  /\ thread[s] = "queued"
  /\ Goto(s, "ended")
  /\ outcome' = [outcome EXCEPT ![s] = "cancelled"]
  /\ UNCHANGED <<processes, files>>

\* Mutant: a pid is given away before its worker was joined.
FreeWhenDead(p) == \A t \in Session : pid[t] = p => worker[t] \in {"dead", "reaped"}

\* A pid is free when no worker has it that lives or was not joined.
Free(p) == \A t \in Session : pid[t] = p => worker[t] = "reaped"

StartProcess(s) ==
  /\ parent = "alive"
  /\ thread[s] = "queued"
  /\ Cardinality({ t \in Session : thread[t] \notin {"idle", "queued", "ended"} }) < PoolSize
  /\ \E p \in Pid : Free(p) /\ pid' = [pid EXCEPT ![s] = p]
  /\ Become(s, "starting")
  /\ Goto(s, "join")
  /\ UNCHANGED <<parent, cli, killed, files, outcome>>

JoinReturns(s) ==
  /\ parent = "alive"
  /\ thread[s] = "join" /\ worker[s] = "dead"
  /\ Become(s, "reaped")
  /\ Goto(s, "receive")
  /\ UNCHANGED <<parent, pid, cli, killed, files, outcome>>

\* Mutant: join() without the timeout.
JoinNeverTimesOut(s) ==
  /\ thread[s] = "join" /\ worker[s] = "none"
  /\ UNCHANGED vars

\* is_alive() after the timeout.
JoinTimesOut(s) ==
  /\ parent = "alive"
  /\ thread[s] = "join" /\ worker[s] \in Working
  /\ Goto(s, "kill")
  /\ UNCHANGED <<processes, files, outcome>>

\* Mutant: only the worker is killed.
KillTargetsWorker(s) == {WorkerOf(s)}

\* Mutant: the group the worker is in is killed, whoever leads it.
KillTargetsAnyGroup(s) ==
  IF worker[s] = "starting" THEN ParentGroup ELSE OwnGroup(s)

\* _kill_process_group: the group when the worker leads it, else the worker.
KillTargets(s) == IF worker[s] = "starting" THEN {WorkerOf(s)} ELSE OwnGroup(s)

\* getpgid and the signal as one step: a worker that has slept over its whole
\* timeout would have to lead a group and start a CLI between the two calls.
KillProcessGroup(s) ==
  /\ parent = "alive"
  /\ thread[s] = "kill"
  /\ worker' = [t \in Session |->
                  IF WorkerOf(t) \in KillTargets(s) THEN "dead" ELSE worker[t]]
  /\ cli' = { t \in cli : CliOf(t) \notin KillTargets(s) }
  /\ parent' = IF Parent \in KillTargets(s) THEN "killed" ELSE parent
  /\ Goto(s, "reap")
  /\ UNCHANGED <<pid, killed, files, outcome>>

\* join() after the kill.
Reap(s) ==
  /\ parent = "alive"
  /\ thread[s] = "reap" /\ worker[s] = "dead"
  /\ Become(s, "reaped")
  /\ Goto(s, "unlink")
  /\ UNCHANGED <<parent, pid, cli, killed, files, outcome>>

Unlinked(s) == [ledger EXCEPT ![pid[s]] = None]

\* Mutant: the ledger is left to the worker's atexit.
ReportTimeoutOnly(s) ==
  /\ parent = "alive"
  /\ thread[s] = "unlink"
  /\ outcome' = [outcome EXCEPT ![s] = "timeout"]
  /\ Goto(s, "ended")
  /\ UNCHANGED <<processes, files>>

\* _try_unlink_ledger by the path of the pid, _empty_session_result.
ReportTimeout(s) ==
  /\ parent = "alive"
  /\ thread[s] = "unlink"
  /\ ledger' = Unlinked(s)
  /\ outcome' = [outcome EXCEPT ![s] = "timeout"]
  /\ Goto(s, "ended")
  /\ UNCHANGED <<processes, said, pipe>>

\* Mutant: whatever is in the pipe is taken for the answer.
ReceiveWhatIsThere(s) ==
  /\ parent = "alive"
  /\ thread[s] = "receive"
  /\ outcome' = [outcome EXCEPT ![s] = IF pipe[s] = "empty" THEN "raised" ELSE "answer"]
  /\ Goto(s, "ended")
  /\ UNCHANGED <<processes, files>>

\* poll() is true for a result and at the end of file as well, and the writing
\* end is closed by now: what is no whole result makes recv() raise.
Receive(s) ==
  /\ parent = "alive"
  /\ thread[s] = "receive"
  /\ outcome' = [outcome EXCEPT ![s] = IF pipe[s] \in Said THEN pipe[s] ELSE "raised"]
  /\ Goto(s, "ended")
  /\ UNCHANGED <<processes, files>>

\* The process is killed, or the watchdog of the CLI ends it.
ParentExits ==
  /\ parent = "alive"
  /\ parent' = "gone"
  /\ UNCHANGED <<pid, worker, cli, killed, thread, files, outcome>>

-----------------------------------------------------------------------------
(* The worker: _validator_worker, _run_claude_session *)

SetSid(s) ==
  /\ worker[s] = "starting"
  /\ Become(s, "leader")
  /\ UNCHANGED <<parent, pid, cli, killed, thread, files, outcome>>

OpenClient(s) ==
  /\ worker[s] = "leader"
  /\ Become(s, "session")
  /\ cli' = cli \cup {s}
  /\ UNCHANGED <<parent, pid, killed, thread, files, outcome>>

\* _append_context_ledger opens the file of the own pid for append.
AppendLedger(s) ==
  /\ worker[s] = "session"
  /\ ledger' = [ledger EXCEPT ![pid[s]] = s]
  /\ UNCHANGED <<processes, thread, said, pipe, outcome>>

\* The stream of messages ends, at the turn limit too, or something raises.
SessionEnds(s) ==
  /\ \/ worker[s] = "session" /\ \E r \in Said : said' = [said EXCEPT ![s] = r]
     \/ worker[s] = "leader" /\ said' = [said EXCEPT ![s] = "worker_crashed"]
  /\ Become(s, "sending")
  /\ cli' = cli \ {s}
  /\ UNCHANGED <<parent, pid, killed, thread, pipe, ledger, outcome>>

\* A result that fits into the pipe; without a reader the send raises.
Send(s) ==
  /\ worker[s] = "sending"
  /\ pipe' = [pipe EXCEPT ![s] = IF parent = "alive" THEN said[s] ELSE @]
  /\ Become(s, "exiting")
  /\ UNCHANGED <<parent, pid, cli, killed, thread, said, ledger, outcome>>

\* One that does not fit waits for the reader, who waits for the worker.
SendBlocks(s) ==
  /\ worker[s] = "sending" /\ said[s] # "worker_crashed"
  /\ parent = "alive"
  /\ pipe' = [pipe EXCEPT ![s] = "part"]
  /\ Become(s, "blocked")
  /\ UNCHANGED <<parent, pid, cli, killed, thread, said, ledger, outcome>>

SendBreaks(s) ==
  /\ worker[s] = "blocked"
  /\ parent # "alive"
  /\ Become(s, "exiting")
  /\ UNCHANGED <<parent, pid, cli, killed, thread, files, outcome>>

\* atexit: _cleanup_ledger_file
WorkerExits(s) ==
  /\ worker[s] = "exiting"
  /\ ledger' = Unlinked(s)
  /\ Become(s, "dead")
  /\ UNCHANGED <<parent, pid, cli, killed, thread, said, pipe, outcome>>

\* Out of memory, a segmentation fault: no handler of the worker runs.
WorkerIsKilled(s) ==
  /\ worker[s] \in Working
  /\ Become(s, "dead")
  /\ killed' = killed \cup {s}
  /\ UNCHANGED <<parent, pid, cli, thread, files, outcome>>

\* A CLI without a worker finds its input closed.
CliExits(s) ==
  /\ s \in cli /\ worker[s] \notin Working
  /\ cli' = cli \ {s}
  /\ UNCHANGED <<parent, pid, worker, killed, thread, files, outcome>>

-----------------------------------------------------------------------------
Init ==
  /\ parent = "alive"
  /\ thread = [s \in Session |-> "idle"]
  /\ pid = [s \in Session |-> None]
  /\ worker = [s \in Session |-> "none"]
  /\ cli = {} /\ killed = {}
  /\ said = [s \in Session |-> "none"]
  /\ pipe = [s \in Session |-> "empty"]
  /\ ledger = [p \in Pid |-> None]
  /\ outcome = [s \in Session |-> "none"]

\* What a thread of the pool does for a session it has.
ThreadStep(s) ==
  \/ StartProcess(s) \/ JoinReturns(s) \/ JoinTimesOut(s)
  \/ KillProcessGroup(s) \/ Reap(s) \/ ReportTimeout(s) \/ Receive(s)

WorkerStep(s) ==
  \/ SetSid(s) \/ OpenClient(s) \/ AppendLedger(s) \/ SessionEnds(s)
  \/ Send(s) \/ SendBlocks(s) \/ SendBreaks(s) \/ WorkerExits(s)

Next ==
  \/ \E s \in Session :
       \/ Submit(s) \/ Cancel(s) \/ ThreadStep(s)
       \/ WorkerStep(s) \/ WorkerIsKilled(s) \/ CliExits(s)
  \/ ParentExits

Spec == Init /\ [][Next]_vars

\* The pool runs its threads and a join ends at its timeout.  Nothing is asked
\* of a worker: it may hang for ever.
FairSpec == Spec /\ \A s \in Session : WF_vars(ThreadStep(s))

-----------------------------------------------------------------------------
(* Properties *)

\* Every variable keeps its shape; a session has a pid from its start on, and no
\* two workers that are not joined have the same.
TypeOK ==
  /\ parent \in {"alive", "gone", "killed"}
  /\ thread \in [Session -> {"idle", "queued", "join", "kill", "reap", "unlink",
                             "receive", "ended"}]
  /\ pid \in [Session -> Pid \cup {None}]
  /\ worker \in [Session -> Working \cup {"none", "dead", "reaped"}]
  /\ cli \subseteq Session /\ killed \subseteq Session
  /\ said \in [Session -> Said \cup {"none"}]
  /\ pipe \in [Session -> Said \cup {"empty", "part"}]
  /\ ledger \in [Pid -> Session \cup {None}]
  /\ outcome \in [Session -> Said \cup {"none", "timeout", "raised", "cancelled"}]
  /\ \A s \in Session : worker[s] # "none" <=> pid[s] # None
  /\ \A s, t \in Session :
       s # t /\ pid[s] = pid[t] /\ pid[s] # None => "reaped" \in {worker[s], worker[t]}

\* _kill_process_group: when a session was reported as timed out, neither its
\* worker nor the CLI the worker started is alive.
TimeoutLeavesNothing ==
  \A s \in Session : outcome[s] = "timeout" => worker[s] = "reaped" /\ s \notin cli

\* _kill_process_group, "never kill that": a timeout that meets a worker which
\* has not called setsid yet does not reach the parent or another worker.
KillStaysInTheSession ==
  /\ parent # "killed"
  /\ \A s \in Session :
       worker[s] = "dead" /\ thread[s] = "join" => s \in killed \/ said[s] # "none"

\* The ledger of a session is gone when the session has ended, by the worker's
\* atexit or by the parent's unlink, unless something outside killed the worker.
LedgerIsRemoved ==
  \A s \in Session : Ended(s) /\ s \notin killed => \A p \in Pid : ledger[p] # s

\* Every session that is submitted ends, however its worker hangs: the join has
\* a timeout, and the pool's threads come free.
SessionsEnd ==
  \A s \in Session : thread[s] = "queued" ~> (Ended(s) \/ parent # "alive")

\* The parent never takes for an answer what the session did not say.
AnswerIsWhole ==
  \A s \in Session : outcome[s] \in Said => outcome[s] = said[s]

\* STORAGE.md: failure_reason tells a session "that timed out or crashed" from
\* one that completed.  A worker that only waits to hand over its result has
\* completed, and is not reported as timed out.
CompletedIsNotTimedOut ==
  [][\A s \in Session :
       worker[s] = "blocked" /\ thread[s] = "join" => thread'[s] # "kill"]_vars

\* The branch for a worker that exits without a result ("OOM, SIGSEGV, external
\* SIGKILL"): such a session is reported as crashed, not raised to the caller.
DeadWorkerIsReported == \A s \in Session : outcome[s] # "raised"

\* _try_unlink_ledger: the parent does not remove the ledger of another session
\* that is running.
LedgersOfOthersStay ==
  [][\A s \in Session :
       worker[s] = "session" /\ worker'[s] = "session" =>
         \A p \in Pid : ledger[p] = s => ledger'[p] = s]_vars

=============================================================================
