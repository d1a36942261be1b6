---------------------------- MODULE RoundHistory ----------------------------
(***************************************************************************)
(* The rounds of one pull request in code_reviews and agent_runs, written  *)
(* by orchestrator flows (which retry under one flow_run_id) and by local  *)
(* CLI runs (which have none), all through the same seven operations of a  *)
(* HistoryBackend.  SQLite and Postgres share the statements modelled      *)
(* here; the HTTP backend differs in how finalize fails and in that it     *)
(* stores no agent_runs.                                                   *)
(*                                                                         *)
(* A head is a set of commits; one head is an ancestor of another when its *)
(* commits are among the other's.  A rebase or a force-push leads to a     *)
(* head that is no descendant of the one before it.                        *)
(*                                                                         *)
(* What the graph does between fetching the prior round and answering is   *)
(* ReviewPipeline's subject; here it is one step with four outcomes.       *)
(***************************************************************************)
EXTENDS Naturals, FiniteSets

CONSTANTS
  Flow,                  \* orchestrator flows of this pull request
  Local,                 \* CLI runs of this pull request
  Head,                  \* heads the PR's branch may have
  None,
  MaxTries,              \* bound: attempts per flow
  Settings,              \* bound: the branches and deployments considered
  PostgresCheckpointer   \* channels outlive an attempt (see ReviewPipeline)

Run == Flow \cup Local

\* The PR's own commits of each head (its last one is the head, so no two heads
\* have the same), the heads a push may lead to from each, the number of pushes
\* (a bound), whether rounds may overlap, whether upsert_running_row may fail
\* (which is only logged), and whether the backend is the HTTP one.
ASSUME SettingsAssumption ==
  \A s \in Settings :
    /\ DOMAIN s.commits = Head
    /\ \A g, h \in Head : s.commits[g] = s.commits[h] => g = h
    /\ s.maxPushes \in Nat /\ s.pushes \in [Head -> SUBSET Head]
    /\ {s.overlap, s.upsertFails, s.http} \subseteq BOOLEAN

ASSUME RunsAssumption ==
  /\ Flow \cap Local = {} /\ IsFiniteSet(Run)
  /\ None \notin Head

ASSUME BoundsAssumption ==
  MaxTries \in Nat \ {0} /\ PostgresCheckpointer \in BOOLEAN

VARIABLES
  setting,   \* never changes
  prHead, pushes,
  rows,      \* the row of each run in code_reviews; a flow has at most one
  agentRuns, \* how often each attempt's sessions are in agent_runs
  job,       \* each run's process
  rounds     \* history variable: every round ever stored with its outcome

branch == <<setting, prHead, pushes>>
vars == <<branch, rows, agentRuns, job, rounds>>

CommitsOf == setting.commits

-----------------------------------------------------------------------------
(* Values *)

\* What the graph may come back with.  "gap": some reviewer session failed;
\* "precheck": a verified rule fast-failed the round before any session.
Kind == {"review", "gap", "precheck", "halt"}

Row == [born : 1 .. Cardinality(Run), stage : {"running", "completed"},
        verdict : {"NULL", "APPROVE", "BLOCKING"},
        sha : Head \cup {None}, kind : Kind \cup {"none"}]

NoRow == [born |-> 0, stage |-> "absent", verdict |-> "NULL", sha |-> None,
          kind |-> "none"]

IdleJob == [pc |-> "new", tries |-> 0, head |-> None, scope |-> {},
            kind |-> "none", verdict |-> "NULL", sessions |-> {}]

\* What a process that ended with pc leaves behind: its attempts, and the
\* channels of its thread.
Ended(j, pc) ==
  [IdleJob EXCEPT !.pc = pc, !.tries = j.tries, !.sessions = j.sessions]

Commits == UNION { CommitsOf[h] : h \in Head }

IsAncestor(h, g) == CommitsOf[h] \subseteq CommitsOf[g]

-----------------------------------------------------------------------------
(* The backend: the SQL of storage/sql.py and storage/sqlite.py *)

\* created_at of a row that is inserted now: later than every other row's.
NextBorn == 1 + Cardinality({ c \in Run : rows[c].born # 0 })

\* Mutant: the query asks for the stage, and sees halted rounds.
CompletedByStage == { c \in Run : rows[c].stage = "completed" }

\* The rows a reader of the history sees: verdict IS NOT NULL.
Completed == { c \in Run : rows[c].verdict # "NULL" }

\* Mutant: the ORDER BY lost its DESC.
OldestCompleted ==
  IF Completed = {} THEN NoRow
  ELSE rows[CHOOSE c \in Completed :
              \A d \in Completed : rows[c].born <= rows[d].born]

\* ORDER BY created_at DESC LIMIT 1.
LatestCompleted ==
  IF Completed = {} THEN NoRow
  ELSE rows[CHOOSE c \in Completed :
              \A d \in Completed : rows[d].born <= rows[c].born]

\* A row keeps the created_at it was inserted with.
CreatedAt(c) == IF rows[c].born = 0 THEN NextBorn ELSE rows[c].born

\* ON CONFLICT: the row keeps its id, created_at and sha, and loses its verdict.
UpsertRunning(c) ==
  rows' = [rows EXCEPT ![c] =
             [born |-> CreatedAt(c), stage |-> "running", verdict |-> "NULL",
              sha |-> @.sha, kind |-> "none"]]

\* Mutant: a halted round is stored with its BLOCKING verdict.
UpsertHaltAsBlocking(c) ==
  /\ rows' = [rows EXCEPT ![c] =
                [born    |-> CreatedAt(c),
                 stage   |-> "completed",
                 verdict |-> IF job[c].kind = "halt" THEN "BLOCKING"
                             ELSE job[c].verdict,
                 sha     |-> job[c].head,
                 kind    |-> job[c].kind]]
  /\ rounds' = rounds \cup {[kind |-> job[c].kind, scope |-> job[c].scope]}

\* The row keeps id and created_at if the flow has one; a CLI run inserts it.
UpsertCompleted(c) ==
  /\ rows' = [rows EXCEPT ![c] =
                [born    |-> CreatedAt(c),
                 stage   |-> "completed",
                 verdict |-> job[c].verdict,
                 sha     |-> job[c].head,
                 kind    |-> job[c].kind]]
  /\ rounds' = rounds \cup {[kind |-> job[c].kind, scope |-> job[c].scope]}

-----------------------------------------------------------------------------
(* The branch *)

Push ==
  /\ pushes < setting.maxPushes
  /\ prHead' \in setting.pushes[prHead]
  /\ pushes' = pushes + 1
  /\ UNCHANGED <<setting, rows, agentRuns, job, rounds>>

-----------------------------------------------------------------------------
(* run_review, seen from the history *)

Over(c) ==
  \/ job[c].pc = "done"
  \/ job[c].pc = "failed" /\ (c \in Local \/ job[c].tries = MaxTries)

MayStart(c) ==
  /\ \/ job[c].pc = "new"
     \/ job[c].pc = "failed" /\ c \in Flow /\ job[c].tries < MaxTries
  /\ setting.overlap \/ \A d \in Run \ {c} : job[d].pc = "new" \/ Over(d)

\* Sessions whose runs are in the agent_runs channel already.
SessionsAtStart(c) == IF PostgresCheckpointer THEN job[c].sessions ELSE {}

\* The running row first, then the head; a CLI run writes no running row.
Start(c) ==
  /\ MayStart(c)
  /\ \/ c \in Flow /\ UpsertRunning(c)
     \/ c \in Flow /\ setting.upsertFails /\ UNCHANGED rows
     \/ c \in Local /\ UNCHANGED rows
  /\ job' = [job EXCEPT ![c] =
               [IdleJob EXCEPT
                  !.pc = "fetch", !.tries = job[c].tries + 1, !.head = prHead,
                  !.sessions = SessionsAtStart(c)]]
  /\ UNCHANGED <<branch, agentRuns, rounds>>

\* _fetch_pr_diff_and_description: round 1 reads the whole pull request, and
\* so does a round whose prior head was rewritten away ("diverged", "behind");
\* any other round reads the commits since the prior head.
Scope(h, priorSha) ==
  IF priorSha = None \/ ~ IsAncestor(priorSha, h) THEN CommitsOf[h]
  ELSE CommitsOf[h] \ CommitsOf[priorSha]

\* _fetch_prior_review; a history that cannot be read means round 1.
FetchPrior(c) ==
  /\ job[c].pc = "fetch"
  /\ \E priorSha \in {LatestCompleted.sha, None} :
       job' = [job EXCEPT ![c].scope = Scope(job[c].head, priorSha),
                          ![c].pc = "review"]
  /\ UNCHANGED <<branch, rows, agentRuns, rounds>>

\* The graph and the gates: a failed session or a fast-fail is BLOCKING, a
\* halt is stored with no verdict; sessions run in the first two kinds.
Decide(c) ==
  /\ job[c].pc = "review"
  /\ \E kind \in Kind, verdict \in {"APPROVE", "BLOCKING", "NULL"} :
       /\ kind = "halt" <=> verdict = "NULL"
       /\ kind \in {"gap", "precheck"} => verdict = "BLOCKING"
       /\ job' = [job EXCEPT
                    ![c].pc = "finalize", ![c].kind = kind,
                    ![c].verdict = verdict,
                    ![c].sessions = IF kind \in {"review", "gap"}
                                    THEN @ \cup {job[c].tries} ELSE @]
  /\ UNCHANGED <<branch, rows, agentRuns, rounds>>

Finalize(c) ==
  /\ job[c].pc = "finalize"
  /\ UpsertCompleted(c)
  /\ job' = [job EXCEPT ![c].pc = IF setting.http THEN "return" ELSE "agent_runs"]
  /\ UNCHANGED <<branch, agentRuns>>

\* Stored by the server, but the answer never arrives: over HTTP this raises.
FinalizeAckLost(c) ==
  /\ setting.http
  /\ job[c].pc = "finalize"
  /\ UpsertCompleted(c)
  /\ job' = [job EXCEPT ![c] = Ended(@, "failed")]
  /\ UNCHANGED <<branch, agentRuns>>

\* Any other backend: the failure is logged and the review returned unstored.
FinalizeLost(c) ==
  /\ ~ setting.http
  /\ job[c].pc = "finalize"
  /\ job' = [job EXCEPT ![c].pc = "return"]
  /\ UNCHANGED <<branch, rows, agentRuns, rounds>>

\* Mutant: a failed insert is tried again, whether or not it was stored.
InsertUntilAcked(c) ==
  /\ job[c].pc = "agent_runs"
  /\ agentRuns' \in
       {agentRuns,
        [agentRuns EXCEPT ![c] = [t \in 1 .. MaxTries |->
           IF t \in job[c].sessions THEN @[t] + 1 ELSE @[t]]]}
  /\ \E pc \in {"agent_runs", "return"} : job' = [job EXCEPT ![c].pc = pc]
  /\ UNCHANGED <<branch, rows, rounds>>

\* Every run the agent_runs channel holds, in one transaction, best effort.
InsertAgentRuns(c) ==
  /\ job[c].pc = "agent_runs"
  /\ agentRuns' \in
       {agentRuns,
        [agentRuns EXCEPT ![c] = [t \in 1 .. MaxTries |->
           IF t \in job[c].sessions THEN @[t] + 1 ELSE @[t]]]}
  /\ job' = [job EXCEPT ![c].pc = "return"]
  /\ UNCHANGED <<branch, rows, rounds>>

Return(c) ==
  /\ job[c].pc = "return"
  /\ job' = [job EXCEPT ![c] = Ended(@, "done")]
  /\ UNCHANGED <<branch, rows, agentRuns, rounds>>

\* A step raised, the watchdog fired, or the worker was killed.
Fail(c) ==
  /\ job[c].pc \notin {"new", "done", "failed"}
  /\ job' = [job EXCEPT ![c] = Ended(@, "failed")]
  /\ UNCHANGED <<branch, rows, agentRuns, rounds>>

Init ==
  /\ setting \in Settings
  /\ prHead \in Head /\ pushes = 0
  /\ rows = [c \in Run |-> NoRow]
  /\ agentRuns = [c \in Run |-> [t \in 1 .. MaxTries |-> 0]]
  /\ job = [c \in Run |-> IdleJob]
  /\ rounds = {}

Next ==
  \/ Push
  \/ \E c \in Run :
       \/ Start(c) \/ FetchPrior(c) \/ Decide(c)
       \/ Finalize(c) \/ FinalizeAckLost(c) \/ FinalizeLost(c)
       \/ InsertAgentRuns(c) \/ Return(c) \/ Fail(c)

Spec == Init /\ [][Next]_vars

-----------------------------------------------------------------------------
(* Properties *)

\* Rows and processes keep their shape.
TypeOK ==
  /\ setting \in Settings
  /\ prHead \in Head /\ pushes \in 0 .. setting.maxPushes
  /\ rows \in [Run -> Row \cup {NoRow}]
  /\ agentRuns \in [Run -> [1 .. MaxTries -> 0 .. MaxTries]]
  /\ job \in [Run -> [pc : {"new", "fetch", "review", "finalize", "agent_runs",
                            "return", "done", "failed"},
                      tries : 0 .. MaxTries, head : Head \cup {None},
                      scope : SUBSET Commits, kind : Kind \cup {"none"},
                      verdict : {"NULL", "APPROVE", "BLOCKING"},
                      sessions : SUBSET (1 .. MaxTries)]]
  /\ rounds \subseteq [kind : Kind, scope : SUBSET Commits]

Scoped(kinds) == UNION { r.scope : r \in { x \in rounds : x.kind \in kinds } }

Approved == { c \in Run : rows[c].verdict = "APPROVE" }

\* graph.py _fetch_pr_diff_and_description, STORAGE "Halted rounds": rounds
\* read only what came after the last one, through retries, rewrites of the
\* branch and overlapping runs, and still every commit of a head that is
\* approved was in the diff of some round that was not halted.
ChainUnbroken ==
  \A c \in Approved :
    CommitsOf[rows[c].sha] \subseteq Scoped({"review", "gap", "precheck"})

\* README "Using Argus": round 2+ is "scoped to just the commits since the last
\* review"; a round the prechecks stopped before any session reviewed nothing.
ScopedSinceLastReview ==
  \A c \in Approved :
    CommitsOf[rows[c].sha] \subseteq Scoped({"review", "gap"})

\* STORAGE "Halted rounds": "a halt never moves the last reviewed SHA or the
\* round count", unless the running upsert of its attempt was lost.
HaltMovesNothing ==
  [][~ setting.upsertFails =>\A c \in Run :
       rows'[c] # rows[c] /\ rows'[c].kind = "halt" =>
         /\ LatestCompleted'.sha = LatestCompleted.sha
         /\ Cardinality(Completed') = Cardinality(Completed)]_vars

\* sql.select_latest_completed_round: the round a CI gate reads is "the most
\* recent completed round": no other completed round is of a newer head, when
\* rounds do not overlap and the branch only grows.
LatestIsOfNewestHead ==
  ~ setting.overlap /\ (\A h \in Head : \A g \in setting.pushes[h] : IsAncestor(h, g)) =>
  \A c \in Completed :
    ~ (/\ IsAncestor(LatestCompleted.sha, rows[c].sha)
       /\ LatestCompleted.sha # rows[c].sha)

\* STORAGE: agent_runs holds "one row per reviewer session within a round":
\* a retried flow stores no session twice.
SessionsStoredOnce ==
  \A c \in Run, t \in 1 .. MaxTries : agentRuns[c][t] <= 1

\* How many attempts have had the sessions of attempt t in their channel: that
\* attempt, and with a checkpointer that keeps channels every one after it.
AttemptsHolding(c, t) ==
  IF t > job[c].tries THEN 0
  ELSE IF PostgresCheckpointer THEN job[c].tries - t + 1 ELSE 1

\* graph.py _insert_agent_runs, storage/sqlite.py insert_agent_runs: over crashes,
\* lost answers and retries an attempt stores what its channel holds at most once,
\* so a session is in agent_runs no oftener than attempts held it.
StoredOncePerAttempt ==
  \A c \in Run, t \in 1 .. MaxTries : agentRuns[c][t] <= AttemptsHolding(c, t)

=============================================================================
