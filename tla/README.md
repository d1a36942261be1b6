# Argus in TLA+

A specification of argus (`src/argus`), the code reviewer that fans a pull
request out to language-model reviewers, turns what they report into one
APPROVE or BLOCKING answer and keeps a history of its rounds. The modules here
say what that answer may be after a crash, a retry, a push in the middle of a
review, an overlapping run or a reviewer session that never came back. TLC
checks them on small instances; TLAPS proves the safety properties they
check for every value of the constants.

Every line reference below is to the repository this directory documents.

## 1. The system

### Parts, state, operations

| Part | Source | State it keeps | Operations |
|---|---|---|---|
| Review pipeline | `graph.py` | LangGraph channels (`ReviewState`, 224-264), kept by a checkpointer under `thread_id = flow_run_id` | one node per step: `fetch_diff`, `precheck_checks`, `precheck_rules`, `precheck_fail`, `scope_gate`, `early_verifier`, `preflight`, `lite_review`, `plan`, `run_reviewer`, `collect_findings`, `check_coverage`, `run_gap_reviewer`, `write_review`, `validate_blockings`; `run_review` (3610-4039) before and after the graph |
| Response gates | `helpers.py` 175-730 | none: functions of a response | scanner gate, coverage-gap findings, reviewer-failure gate, bench gate, persisted counts |
| Scope gate | `scope.py` | the receipt | validate the partition, count the dispatch, halt, demand a receipt |
| Round history | `storage/sql.py`, `storage/sqlite.py`, `storage/http.py`, `storage/resolver.py` | tables `code_reviews`, `agent_runs` | running upsert, completed upsert, latest and count of completed rounds, insert agent runs |
| Worktrees | `repo_provision.py` | mirrors and worktrees on disk | clone or reuse a mirror, fetch a SHA, add, verify and remove a worktree |
| Reviewer sessions | `runners.py` | a thread pool, worker processes, their process groups, result pipes and ledger files | run a session under a deadline, kill its process group, read its result, remove its ledger |
| Gemini and OpenAI sessions | `gemini_runner.py`, `gemini_cache.py`, `openai_runner.py`, `review_tools.py` | turns, replies and calls of a session, its sink of findings, a cache record on disk and its lock | ask, repeat, start over, execute tools, spend the budget, create and invalidate the cache |
| Precheck engine | `precheck/`, `storage/precheck.py` | scanner processes; `precheck_rules`, `precheck_candidate_firings` | run scanners, scope, classify and cap what they find, name the failed ones, log firings |
| GitHub client | `github_client.py` | none; GitHub's comments and statuses | page through lists, list changed files, find and write the comment, set the status |
| CLI | `cli.py` | the watchdog timer | post a review and exit by what was delivered; sweep stale directories, exit after 3600 s |
| Usage ledger, factories, prompts, configuration | `llm/`, `prompts_runtime.py`, `config.py` | sums, clients, text | bookkeeping; no decision depends on it |

### How they interact

An orchestrator (or the CLI) calls `run_review`. It writes a *running* row,
resolves the head of the pull request once, provisions a worktree at that head
and invokes the graph. Nodes hand values to each other only through channels;
the `findings` and `agent_runs` channels append, all others are overwritten.
`plan` and `check_coverage` fan out into supersteps of parallel reviewer tasks
which the next node joins. Three nodes may *halt* by writing a `halt` response;
the edge behind each ends the graph. `run_review` then applies the gates in a
fixed order, demands a receipt for an APPROVE, stores the completed row, inserts
the agent runs and returns. The next round of the same pull request reads the
latest completed row and diffs from its sha.

### What is hard here

* **Retries on old state.** With a Postgres checkpointer a retried flow starts at
  START on top of the channels of the attempt before, possibly for another head.
  `_node_fetch_diff` resets two channels (2584-2602); the others stay.
* **Partial failure.** A reviewer that crashes leaves a marker; the coverage check,
  the writer and the validator run on, and only the gates turn it into a BLOCKING.
* **A moving head.** Commits arrive during a review; receipts and overrides name a head.
* **Two limits, two fan-outs.** The budget can be overridden, the ceiling cannot, and
  the gap fill is a second fan-out sized by a model.
* **Crashes between two writes.** The running upsert withdraws the verdict of the row it
  meets; the completed upsert may be lost, or stored and still raise (HTTP).
* **A shared table.** Rounds of one pull request overlap; `created_at` is kept over a
  retry; halted and fast-failed rounds sit among the reviewed ones.
* **Text as identity.** The validator drops findings by their description.
* **Processes and deadlines.** Sessions, clones and scanners are child processes with
  timeouts and children of their own; a clone outlives the run that started it, a killed
  semgrep leaves `semgrep-core` with its pipes, and the parent of a session joins it
  before it reads what it wrote.
* **Loops with several budgets.** A model session counts turns, replies, a restarted
  attempt and repeated requests; a failing tool call must not end or extend it.
* **Remote state.** GitHub's lists come in pages and are cut off, the head moves between
  two calls, a write that was taken may look like an error; a cache at the provider is
  gone while its record still looks good.
* **A shared disk without a lock.** Runs of one host clone, remove and reuse one mirror
  by its path, and a watchdog sweeps the temporary directories of all of them.

### What makes each part correct

| Part | Correct when |
|---|---|
| Pipeline | an APPROVE is earned by this attempt; a halt stops the work; a failed session blocks; the dispatch is bounded; every attempt ends |
| Gates | they only strengthen; they report each outage once; they explain the verdicts they turn |
| History | every commit of an approved head was in the diff of some reviewed round; a halt moves nothing; the latest round is of the newest head; a session is stored once |
| Worktrees | a review reads exactly the head it resolved; no run takes away another's tree |
| Sessions | a timeout leaves nothing alive and kills nothing else; an answer is read whole or not at all; every submitted session ends |
| Model sessions | the budget bounds the replies; a session completes only when it was meant to; findings survive; the cache is created once per loss |
| Prechecks | a verified finding is never cut off; a failed scanner is named; no scanner is left running, cancelled or not; the scans end |
| GitHub client | no head that changes the bench is approved on a list that was cut off; a success status sits on a commit that was approved; one comment |

## 2. The modules

| Module | What it is |
|---|---|
| `ResponseGates` | operators: the validator's partition and the four gates, as functions of a response |
| `GateRound` (`MCGateRound`) | every response a model may write, taken through the validator and the gates |
| `ReviewPipeline` (`MCReviewPipeline`) | one flow: `run_review` and the graph, attempt after attempt, with crashes and pushes |
| `ReviewContract` | the abstract promise of a flow: at most one decision per attempt, stored and returned as taken |
| `RoundHistory` (`MCRoundHistory`) | the rounds of one pull request by several flows and CLI runs, on the shared tables |
| `Workspace` | the mirror and the worktrees that runs of one host share |
| `SessionProcess` | the sessions of one parent: pool threads, worker processes, groups, pipes, ledgers |
| `ModelTurns` (`MCModelTurns`) | Gemini and OpenAI sessions turn by turn, and the cache record they share |
| `GitHubClient` (`MCGitHubClient`) | CLI runs that read a pull request in pages and post their verdicts |
| `Prechecks` (`MCPrechecks`) | one round of scanners, its result and the rule tables |
| `GateRoundProofs`, `ReviewPipelineProofs`, `RoundHistoryProofs`, `WorkspaceProofs`, `SessionProcessProofs`, `ModelTurnsProofs`, `GitHubClientProofs`, `PrechecksProofs` | theorems about the module each is named for |

`ReviewPipeline` EXTENDS `ResponseGates` and instantiates `ReviewContract` with a
refinement mapping. The other modules look into what `ReviewPipeline` takes in one step:
`RunReviewer` ends with a result or a marker (`SessionProcess`, `ModelTurns`), the
worktree is of the head or the attempt fails (`Workspace`), the precheck node gets hits
and failed scanners (`Prechecks`), the bench guard gets a list or fails closed
(`GitHubClient`). `RoundHistory` replaces the graph by one step with four outcomes
(review, review with a gap, precheck fast-fail, halt): which of them the graph may take
is the subject of `ReviewPipeline`.

### ResponseGates and GateRound

A response is a record of verdict, risk, findings and dropped findings. A finding
has a `ref` (which one it is) and a `desc` (the text the code compares); bodies
are left out. `Gated` is the order of `run_review` (3798-3850): scanner gate,
coverage-gap findings, reviewer gate, bench gate. `GateRound` starts from every
response over the chosen issues and lets the validator step be skipped, as the
lite path and the fast-fail do.

### ReviewPipeline

One action per node; the edge behind a node belongs to its action, because it
reads the state that node just wrote. What a model, GitHub or a scanner answers is
chosen with `\E`. A superstep is `tasks` (still running) and `written` (finished,
not yet committed); `CommitSuperstep` appends to `results`, and a crash before it
loses `written`, as LangGraph does. `StepRaises` and `WorkerDies` end an attempt;
`BeginAttempt` starts the next one with the channels as they are
(`PostgresCheckpointer`) or empty (the SQLite file of a process that is gone).

| State | Code |
|---|---|
| `prior, bench, fastFail, badScanners, scope, verification, isLite, results, response` | the channels of `ReviewState` the control depends on |
| `head` | `head_sha_for_worktree` of `run_review` |
| `override, expected` | `review_override_sha`, `expect_head_sha`, the same on every attempt |
| `row` | the flow's row in `code_reviews` |
| `outcome` | the response, receipt and version after the gates, and how the attempt ended |
| `at` fields, the number in `fastFail` | bookkeeping: the attempt that wrote a value. No guard reads them |

Not in the model: the text of findings and comments, costs, the CI signal, the
dismissals of earlier findings (they change what the prompts say) and the
description of the pull request. `parse_review_result` decides whether a session's
output counts as completed; here that is the Boolean `ok`.

### RoundHistory

A head is the set of the pull request's commits it contains, so "ancestor" is
inclusion; a rebase leads to a set with other commits. `Scope` is the rule of
`_fetch_pr_diff_and_description`: diff from the prior head while it is an ancestor,
else from the merge base with the base branch. `setting` is chosen once from `Settings`:
how the branch may move, whether rounds overlap, whether the running upsert may be lost
and whether the backend is the HTTP one. `rounds` is a history variable: the diff and
outcome of every round ever stored.

### Workspace

Several runs of one repository on one host. A run's `pc` is the call it makes next, one
git command or one file operation, and other runs take their steps between any two.
`mirror` is what is at the shared path: a directory git has just made, a repository that
is not complete, a whole one; whether the sentinel is there; whose heads are in the
store and whose worktrees are registered. A clone is an actor of its own (`clones`): it
goes on after its run is gone, is killed by the time limit without removing anything,
and when it fails removes what is at its path, whoever put it there.
`held` are the runs that have killed a git at its time limit and wait, with no limit, for
the pipes which a process that git had started keeps open (`repo_provision.py` 168-170);
`Released` is the end of that process, which nothing forces. `rev-parse` starts none.
`answered`, `spilled` and `swept` are bookkeeping no guard of a run's own steps but
`CleanUp` reads (it ends the review with the answer it has).

Left out: authentication and its temporary file, redaction, and the files a
`rmtree(ignore_errors=True)` of a run's own directory may fail to remove.

### SessionProcess

`thread` is where the pool's thread stands in `_run_session_in_subprocess`: start, join
with the timeout, kill and reap, unlink, or receive. `worker` is the child: *starting*
until `setsid` has run, then leader of its own group, in its session, sending, blocked in
a write that does not fit into the pipe, exiting, dead, reaped. `KillTargets` is whom the
signal of `_kill_process_group` reaches. A process id is free again once its worker was
joined, which is before the parent removes the ledger of that id. Workers hang, crash or
are killed from outside at any step, and the parent may exit at any step.

One thing is coarser than the code: `getpgid` and the signal are one step. A worker that
slept over its whole timeout would have to lead a group and start a CLI between the two.

### ModelTurns

One action per request, reply, tool call and cache step. `place` is the await a session
stands at; `job` is what its thread does with the cache record, which goes on when the
session has timed out. `progress` counts replies and calls over both attempts, as
`_Progress` does; `sink` holds the findings of the current attempt. A reply is one of two
sequences of calls: a finding and a correct `finish_review`, or both with arguments that
make them fail. `UseRecord`, `FindNoRecord`, `CreateCache`, `CreateFails` and
`InvalidateRecord` are `GeminiCacheKeeper` under its file lock, `RecordUnreachable` a disk
that fails it; `RecordExpires` and `CacheDies` are the local clock and the provider, which
do not agree.

Left out: usage and cost, the text of prompts and replies, and the tools that read the
worktree.

### GitHubClient

A run pins a head, lists its files (compare endpoint up to its cap, else the list of the
pull request page by page), judges, looks for the marker comment page by page, writes it,
and sets the status. Pushes, comments of others and deletions come between any two calls.
A write is taken or not, and answered or not, independently of each other. `Judge` stands
for the whole review: any verdict the bench guard allows. A file is listed under one name:
the former name of a renamed file, which the code counts as changed too, is left out.

### Prechecks

Scanners run at once as children; `core` is the grandchild of semgrep. A child exits with
a code and an output, which may be no JSON, JSON of the wrong shape, or zizmor's word that
there is nothing to audit, or is timed out or cancelled, and is then killed and drained for
a bounded time.

`task` is what asyncio has told each scan. `Cancel` cancels the node's task, and the gather
hands that to every scan (`precheck/engine.py` 691, without `return_exceptions`). A scan
learns it at its own next step (`Deliver`), which kills its child; a second cancellation
cuts the drain off. `Cancelled` ends the gather, and the node, with the *first* scan that
ends with the error: the others may still be killing and draining, or not even know yet, so
the properties follow them past the end of the node. A cancelled task always gets its error
at its next step (Python 3.12, which `pyproject.toml` demands).

`Classified` is `run_precheck` after the gather:
scope, statuses, cap, in the code's order. What scanners find are sets: the code's lists
are in the order the scanners print, which nothing fixes, and may name one finding twice.
So the cap, which cuts the list at its limit, may leave any subset within the limit that
is not empty unless there was nothing (`Capped`), and `Classified` is the set of results
that may come of it. `Triage` is the external job that decides on rules.

Left out: the arguments of the scanners, the offline shadow review (`shadow.py`), and a
cancellation during the node's two database calls, when no scanner is left.

## 3. The runs

| Run | Instance | Checks |
|---|---|---|
| `gates` | 2 issues, 2 sessions, 2 scanners, all verdicts, risks, severities | the gates over every input |
| `pipeline_override` | 2 heads, 1 issue, 3 planned reviewers, budget 3, ceiling 4, HTTP history | every route but the gap fill; pinned flows; plans below, at and above both limits |
| `pipeline_retry` | 2 heads, 1 push, 2 attempts, Postgres checkpointer | stale channels; refinement of `ReviewContract` |
| `pipeline_gaps` | 1 attempt, up to 4 gap fills, ceiling 3, weak fairness | the second fan-out, below and above the ceiling; termination |
| `history` | one flow (2 tries, Postgres checkpointer) and one CLI run, in two settings | the chain of diffs; agent runs; the latest round; halts |
| `workspace` | 2 runs, any leftover mirror, weak fairness | trees of peers, leaks, termination |
| `session` | 2 sessions, 2 process ids, 2 threads, weak fairness | kills, answers, ledgers, termination |
| `turns` | 2 Gemini sessions that share a cache record, or 1 of OpenAI; 2 turns and 1 | budgets, findings, completion, the cache |
| `delivery` | 2 CLI runs, 2 heads, pages of 2, caps of 2 and 4 files | file lists, comment, status |
| `prechecks` | two at most of semgrep, squawk and zizmor; 2 rules, a cap of 1, weak fairness | failures, abandoned scanners, verified findings; the scans and their children end, also after a cancellation |
| `retry_fastfail` | `pipeline_retry` without pushes and findings | `FreshFastFail`, which the code breaks (section 6) |
| `session_completed` | the instance of `session` | `CompletedIsNotTimedOut`, which the code breaks (section 6) |

The two settings of `history`: overlapping rounds on a branch that is pushed to, rebased
and rewound, with running upserts that may be lost; and rounds one after another over
HTTP on a branch of three heads that only grows.

### Properties

* `GateRound`: `NeverLooser` (a gate lowers nothing and loses no finding),
  `EachGapReportedOnce`, `ApproveIsClean`, `BlockingIsExplained` (an APPROVE turned
  into BLOCKING carries a BLOCKING finding).
* `ReviewPipeline`: `ApproveIsEarned`, `AnswerIsCurrent`, `FailedSessionBlocks`,
  `DispatchBounded`, `HaltStopsWork`, `AttemptEnds`, `ImplementsContract`;
  `FreshFastFail`, which the code breaks.
* `RoundHistory`: `ChainUnbroken`, `StoredOncePerAttempt` (a session is in `agent_runs` no
  oftener than attempts held it), `LatestIsOfNewestHead`, `HaltMovesNothing`.
* `Workspace`: `PeersLeaveTrees`, `NothingLeft`, `RunsEnd` (a run ends, or waits for ever
  for pipes a killed git has left open).
* `SessionProcess`: `TimeoutLeavesNothing`, `KillStaysInTheSession` (a timeout that meets
  a worker before `setsid` reaches neither the parent nor a sibling), `AnswerIsWhole`,
  `LedgerIsRemoved`, `SessionsEnd`; `CompletedIsNotTimedOut`, which the code breaks.
* `ModelTurns`: `BudgetHolds`, `CompletionIsMeant`, `FindingsSurvive` (over the restart of
  a session too), `OneCachePerLoss` (two sessions never both create the cache),
  `ThreadsFinish`.
* `GitHubClient`: `BenchGuardHolds`, `ApprovalIsReviewed`, `OneComment`.
* `Prechecks`: `VerifiedIsNeverCapped`, `FailuresAreNamed`, `NoChildIsAbandoned` (what runs
  for a scan always has one that will collect or kill it, though the node may have ended),
  `ChildrenEnd`, `ScansEnd`.

A few properties more are defined in the modules and are in no run: statements of a doc or a
comment the code does not keep. Section 6 lists them.

Each module has one type invariant, `TypeOK`, and all of them are proved. The runs
`pipeline_override`, `session` and `delivery` check theirs, where it says more than shapes
(no two workers have one process id, no list names a file twice).

Every property of a passing run has a mutant in `PROJECT.json`: a changed
definition, marked "Mutant" in the module, under which TLC finds the property
violated.

### Bounds, and why they are enough

* `MaxAttempts = 2`: a retry can only meet what one earlier attempt left; a third
  attempt meets the same kinds of channel values. The proofs have no such bound.
* Two heads: the one under review and one that differs from it. A push matters between two
  attempts (`pipeline_retry`); within one the head is resolved once. Three
  heads in `RoundHistory`: ancestor, descendant, rewritten.
* Two always-on reviewers are what the code dispatches. Up to three planned ones reach
  below, at and above the budget and the ceiling; four gap fills exceed the ceiling of 3.
* `PlanAttempts = 2` (the code has 3): a retry that succeeds and one that gives up.
* Two runs in `Workspace`: what a third can do to the mirror, one of the two can do or an
  earlier run has left. The invariants hold for three as well (1.9 million states).
* Risk is only LOW in the pipeline runs: only the gates read it, and `gates` checks
  all four levels.
* Two sessions, two ids, two threads in `SessionProcess`: one that is killed beside one
  that works, and an id that is used again by the next worker.
* `MaxTurns` 2 and 1: a turn after the first, and a budget of one that is spent at once.
  `MaxCaches = 2`: a cache, and one more after it was lost; at the bound a creation can
  only fail (the properties hold for 3 as well, with 1.4 million states). `Replies` are two: calls that succeed and calls that fail.
* `CompareCap = 2`, `PerPage = 2`, `MaxFiles = 4` stand for 300, 100 and 3000: one head's
  list exceeds both caps and its bench file is the one cut off, the other's exceeds the
  first. Comments of others fill a page (`MaxOthers = 2`), so the marker comment may be on
  the second one.
* `MaxStarted = 2` of three scanners: scanners meet in the gather and in its result only, two
  at a time, and the third is absent, without files or not spawned. No eslint is among them,
  the one scanner of `ParseToNone`: JSON of another shape is no result either, and takes the
  same way.
* `Printable` has one report: two findings in the changed file, one of
  each rule, one outside it and one in no file. One rule is verified from the start
  and the other a candidate or unknown, so a cap before the classification
  (`MaxResults = 1`) cuts the verified finding off.
* Symmetry: reviewers of one kind, sessions and scanners of `GateRound`, runs of
  `RoundHistory` and `GitHubClient`, and heads where no flow is pinned to one of them. The
  runs with liveness use none.
* `CHECK_DEADLOCK FALSE` everywhere: a flow that returned, or used up its attempts, stops.

### Fairness

`FairSpec` is weak fairness of `Step`, the steps of an attempt nothing interrupts.
Every external call a node makes carries a timeout and the CLI's watchdog exits a
worker that stalls for an hour (`cli.py` 110-137), so an enabled step is taken or
replaced by a failure. Two things are thereby assumed of an attempt and looked at elsewhere:
that each session answers or fails (`SessionsEnd` shows it of the sessions in a worker
process) and that provisioning returns, which without the watchdog it may not (`held` of
`Workspace`). Nothing forces the orchestrator to retry, a push to happen
or a worker to die.

In `Workspace` the steps of a run that is not held and the kill of a clone are weakly fair:
`_run_git` kills every command at its limit (60 and 300 s, `repo_provision.py` 166-168).
That a clone makes progress, completes or fails is not: it may hang, and the limit ends it.
Nor is `Released`: the wait after the kill has no limit, so `RunsEnd` has it as the one way
not to end; that a run may take it is what `TimeoutBoundsTheWait` is violated by (section 6).

In `SessionProcess` the steps of a pool thread are weakly fair: it runs, and its join ends
at the timeout (`runners.py` 1418). Nothing is asked of a worker, which may hang for ever.
In `ModelTurns` the threads on the cache record are: a creation that hangs ends at the
HTTP client's timeout; that the disk fails is nothing they may wait for. Sessions themselves may stop anywhere; their timeout is an action
nothing forces. In `Prechecks` the event loop and the timeouts of the scans are: no child
has to exit, and `semgrep-core` may keep its pipes for ever. The two calls of the database
behind the scans, which read the statuses and log the firings, have no limit of their own in
the code; `ScansEnd` assumes that they return.

## 4. What is proved

All theorems hold for every set of heads, reviewers, issues, runs, sessions, files and
scanners and every bound, under the named assumptions of the modules:

* `SetsAssumption`, `ReviewersAssumption`, `BoundsAssumption`, `SwitchesAssumption` of
  `ReviewPipeline`: `None` is neither a head nor a decision, the planned and the gap-fill
  reviewers are finite sets, the always-on reviewers two, and the budget is between 3, as
  `config.py:197` demands, and the ceiling.
* `SettingsAssumption`, `RunsAssumption`, `BoundsAssumption` of `RoundHistory`: heads differ
  in their commits, a push leads to heads, the flows and CLI runs are finitely many and
  nobody is both.
* `WorkspaceAssumption`, `SessionAssumption`: `None` is no run, no session and no process id.
* `TurnsAssumption`: every session has at least one turn, and `None` is neither a number nor
  a session.
* `ClientAssumption`: the caps and the page size are positive, the length of the list is cut
  off at a whole number of pages (3000 and 100), no list of a head names a file twice (GitHub
  lists a changed file once), and `None` is neither a commit nor a run.
* `PrecheckAssumption`: a finding is of some rule, the cap is positive, and `None` is neither
  an output nor a status.

An invariant is seldom inductive as it stands. Each module of proofs starts with the one
that is, and TLC checked it on the instance of the module's run before it was proved.

### Gates and pipeline

`GateRoundProofs`: `TypeCorrect`, `GatesNeverLoosen`, `ApprovalsAreClean`,
`TurnedVerdictsAreExplained`, `GapsAreReportedOnce`. `ApprovalsAreClean` is about failed
sessions, failed scanners and the bench; that an APPROVE has no BLOCKING finding is not
claimed, since a writer's answer whose validator was skipped keeps the verdict it came with.

`ReviewPipelineProofs`, along one inductive invariant

    Inv == TypeOK /\ Progress /\ Deciding /\ Decided

* `Progress`: an attempt under way has a number, past `resolve` it has a head, and no
  task exists outside the two fan-outs.
* `Deciding`: what a node finds in the channels. Between `fetch_diff` and the scope
  gate both decision channels are empty; from the receipt to the answer the response is
  empty and the receipt is of this attempt and head; after it the response is of this
  attempt, and a halt is BLOCKING. This is what the reset in `fetch_diff` buys: without
  it the clause for the first nodes fails on the first retry.
* `Decided`: while storing, and after the return, the outcome is the gated response with
  that receipt, and nothing stands against an APPROVE.

`AnswerIsCurrent` alone is not inductive: it says nothing of channels while the
graph runs. TLC checked `Inv` on the `pipeline_retry` instance before it was proved.

| Theorem | States |
|---|---|
| `TypeCorrect` | `Spec => []TypeOK` |
| `AnswersAreCurrent` | `Spec => []AnswerIsCurrent` |
| `ApprovalsAreEarned` | `Spec => []ApproveIsEarned` |
| `HaltsStopWork` | `Spec => HaltStopsWork` |
| `FailedSessionsBlock` | `Spec => []FailedSessionBlocks` |
| `DispatchesAreBounded` | `Spec => []DispatchBounded` |
| `PipelineImplementsContract` | `Spec => ImplementsContract` |

The lemma about the gates, `GatedResponse`, follows a response through the four
gates in their order and is where an APPROVE loses everything that could stand
against it. `GatedGaps` follows the marker of a failed session through the same gates: the
reviewer gate promotes it and the bench gate keeps it. `FailedSessionsBlock` carries that
from the gates to the return (`FailuresTold`). The refinement maps a node to a stutter,
the gates to `CDecide`, the completed upsert to `CStore`, the return to `CReturn`, and
every failure to `CAbort`.

### Round history

`RoundHistoryProofs`, along `Inv == TypeOK /\ RowsInOrder /\ JobsInOrder /\ Chained`:

* `RowsInOrder`: `created_at` tells any two rows apart, and a row with a verdict has a head.
* `JobsInOrder`: what a run has at each step, and that its agent runs were inserted at most
  once in each attempt.
* `Chained`: every commit of a completed head was in some reviewed diff; every commit of a
  head *under review* is in this round's diff or was in such a diff. `ChainUnbroken` speaks
  of the first alone and says nothing of a run that has read its prior head and has not
  finalized yet, while other runs complete rows and the branch is rewritten.

| Theorem | States | Further invariant |
|---|---|---|
| `TypeCorrect` | `Spec => []TypeOK` | |
| `ApprovedWasRead` | `Spec => []ChainUnbroken` | |
| `LatestIsNewest` | `Spec => []LatestIsOfNewestHead` | `Serial`: without overlap one run is active, its row is the newest, and heads complete in the order of the branch |
| `HaltsMoveNothing` | `Spec => HaltMovesNothing` | `Withdrawn`: when the running upsert works, a run at work has no verdict |
| `StoredOnce` | `Spec => []StoredOncePerAttempt` | `OwnSessions`: which sessions an attempt may hold, and that they are stored once less than they may be while it has still to insert them |

`StoredOnce` has no hypothesis: without the Postgres checkpointer its bound is 1, with it the
number of attempts that held the session, and the code reaches it (section 6). Rows
are finitely many, and the lemma `LatestExists` gets the newest of them from the library's
well-founded order on the naturals.

### Worktrees

`WorkspaceProofs`, along `TypeOK` and `Place(c)` for every run: it has no directory before
the call that makes one, a whole tree once git has checked it out, and none again when it
has ended in order. Only `OthersStay` reasons about two runs: no step but the watchdog's
touches another run's directory, whatever it does to the mirror both use. That is the
argument why the trees are safe although the mirror is not. Proved are `TypeCorrect`,
`PeersLeaveTreesAlone` (`PeersLeaveTrees`) and `RunsLeaveNothing` (`NothingLeft`).

### Sessions

`SessionProcessProofs`, along `Inv == TypeOK /\ parent # "killed" /\ ThreadsAndWorkers /\
WordsAndPipes /\ LedgersAndIds`: where a thread stands tells what is left of its worker;
what is in a pipe is what was said; a ledger carries its worker's id and waits for the
unlink at most. None of the five properties is inductive without the first of these. The
lemma `KillReaches` is what `setsid` and the comparison of the group with the pid buy: the
signal takes one worker, with its CLI when there is one. Proved are `TypeCorrect`,
`TimeoutsLeaveNothing`, `KillsStayInTheSession`, `AnswersAreWhole` and
`LedgersAreRemoved`; TLC checked `Inv` on the instance of the run `session` first.

`ModelTurnsProofs`, along `TypeOK`, `Accounted` and, for every session, `InTurn`, `InSink`
and `Told`:

* `InTurn`: a session counts one reply per turn, none when it is started over; its thread is
  at work only while the session waits for it or after its end.
* `InSink`: the sink holds what was reported, and a session without a reply has reported
  nothing. So starting over, which the code allows only before the first reply, loses
  nothing.
* `Told`: what the result says of the attempt it ended.
* `Accounted`: with a usable record at most one cache more than were lost, without one not
  even that; and while a thread holds the lock nobody stores a record. The second clause is
  what `OneCachePerLoss` lacks to be inductive: a creation needs room for one.

Proved are `TypeCorrect`, `BudgetsHold` (`BudgetHolds`), `NoFindingIsLost`
(`FindingsSurvive`), `CompletionsAreMeant` (`CompletionIsMeant`) and `NoCacheTwice`
(`OneCachePerLoss`). `MaxCaches` bounds the instance only; the theorem is for every value.

### Prechecks

`PrechecksProofs`, along `TypeOK`, `Printed` (a child that has exited has printed something),
`NoChildIsAbandoned`, `ToldToStop` (a scan that ends with its cancellation has killed its
child, and none is told anything before the node was cancelled), `Accounts` (while it scans: a scanner that is done is missing, has no file, has failed, or
came to a successful exit) and `FailuresAreNamed`. Proved are `TypeCorrect`, `NoChildIsLeft`
(`NoChildIsAbandoned`), `NoFailureIsSilent` (`FailuresAreNamed`) and `VerifiedAreKept`
(`VerifiedIsNeverCapped`, an action property: the step that classifies keeps each verified
finding of every scanner's batch, whatever the cap).

### GitHub

`GitHubClientProofs` has an invariant for each of its three questions:

* the status, `Inv == Shapes /\ Judging /\ ApprovalIsReviewed`: an approval has a scope, so
  its status goes to the pinned head, and a run sets no status before it has judged, so
  neither its head nor its verdict changes afterwards (`ApprovalsAreReviewed`);
* the lists, `Listed(r)` for every run whose head did not move: what it has is a beginning of
  the head's list, before page *n* exactly the first *n - 1* pages, and when it judges the
  whole list unless it is unconfirmed, in which case the guard fails closed
  (`GuardHolds`, `Spec => []BenchGuardHolds`);
* the comment, `CommentShapes` and `Looked`: comments have ids of their own, the run between
  its search and its write is alone, has not passed over the comment of Argus, and creates
  one only when there is none. A run whose write was taken and looks like an error does not
  write again, and the next run finds the comment (`CommentIsOne`, `Spec => []OneComment`).

The lemmas on pages (`PageArithmetic`, `BeginningOf`, `PageElements`, `PageIsAdded`) say of
`SubSeq` and concatenation that a beginning of a list and its next page are a beginning
again. `TypeCorrect` combines the three.

## 5. What is only model-checked

Liveness (`AttemptEnds`, `RunsEnd`, `SessionsEnd`, `ThreadsFinish`, `ScansEnd`,
`ChildrenEnd`): fairness and ENABLED are out of the prover's reach. Every invariant and
action property of a passing run has a theorem. The two runs of section 6 that end in a
counterexample state what does not hold, and have nothing to prove.

What no theorem reaches either: that an external answer chosen with `\E` is one the
outside world may give, and the parts section 7 lists as not modelled.

## 6. Where the code and its text differ

Two have a run that finds them.

1. `retry_fastfail` - the precheck fast-fail of an earlier attempt decides a retry
   (`graph.py` 2596, 1770): `fetch_diff` resets `response` and `scope` and leaves
   `precheck_fast_fail`.
2. `session_completed` - a session that completed with a result larger than the pipe's
   buffer waits in `send` for a reader who waits in `join` (`runners.py` 1418, 1436), and
   is killed and stored as `timeout`. `schema/016_add_agent_runs_failure_reason.sql` 9:
   "NULL means the run completed normally"; `docs/STORAGE.md` 80-82 says the column tells
   the two apart.

Met while modelling, and not in the runs. Where a definition is named, the module has it,
and TLC finds it violated when it takes the place of the run's properties; the instance is
the run's own unless another is given.

* Pipeline. A round the hard gates sent down the full path is stored as `v3-lite`: `is_lite`
  is written before the gates decide (`graph.py` 3773; `VersionTellsThePath`). With
  Postgres, `collect_findings` counts the successes of earlier attempts, so "all reviewers
  failed" does not raise on a retry (`graph.py` 2976; `SomeReviewerSucceeded`). A verifier
  that timed out returns no items (`runners.py` 1194), and a round without open items may
  take the lite path (`graph.py` 2329, 2372).
* Gates. The validator matches rejected findings by their description (`graph.py`
  3213-3217): a BLOCKING it confirmed leaves with a rejected one of the same text, is not
  among the dropped ones, and the verdict is recomputed without it. The docstring at 3160
  speaks of the rejected ones (`OnlyRejectedAreDropped`, with `SameText` for `OwnText` in
  `MCGateRound.cfg`). With texts of their own the property says no more than the filter.
* History. A retry on its Postgres checkpoint inserts the agent runs of the attempt before
  again: the channel appends and the table has no key on the session (`storage/sqlite.py`
  645-678). `docs/STORAGE.md` 41: "one row per reviewer session within a round"
  (`SessionsStoredOnce`). A fast-fail reviewed nothing and still moves the base of the next
  diff (`graph.py` 1778; README.md:224; `ScopedSinceLastReview`).
* Worktrees.
  * The timeout of `_run_git` "bounds `communicate()` so a hung network operation cannot
    block the event loop" (`repo_provision.py` 133), but the `communicate()` after the kill
    (169-170) has no bound, and a `git-remote-https` that outlives its git keeps stderr open.
    `precheck/engine.py` 272-283 describes this hang and bounds its own drain
    (`TimeoutBoundsTheWait`).
  * `teardown_worktree` "logs but does not raise on cleanup failures" (`repo_provision.py`
    391), but `check=False` does not cover the time limit of `_run_git`: a hanging `worktree
    remove` or `prune` raises out of the context manager, a review that has its answer is
    lost and its tree stays (`CleanupIsQuiet`).
  * The watchdog of one run removes the worktrees of all runs of the host (`cli.py` 102),
    those under review included; the docstring at 96 speaks of what "the forced exit would
    orphan" (`TreeStays`).
  * The sentinel can stand in a clone that has just begun: a run clones, a peer whose
    `rev-parse` failed meanwhile removes the mirror and starts its own clone, the first run
    touches the sentinel at the path (`repo_provision.py` 259, against 53-55;
    `SentinelMeansWhole`).
* Sessions. A worker that was killed closes its pipe: `poll()` is true at the end of the
  file, `recv()` raises, and the branch for such workers (`runners.py` 1438-1447) is not
  reached, so the caller gets an exception and the ledger stays (`DeadWorkerIsReported`;
  `docs/STORAGE.md` 202-206, `tests/test_runners_new.py` 594-599). The parent of a session
  that timed out removes the ledger of an id that may be another worker's by then
  (`runners.py` 516-530; `LedgersOfOthersStay`).
* Cache. A session whose cache is gone removes whatever record is there, one a peer has
  just written included (`gemini_cache.py` 305-306; `LiveRecordStays`).
* Prechecks. Output that cannot be parsed is an empty report for every scanner but eslint,
  and the scanner does not count as failed (`precheck/engine.py` 701;
  `UnparseableIsFailed`).
* Delivery. Without a receipt or a halt in the response the status goes to the head of the
  moment (`cli.py` 597-601), against the comment at 596. A success status never does
  (`FailureIsReviewed`, `ApprovalIsReviewed`). The bench
  guard of a pull request over the cap reads the list of the head of the moment
  (`graph.py` 794). Two runs that post at once leave two comments (`github_client.py`
  1004). The properties except these.
* A task cancelled while it provisions leaves its tree (`provision_worktree` catches
  `Exception`, and the path is not known to the context manager yet); `NothingLeft`
  excepts it.
* A clone that was killed leaves a repository `_ensure_mirror` reuses without the
  sentinel; the fetch of the head then decides whether the run fails.
* A failed running upsert leaves the verdict of the earlier attempt; a halt afterwards
  overwrites it with NULL and so moves the latest round after all (STORAGE.md:74).
* `latest` orders by `created_at`, which a retry keeps: of two overlapping rounds the one
  that started later wins, not the one of the newer head. `LatestIsOfNewestHead` is
  checked for rounds that do not overlap.
* A coverage gap advises to re-run the review (`helpers.py` 273-355), but the next round
  reads only the commits pushed since.

The properties of a passing run are checked under the configuration in which they hold,
and the run's row says which one that is.

## 7. Plan

Done: the modules of section 2, and a theorem for every safety property the runs check.
Next, in this order:

1. The partition of `scope.py` 106-146 against "every file in exactly one behavior", as a
   function of two lists with its theorem.
2. `RoundHistory` as the abstraction of the flows it is made of: one flow of
   `ReviewPipeline` mapped to a run of `RoundHistory`, so that `ChainUnbroken` rests on the
   graph and not on the four outcomes `Decide` has for it.
3. An abstract specification of the cache record, a register with one writer at a time, which
   `ModelTurns` implements.
4. The corrections of section 6 as theorems with the hypothesis under which each statement
   does hold.

### Not modelled

* Cost and usage accounting (`llm/usage.py`), factories and schemas (`llm/`), prompts
  (`prompts_runtime.py`), configuration (`config.py`): sums, construction and text. No
  state another part decides on; the limits they set are constants here.
* Parsing: the TOML of the bench, the command line, the parser of what a session says
  (`helpers.py` 91-136). What they let through is a choice with `\E`.
* Rendering of comments, HTML and Markdown.
* The reads of GitHub that only feed prompts (reviews, commits, branches, checks).
* The dismissals of earlier findings (`graph.py` 412-561): they change prompts only.
* The partition check of the scope gate: one pass over two lists, without state. A failed
  one is a halt of `scope_gate`.
