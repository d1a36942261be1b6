--------------------------- MODULE ReviewPipeline --------------------------
(***************************************************************************)
(* One orchestrator flow of argus: run_review (argus/graph.py) and the     *)
(* LangGraph pipeline it invokes, attempt after attempt.                   *)
(*                                                                         *)
(* An orchestrator may call run_review again with the same flow_run_id     *)
(* when an attempt raised or its worker died.  The thread_id of the graph  *)
(* is the flow_run_id, so with the Postgres checkpointer the next attempt  *)
(* starts over at START on top of the channel values the last one left;    *)
(* with the per-process SQLite file it starts from empty channels.         *)
(*                                                                         *)
(* Every node is one action; the edge that follows a node is evaluated on  *)
(* the state the node wrote, so it is part of the same action.  A node     *)
(* that raises writes nothing.  What a language model, GitHub or a scanner *)
(* answers is an existential over the answers the code can receive.        *)
(* Fields named "at" (and fastFail itself) hold the attempt that wrote a   *)
(* channel; the code has no such field and no action reads one as a guard. *)
(***************************************************************************)
EXTENDS ResponseGates

CONSTANTS
  Head,                   \* commit SHAs the PR's head branch may point at
  None,                   \* no SHA, no receipt, no override
  Planned,                \* reviewers a plan may ask for: groups, specialists
  AlwaysOn,               \* the cross-cutting and the tests-and-docs reviewer
  GapFill,                \* gap-fill reviewers a coverage answer may ask for
  Issue,                  \* BLOCKING findings a model may report
  DescriptionOf,          \* the text of each of them
  LlmRisk,                \* risk levels a model assigns
  Pinned,                 \* SHAs a caller may pin a flow to, or None
  DispatchBudget,         \* ARGUS_REVIEWER_DISPATCH_BUDGET
  FanoutCeiling,          \* _MAX_REVIEWER_FANOUT
  PlanAttempts,           \* max_attempts of the planner's RetryPolicy
  MaxAttempts,            \* bound: attempts the orchestrator makes
  MaxPushes,              \* bound: commits pushed to the PR meanwhile
  PostgresCheckpointer,   \* a DB URL is configured
  HttpHistory,            \* round history goes through the HTTP backend
  BlockOnScannerFailure   \* ARGUS_PRECHECK_BLOCK_ON_SCANNER_FAILURE

Reviewer == Planned \cup AlwaysOn \cup GapFill

ASSUME SetsAssumption ==
  /\ None \notin Head
  /\ None \notin [head : Head, verdict : Verdict, halted : BOOLEAN,
                  receipt : Head \cup {None}]
  /\ LlmRisk \subseteq Risk
  /\ Pinned \subseteq Head \cup {None}

\* graph.py always dispatches one cross-cutting and one tests-and-docs session.
ASSUME ReviewersAssumption ==
  /\ IsFiniteSet(Planned) /\ IsFiniteSet(GapFill)
  /\ IsFiniteSet(AlwaysOn) /\ Cardinality(AlwaysOn) = 2

ASSUME BoundsAssumption ==
  /\ FanoutCeiling \in Nat
  /\ DispatchBudget \in 3 .. FanoutCeiling
  /\ PlanAttempts \in Nat \ {0}
  /\ MaxAttempts \in Nat
  /\ MaxPushes \in Nat

ASSUME SwitchesAssumption ==
  /\ PostgresCheckpointer \in BOOLEAN
  /\ HttpHistory \in BOOLEAN
  /\ BlockOnScannerFailure \in BOOLEAN

VARIABLES
  \* the world outside the flow
  prHead,          \* the PR's current head
  pushes,          \* commits pushed so far
  history,         \* the round history holds a reviewed round of this PR
  dirty,           \* heads whose tree violates a verified precheck rule
  \* run_review's arguments, the same on every attempt of the flow
  override,        \* review_override_sha, or None
  expected,        \* expect_head_sha, or None
  \* run_review's own state
  pc,              \* the step or node to run next; "idle" between attempts
  attempt,         \* attempts begun
  head,            \* head_sha_for_worktree of this attempt
  planTries,       \* planner calls of this attempt that failed transiently
  tasks,           \* reviewer tasks of the current superstep still running
  written,         \* results finished in the current superstep
  outcome,         \* how the last attempt ended
  row,             \* the flow's row in code_reviews
  \* LangGraph channels, kept by the checkpointer
  prior,           \* prior_review is set: this is round 2 or later
  bench,           \* bench_config_changes or bench_config_unconfirmed is set
  fastFail,        \* precheck_fast_fail: the attempt that set it, 0 if unset
  badScanners,     \* precheck_scanner_failures and precheck_missing_scanners
  scope,           \* the ScopeReceipt, or None
  verification,    \* FeedbackVerificationResult
  isLite,          \* preflight routed to lite
  results,         \* the findings channel (reducer: append)
  response         \* the response channel

world    == <<prHead, pushes, history, dirty, override, expected>>
local    == <<attempt, head, planTries>>
super    == <<tasks, written>>
stored   == <<outcome, row>>
routing  == <<prior, bench, fastFail, badScanners, verification, isLite>>
review   == <<scope, results, response>>
channels == <<routing, review>>
vars     == <<world, pc, local, super, stored, channels>>

-----------------------------------------------------------------------------
(* Values *)

HaltCode == {"scope_split", "scope_unverified", "dispatch_budget_exceeded",
             "gap_fill_cap_exceeded"}

Node == {"precheck_fail", "scope_gate", "plan", "check_coverage",
         "lite_review", "write_review"}

Finding == [kind : Kind, ref : Issue \cup Reviewer \cup
                               {"rule", "scanner", "scanner-gate", "bench-gate"},
            desc : {DescriptionOf[i] : i \in Issue} \cup Reviewer \cup
                   {"rule", "scanner", "scanner-gate", "bench-gate"},
            sev : {"BLOCKING", "SUGGESTION"}]

Response == [by : Node, at : 1 .. MaxAttempts, halt : HaltCode \cup {"none"},
             verdict : Verdict, risk : Risk,
             findings : SUBSET Finding, dropped : SUBSET Finding]

\* "response": {} of the code
Empty == [by |-> "nobody", at |-> 0, halt |-> "none", verdict |-> "APPROVE",
          risk |-> 0, findings |-> {}, dropped |-> {}]

Receipt == [head : Head, at : 1 .. MaxAttempts, multi : BOOLEAN,
            overridden : BOOLEAN]

Result == [who : Reviewer, at : 1 .. MaxAttempts, ok : BOOLEAN]

NoVerification == [status |-> "none", at |-> 0]

NoOutcome == [status |-> "none", why |-> "none", response |-> Empty,
              scope |-> None, head |-> None, version |-> "none"]

NoRow == [stage |-> "absent", verdict |-> "NULL", sha |-> None,
          halted |-> FALSE, version |-> "none"]

Outcome ==
  [status : {"none", "raised", "died", "finalizing", "returned"},
   why : {"none", "head_moved", "all_reviewers_failed", "no_receipt",
          "step_failed", "worker"},
   response : Response \cup {Empty}, scope : Receipt \cup {None},
   head : Head \cup {None}, version : {"none", "v3", "v3-lite"}]

Row == [stage : {"absent", "running", "completed"},
        verdict : Verdict \cup {"NULL"}, sha : Head \cup {None},
        halted : BOOLEAN, version : {"none", "v3", "v3-lite"}]

IssueFinding(i) ==
  [kind |-> "llm", ref |-> i, desc |-> DescriptionOf[i], sev |-> "BLOCKING"]

Answer(by, verdict, risk, findings) ==
  [by |-> by, at |-> attempt, halt |-> "none", verdict |-> verdict,
   risk |-> risk, findings |-> findings, dropped |-> {}]

\* scope.halt_response: BLOCKING, HIGH, and no fabricated findings.
Halt(by, code) ==
  [Answer(by, "BLOCKING", High, {}) EXCEPT !.halt = code]

\* _override_reason: honoured only when pinned to the head under review.
Overridden == override # None /\ override = head

\* The edges after the scope gate, the planner and the coverage check end the
\* graph when the response channel is set, whoever set it.
Onward(node) == IF response = Empty THEN node ELSE "gates"

Dispatch(reviewers) == IF response = Empty THEN reviewers ELSE {}

FailedReviewers == { r.who : r \in { x \in results : ~ x.ok } }

-----------------------------------------------------------------------------
(* The world *)

\* Commits are pushed to the PR while the flow runs.
Push ==
  /\ pushes < MaxPushes
  /\ \E h \in Head \ {prHead} : prHead' = h
  /\ pushes' = pushes + 1
  /\ UNCHANGED <<history, dirty, override, expected, pc, local, super, stored,
                 channels>>

-----------------------------------------------------------------------------
(* run_review before the graph *)

\* upsert_running_row: inserted as "v3"; ON CONFLICT clears the verdict and the
\* result and keeps the sha and the version.
RunningRow(r) ==
  [r EXCEPT !.stage = "running", !.verdict = "NULL", !.halted = FALSE,
            !.version = IF r.stage = "absent" THEN "v3" ELSE @]

\* Without Postgres the channels live in a file of the worker process.
ChannelsAtStart ==
  IF PostgresCheckpointer
  THEN UNCHANGED channels
  ELSE /\ prior' = FALSE /\ bench' = FALSE /\ fastFail' = 0
       /\ badScanners' = {} /\ verification' = NoVerification
       /\ isLite' = FALSE
       /\ scope' = None /\ results' = {} /\ response' = Empty

BeginAttempt ==
  /\ pc = "idle"
  /\ attempt < MaxAttempts
  /\ outcome.status # "returned"
  /\ attempt' = attempt + 1
  /\ row' \in {RunningRow(row), row}        \* a failed upsert is only logged
  /\ pc' = "resolve"
  /\ head' = None
  /\ planTries' = 0
  /\ outcome' = NoOutcome
  /\ ChannelsAtStart
  /\ UNCHANGED <<world, super>>

\* The attempt is over: an exception reached the caller, or the worker died
\* (the watchdog's os._exit, a cancelled flow).  A superstep that did not
\* finish loses what its tasks wrote.
EndWith(status, why) ==
  /\ pc' = "idle"
  /\ outcome' = [NoOutcome EXCEPT !.status = status, !.why = why]
  /\ tasks' = {}
  /\ written' = {}

Raise(why) ==
  /\ EndWith("raised", why)
  /\ UNCHANGED <<world, local, row, channels>>

ResolveHead ==
  /\ pc = "resolve"
  /\ expected \in {None, prHead}
  /\ override \in {None, prHead}
  /\ head' = prHead
  /\ pc' = "provision"
  /\ UNCHANGED <<world, attempt, planTries, super, stored, channels>>

\* expect_head_sha, or an override pinned to another commit: no review spend.
RefuseHead ==
  /\ pc = "resolve"
  /\ \/ expected \notin {None, prHead}
     \/ override \notin {None, prHead}
  /\ Raise("head_moved")

ProvisionWorktree ==
  /\ pc = "provision"
  /\ pc' = "fetch_diff"
  /\ UNCHANGED <<world, local, super, stored, channels>>

-----------------------------------------------------------------------------
(* Routing: fetch_diff, precheck, scope gate, early verifier, preflight *)

\* Mutant: the reset forgets the response.
ResetScopeOnly ==
  /\ response' = response
  /\ scope' = None

\* The channels _node_fetch_diff clears for a retried checkpoint.
ResetDecision ==
  /\ response' = Empty
  /\ scope' = None

\* A prior round that cannot be read is treated as round 1.
FetchDiff ==
  /\ pc = "fetch_diff"
  /\ prior' \in {history, FALSE}
  /\ bench' \in BOOLEAN
  /\ ResetDecision
  /\ pc' = "precheck"
  /\ UNCHANGED <<world, local, super, stored, fastFail, badScanners,
                 verification, isLite, results>>

\* precheck_checks and precheck_rules run in one superstep that precheck_join
\* closes; the CI signal of the former only feeds the preflight model call.
\* precheck_rules writes a channel only when it has something to write.
Precheck ==
  /\ pc = "precheck"
  /\ \E hit \in BOOLEAN, down \in {{}, {"scanner"}} :
       /\ hit => head \in dirty
       /\ fastFail' = IF hit THEN attempt ELSE fastFail
       /\ badScanners' = IF down # {} THEN down ELSE badScanners
  /\ pc' = IF fastFail' # 0 THEN "precheck_fail" ELSE "scope_gate"
  /\ UNCHANGED <<world, local, super, stored, prior, bench, verification, isLite,
                 review>>

PrecheckFail ==
  /\ pc = "precheck_fail"
  /\ response' = Answer("precheck_fail", "BLOCKING", High,
                        {Marker("rule", "rule", "BLOCKING")})
  /\ pc' = "gates"
  /\ UNCHANGED <<world, local, super, stored, routing, scope, results>>

\* Any failure to list, assess or validate the partition halts.
ScopeUnverified ==
  /\ pc = "scope_gate"
  /\ response' = Halt("scope_gate", "scope_unverified")
  /\ pc' = "gates"
  /\ UNCHANGED <<world, local, super, stored, routing, scope, results>>

ScopeSplit ==
  /\ pc = "scope_gate"
  /\ ~ Overridden
  /\ response' = Halt("scope_gate", "scope_split")
  /\ pc' = "gates"
  /\ UNCHANGED <<world, local, super, stored, routing, scope, results>>

ScopeReceipt ==
  /\ pc = "scope_gate"
  /\ \E multi \in BOOLEAN :
       /\ multi => Overridden
       /\ scope' = [head |-> head, at |-> attempt, multi |-> multi,
                    overridden |-> multi]
  /\ pc' = Onward("early_verifier")
  /\ UNCHANGED <<world, local, super, stored, routing, results, response>>

\* A no-op on round 1; a session that raises leaves the channel as it was.
EarlyVerifier ==
  /\ pc = "early_verifier"
  /\ \/ UNCHANGED verification
     \/ /\ prior
        /\ \E s \in {"resolved", "open"} :
             verification' = [status |-> s, at |-> attempt]
  /\ pc' = "preflight"
  /\ UNCHANGED <<world, local, super, stored, prior, bench, fastFail, badScanners,
                 isLite, review>>

\* _edge_preflight_decision's hard gates, whatever the router answered.  blast:
\* the diff touches a high-blast-radius file and is no image-tag bump.
ForcedFull(blast, caughtUp) ==
  \/ bench
  \/ blast /\ ~ (caughtUp /\ prior)
  \/ verification.status = "open"

\* The catch-up gate (round 2+ only) answers before the router model; when the
\* router raises, the answer is "full".
Preflight ==
  /\ pc = "preflight"
  /\ \E blast, caughtUp, lite \in BOOLEAN :
       /\ caughtUp => prior /\ lite
       /\ isLite' = lite
       /\ pc' = IF lite /\ ~ ForcedFull(blast, caughtUp)
                THEN "lite_review" ELSE "plan"
  /\ UNCHANGED <<world, local, super, stored, prior, bench, fastFail, badScanners,
                 verification, review>>

\* One model call; no validator runs on this path.
LiteReview ==
  /\ pc = "lite_review"
  /\ \E v \in Verdict, k \in LlmRisk, found \in SUBSET Issue :
       response' = Answer("lite_review", v, k, {IssueFinding(i) : i \in found})
  /\ pc' = "gates"
  /\ UNCHANGED <<world, local, super, stored, routing, scope, results>>

-----------------------------------------------------------------------------
(* The full path: plan, reviewers, coverage, writer, validator *)

\* Mutant: one of the two always-on reviewers is not counted.
DispatchCountOneAlwaysOn(p) == Cardinality(p) + 1

\* scope.dispatch_count: the groups with their specialists, and two always-on.
DispatchCount(p) == Cardinality(p) + 2

\* Mutant: an override lifts the hard ceiling as well.
WithinBudgetNoCeiling(p) ==
  \/ DispatchCount(p) <= DispatchBudget
  \/ Overridden

WithinBudget(p) ==
  \/ DispatchCount(p) <= DispatchBudget
  \/ DispatchCount(p) <= FanoutCeiling /\ Overridden

\* A transient planner failure is retried in place by the RetryPolicy.
PlanRetry ==
  /\ pc = "plan"
  /\ planTries + 1 < PlanAttempts
  /\ planTries' = planTries + 1
  /\ UNCHANGED <<world, pc, attempt, head, super, stored, channels>>

\* Within budget the edge dispatches every reviewer of the plan.
Plan ==
  /\ pc = "plan"
  /\ \E p \in SUBSET Planned :
       /\ WithinBudget(p)
       /\ tasks' = Dispatch(p \cup AlwaysOn)
       /\ scope' = IF DispatchCount(p) > DispatchBudget
                   THEN [scope EXCEPT !.overridden = TRUE]
                   ELSE scope
  /\ pc' = Onward("run_reviewer")
  /\ UNCHANGED <<world, local, written, stored, routing, results, response>>

\* Mutant: the halt is recorded and the fan-out happens all the same.
PlanHaltsLate ==
  /\ pc = "plan"
  /\ \E p \in SUBSET Planned : ~ WithinBudget(p)
  /\ response' = Halt("plan", "dispatch_budget_exceeded")
  /\ tasks' = AlwaysOn
  /\ pc' = "run_reviewer"
  /\ UNCHANGED <<world, local, written, stored, routing, scope, results>>

PlanHalts ==
  /\ pc = "plan"
  /\ \E p \in SUBSET Planned : ~ WithinBudget(p)
  /\ response' = Halt("plan", "dispatch_budget_exceeded")
  /\ pc' = "gates"
  /\ UNCHANGED <<world, local, super, stored, routing, scope, results>>

\* A reviewer that raises, times out or crashes leaves a marker result.
RunReviewer(who) ==
  /\ pc \in {"run_reviewer", "run_gap_reviewer"}
  /\ who \in tasks
  /\ tasks' = tasks \ {who}
  /\ \E ok \in BOOLEAN :
       written' = written \cup {[who |-> who, at |-> attempt, ok |-> ok]}
  /\ UNCHANGED <<world, pc, local, stored, channels>>

\* Mutant: a failed session is waited for as if it were still running.
CommitWhenAllSucceed ==
  /\ pc \in {"run_reviewer", "run_gap_reviewer"}
  /\ tasks = {}
  /\ \A r \in written : r.ok
  /\ results' = results \cup written
  /\ written' = {}
  /\ pc' = IF pc = "run_reviewer" THEN "collect_findings" ELSE "write_review"
  /\ UNCHANGED <<world, local, tasks, stored, routing, scope, response>>

\* The superstep ends when every task has finished: the reducer appends.
CommitSuperstep ==
  /\ pc \in {"run_reviewer", "run_gap_reviewer"}
  /\ tasks = {}
  /\ results' = results \cup written
  /\ written' = {}
  /\ pc' = IF pc = "run_reviewer" THEN "collect_findings" ELSE "write_review"
  /\ UNCHANGED <<world, local, tasks, stored, routing, scope, response>>

Succeeded == { r \in results : r.ok }

CollectFindings ==
  /\ pc = "collect_findings"
  /\ Succeeded # {}
  /\ pc' = "check_coverage"
  /\ UNCHANGED <<world, local, super, stored, channels>>

AllReviewersFailed ==
  /\ pc = "collect_findings"
  /\ Succeeded = {}
  /\ Raise("all_reviewers_failed")

\* Mutant: the gap fill has no ceiling.
CheckCoverageUncapped ==
  /\ pc = "check_coverage"
  /\ \E g \in SUBSET GapFill :
       /\ tasks' = Dispatch(g)
       /\ pc' = Onward(IF g = {} THEN "write_review" ELSE "run_gap_reviewer")
  /\ UNCHANGED <<world, local, written, stored, routing, scope, results,
                 response>>

\* No gap listed, covered or not: on to the writer.  fill_gaps only fans out.
CheckCoverage ==
  /\ pc = "check_coverage"
  /\ \E g \in SUBSET GapFill :
       /\ Cardinality(g) <= FanoutCeiling
       /\ tasks' = Dispatch(g)
       /\ pc' = Onward(IF g = {} THEN "write_review" ELSE "run_gap_reviewer")
  /\ UNCHANGED <<world, local, written, stored, routing, scope, results,
                 response>>

CoverageHalts ==
  /\ pc = "check_coverage"
  /\ \E g \in SUBSET GapFill : Cardinality(g) > FanoutCeiling
  /\ response' = Halt("check_coverage", "gap_fill_cap_exceeded")
  /\ pc' = "gates"
  /\ UNCHANGED <<world, local, super, stored, routing, scope, results>>

\* The writer's verdict is extracted as it stands; nothing recomputes it here.
WriteReview ==
  /\ pc = "write_review"
  /\ \E v \in Verdict, k \in LlmRisk, found \in SUBSET Issue :
       response' = Answer("write_review", v, k, {IssueFinding(i) : i \in found})
  /\ pc' = "validate_blockings"
  /\ UNCHANGED <<world, local, super, stored, routing, scope, results>>

\* An index the session does not reject is confirmed.
ValidateBlockings ==
  /\ pc = "validate_blockings"
  /\ \E rejected \in SUBSET Blockings(response.findings) :
       response' = Validated(response, rejected)
  /\ pc' = "gates"
  /\ UNCHANGED <<world, local, super, stored, routing, scope, results>>

-----------------------------------------------------------------------------
(* run_review after the graph *)

\* A halt is complete as it is; anything else goes through the gates.
Final ==
  IF response.halt # "none" THEN response
  ELSE Gated(response, FailedReviewers, badScanners, BlockOnScannerFailure, bench)

\* scope.require_receipt
CoherentReceipt ==
  /\ scope # None
  /\ scope.head = head
  /\ scope.multi => scope.overridden

NeedsReceipt(resp) == resp.halt = "none" /\ resp.verdict = "APPROVE"

\* reviewer_version: from the is_lite channel of the final graph state.
Version == IF isLite THEN "v3-lite" ELSE "v3"

ApplyGates ==
  /\ pc = "gates"
  /\ IF NeedsReceipt(Final) /\ ~ CoherentReceipt
     THEN Raise("no_receipt")
     ELSE /\ outcome' = [status |-> "finalizing", why |-> "none",
                         response |-> Final, scope |-> scope, head |-> head,
                         version |-> Version]
          /\ pc' = "finalize"
          /\ UNCHANGED <<world, local, super, row, channels>>

\* Mutant: a halt is stored with its BLOCKING verdict.
CompletedRowOfHalt(o) ==
  [stage   |-> "completed",
   verdict |-> o.response.verdict,
   sha     |-> o.head,
   halted  |-> o.response.halt # "none",
   version |-> o.version]

\* upsert_completed_row: a halted round is stored with a NULL verdict.
CompletedRow(o) ==
  [stage   |-> "completed",
   verdict |-> IF o.response.halt # "none" THEN "NULL" ELSE o.response.verdict,
   sha     |-> o.head,
   halted  |-> o.response.halt # "none",
   version |-> o.version]

Finalize ==
  /\ pc = "finalize"
  /\ row' = CompletedRow(outcome)
  /\ pc' = IF HttpHistory THEN "return" ELSE "agent_runs"
  /\ UNCHANGED <<world, local, super, outcome, channels>>

\* Not over HTTP: the review is returned although nothing was stored.
FinalizeLost ==
  /\ pc = "finalize"
  /\ ~ HttpHistory
  /\ pc' = "return"
  /\ UNCHANGED <<world, local, super, stored, channels>>

InsertAgentRuns ==
  /\ pc = "agent_runs"
  /\ pc' = "return"
  /\ UNCHANGED <<world, local, super, stored, channels>>

Return ==
  /\ pc = "return"
  /\ pc' = "idle"
  /\ outcome' = [outcome EXCEPT !.status = "returned"]
  /\ UNCHANGED <<world, local, super, row, channels>>

-----------------------------------------------------------------------------
(* Failures *)

\* Steps whose exceptions reach the caller.  The scope gate, the prechecks,
\* the early verifier and preflight catch theirs; a reviewer leaves a marker.
\* Before the gates the worktree is torn down, and a git that hangs there raises.
Raising == {"resolve", "provision", "fetch_diff", "lite_review", "plan",
            "check_coverage", "write_review", "validate_blockings",
            "gates", "finalize", "agent_runs"}

StepRaises ==
  /\ pc \in Raising
  /\ Raise("step_failed")

WorkerDies ==
  /\ pc # "idle"
  /\ EndWith("died", "worker")
  /\ UNCHANGED <<world, local, row, channels>>

-----------------------------------------------------------------------------
Init ==
  /\ prHead \in Head /\ pushes = 0
  /\ history \in BOOLEAN
  /\ dirty \in SUBSET Head
  /\ override \in Pinned /\ expected \in Pinned
  /\ pc = "idle" /\ attempt = 0 /\ head = None /\ planTries = 0
  /\ tasks = {} /\ written = {}
  /\ outcome = NoOutcome /\ row = NoRow
  /\ prior = FALSE /\ bench = FALSE /\ fastFail = 0 /\ badScanners = {}
  /\ verification = NoVerification /\ isLite = FALSE
  /\ scope = None /\ results = {} /\ response = Empty

\* The steps of an attempt that nothing interrupts.
Step ==
  \/ ResolveHead \/ RefuseHead \/ ProvisionWorktree
  \/ FetchDiff \/ Precheck \/ PrecheckFail
  \/ ScopeUnverified \/ ScopeSplit \/ ScopeReceipt
  \/ EarlyVerifier \/ Preflight \/ LiteReview
  \/ PlanRetry \/ Plan \/ PlanHalts
  \/ \E who \in Reviewer : RunReviewer(who)
  \/ CommitSuperstep \/ CollectFindings \/ AllReviewersFailed
  \/ CheckCoverage \/ CoverageHalts \/ WriteReview \/ ValidateBlockings
  \/ ApplyGates
  \/ Finalize \/ FinalizeLost \/ InsertAgentRuns \/ Return

Next ==
  \/ Push
  \/ BeginAttempt
  \/ Step
  \/ StepRaises
  \/ WorkerDies

Spec == Init /\ [][Next]_vars

\* Every external call the nodes make carries a timeout, and the watchdog
\* kills a worker that stalls: a step that can be taken is taken.
FairSpec == Spec /\ WF_vars(Step)

-----------------------------------------------------------------------------
(* Properties *)

Place == {"idle", "resolve", "provision", "fetch_diff", "precheck",
          "precheck_fail", "scope_gate", "early_verifier", "preflight",
          "lite_review", "plan", "run_reviewer", "collect_findings",
          "check_coverage", "run_gap_reviewer", "write_review",
          "validate_blockings", "gates", "finalize", "agent_runs", "return"}

WorldOK ==
  /\ prHead \in Head /\ pushes \in 0 .. MaxPushes
  /\ history \in BOOLEAN /\ dirty \subseteq Head
  /\ override \in Pinned /\ expected \in Pinned

LocalOK ==
  /\ attempt \in 0 .. MaxAttempts
  /\ head \in Head \cup {None}
  /\ planTries \in 0 .. PlanAttempts

SuperOK == tasks \subseteq Reviewer /\ written \subseteq Result

StoredOK == outcome \in Outcome /\ row \in Row

RoutingOK ==
  /\ prior \in BOOLEAN /\ bench \in BOOLEAN
  /\ fastFail \in 0 .. MaxAttempts /\ badScanners \subseteq {"scanner"}
  /\ verification \in [status : {"none", "resolved", "open"},
                       at : 0 .. MaxAttempts]
  /\ isLite \in BOOLEAN

ReviewOK ==
  /\ scope \in Receipt \cup {None}
  /\ results \subseteq Result
  /\ response \in Response \cup {Empty}

\* Every variable keeps the shape the code gives it.
TypeOK ==
  WorldOK /\ pc \in Place /\ LocalOK /\ SuperOK /\ StoredOK /\ RoutingOK /\ ReviewOK

Returned == outcome.status = "returned"
Approved == Returned /\ outcome.response.verdict = "APPROVE"

\* README "Scope and workload halts": an APPROVE that reaches the caller is
\* not a halt, its receipt was issued by this very attempt for the head it
\* reviewed, several behaviors went through on an override for that head, no
\* reviewer session of the flow failed, and the PR leaves the bench alone.
ApproveIsEarned ==
  Approved =>
    /\ outcome.response.halt = "none"
    /\ outcome.scope # None
    /\ outcome.scope.head = outcome.head /\ outcome.scope.at = attempt
    /\ outcome.scope.multi => override = outcome.head
    /\ \A r \in results : r.ok
    /\ ~ bench
    /\ BlockOnScannerFailure => badScanners = {}

\* run_review's fetch_diff resets response and scope so that what a retried
\* flow returns is never an answer or a receipt of an earlier attempt.
AnswerIsCurrent ==
  Returned => /\ outcome.response.at = attempt
              /\ outcome.scope # None => outcome.scope.at = attempt

\* helpers.apply_reviewer_failure_gate: a session that crashed or timed out is
\* never mistaken for a clean one, on the first fan-out or in the gap fill.
FailedSessionBlocks ==
  Returned /\ outcome.response.halt = "none" =>
    \A r \in results :
      r.at = attempt /\ ~ r.ok =>
        /\ outcome.response.verdict = "BLOCKING"
        /\ Marker("reviewer-gap", r.who, "BLOCKING") \in outcome.response.findings

Dispatched == tasks \cup { r.who : r \in written }

\* README: more reviewers than the budget are dispatched only on an override
\* for this head, and more than the ceiling never, in either fan-out.
DispatchBounded ==
  /\ Cardinality(Dispatched) <= FanoutCeiling
  /\ pc = "run_reviewer" /\ Cardinality(Dispatched) > DispatchBudget =>
       override = head

\* ARCHITECTURE "Every halt routes to END": once an attempt has halted, no
\* reviewer session starts or reports in that attempt.
HaltStopsWork ==
  [][response.halt # "none" /\ response.at = attempt /\ attempt' = attempt
       => tasks' \subseteq tasks /\ results' = results]_vars

\* graph.py _node_fetch_diff: "A retried checkpoint must not terminate on an
\* earlier attempt's decision" - also not on its precheck fast-fail.
FreshFastFail ==
  Returned /\ outcome.response.by = "precheck_fail" => fastFail = attempt

\* graph.py _node_collect_findings: a full review that reaches the writer rests
\* on at least one reviewer session of this attempt that completed.
SomeReviewerSucceeded ==
  Returned /\ outcome.response.by = "write_review" =>
    \E r \in results : r.ok /\ r.at = attempt

\* ARCHITECTURE "Lite path": v3-lite rounds are the single-pass reviews and v3
\* rounds the full-path ones.
VersionTellsThePath ==
  Returned /\ outcome.response.by \in {"lite_review", "write_review"} =>
    (outcome.version = "v3-lite" <=> outcome.response.by = "lite_review")

\* run_review always comes back to its caller, with a review or an error.
AttemptEnds == (pc # "idle") ~> (pc = "idle")

\* The pipeline implements the contract: its decision is the response once the
\* gates have been applied, whatever the graph did to reach it.
DecisionOf(o) ==
  [head    |-> o.head,
   verdict |-> o.response.verdict,
   halted  |-> o.response.halt # "none",
   receipt |-> IF o.scope = None THEN None ELSE o.scope.head]

Contract == INSTANCE ReviewContract WITH
  running  <- pc # "idle",
  decision <- IF outcome.status = "finalizing" THEN DecisionOf(outcome)
              ELSE None,
  answer   <- IF outcome.status = "returned" THEN DecisionOf(outcome)
              ELSE None,
  stored   <- [verdict |-> row.verdict, sha |-> row.sha]

ImplementsContract == Contract!CSpec

=============================================================================
