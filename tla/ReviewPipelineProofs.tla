------------------------ MODULE ReviewPipelineProofs ------------------------
(***************************************************************************)
(* What one flow of argus never does, for any number of heads, reviewers,  *)
(* findings and attempts, and for every budget and ceiling.                *)
(***************************************************************************)
EXTENDS ReviewPipeline, FiniteSetTheorems, TLAPS

-----------------------------------------------------------------------------
(* The gates on a response of the pipeline *)

\* Two responses that differ in verdict, risk and findings only.
SameOrigin(resp, resp0) ==
  /\ resp.by = resp0.by
  /\ resp.at = resp0.at
  /\ resp.halt = resp0.halt

LEMMA ForcedResponse ==
  ASSUME NEW resp \in Response
  PROVE  /\ Forced(resp) \in Response
         /\ Forced(resp).verdict = "BLOCKING"
         /\ SameOrigin(Forced(resp), resp)
  <1>1. RaisedRisk(resp.risk) \in Risk
    BY DEF RaisedRisk, Response, Risk, High
  <1> QED
    BY <1>1 DEF Forced, Response, SameOrigin, Verdict

\* Any set of findings may be put in the place of a response's findings.
LEMMA RefoundResponse ==
  ASSUME NEW resp \in Response, NEW found \in SUBSET Finding
  PROVE  /\ [resp EXCEPT !.findings = found] \in Response
         /\ [resp EXCEPT !.findings = found].verdict = resp.verdict
         /\ SameOrigin([resp EXCEPT !.findings = found], resp)
  BY DEF Response, SameOrigin

LEMMA MarkersAreFindings ==
  /\ Marker("scanner", "scanner-gate", "BLOCKING") \in Finding
  /\ Marker("bench", "bench-gate", "BLOCKING") \in Finding
  /\ Marker("rule", "rule", "BLOCKING") \in Finding
  /\ \A r \in Reviewer : Marker("reviewer-gap", r, "SUGGESTION") \in Finding
  /\ Marker("scanner-gap", "scanner", "SUGGESTION") \in Finding
  BY DEF Marker, Finding, Kind

LEMMA PromotedIsFinding ==
  ASSUME NEW f \in Finding, NEW failed
  PROVE  Promoted(f, failed) \in Finding
  BY DEF Promoted, Finding

\* The gates change neither who wrote a response nor when; they keep a BLOCKING
\* verdict, and an APPROVE that leaves them has nothing against it.
LEMMA GatedResponse ==
  ASSUME NEW resp \in Response, NEW failed \in SUBSET Reviewer,
         NEW scanners \in SUBSET {"scanner"}, NEW optIn \in BOOLEAN,
         NEW touched \in BOOLEAN
  PROVE  LET gated == Gated(resp, failed, scanners, optIn, touched)
         IN  /\ gated \in Response
             /\ SameOrigin(gated, resp)
             /\ gated.verdict = "APPROVE" =>
                  /\ failed = {} /\ ~ touched
                  /\ optIn => scanners = {}
  <1> DEFINE fires == ScannerGateFires(resp, scanners, optIn)
             gated1 == ScannerGate(resp, scanners, optIn)
             gaps == CoverageGaps(failed, scanners, fires)
             gated2 == [gated1 EXCEPT !.findings = @ \cup gaps]
             gated3 == ReviewerGate(gated2, failed)
             gated4 == BenchGate(gated3, touched)
  <1>1. /\ gated1 \in Response /\ SameOrigin(gated1, resp)
        /\ gated1.verdict = "APPROVE" => (optIn => scanners = {})
    <2>1. CASE fires
      <3> DEFINE marked == Forced(resp).findings \cup
                             {Marker("scanner", "scanner-gate", "BLOCKING")}
      <3>1. Forced(resp) \in Response /\ SameOrigin(Forced(resp), resp)
            /\ Forced(resp).verdict = "BLOCKING"
        BY ForcedResponse
      <3>2. marked \in SUBSET Finding
        BY <3>1, MarkersAreFindings DEF Response
      <3>3. gated1 = [Forced(resp) EXCEPT !.findings = marked]
        BY <2>1 DEF ScannerGate
      <3> HIDE DEF marked
      <3> QED
        BY <3>1, <3>2, <3>3, RefoundResponse DEF SameOrigin
    <2>2. CASE ~ fires
      <3>1. gated1 = resp
        BY <2>2 DEF ScannerGate
      <3>2. resp.verdict = "APPROVE" => (optIn => scanners = {})
        BY <2>2 DEF ScannerGateFires
      <3> QED
        BY <3>1, <3>2 DEF SameOrigin
    <2> QED
      BY <2>1, <2>2
  <1>2. gaps \in SUBSET Finding
    BY MarkersAreFindings DEF CoverageGaps
  <1> HIDE DEF gated1, gaps
  <1>3. /\ gated2 \in Response /\ SameOrigin(gated2, resp)
        /\ gated2.verdict = "APPROVE" => (optIn => scanners = {})
    <2>1. gated1.findings \cup gaps \in SUBSET Finding
      BY <1>1, <1>2 DEF Response
    <2> QED
      BY <1>1, <2>1, RefoundResponse DEF SameOrigin
  <1> HIDE DEF gated2
  <1>4. /\ gated3 \in Response /\ SameOrigin(gated3, resp)
        /\ gated3.verdict = "APPROVE" =>
             failed = {} /\ (optIn => scanners = {})
    <2>1. CASE failed = {}
      BY <1>3, <2>1 DEF ReviewerGate
    <2>2. CASE failed # {}
      <3> DEFINE promoted == { Promoted(f, failed) : f \in Forced(gated2).findings }
      <3>1. Forced(gated2) \in Response /\ SameOrigin(Forced(gated2), gated2)
            /\ Forced(gated2).verdict = "BLOCKING"
        BY <1>3, ForcedResponse
      <3>2. promoted \in SUBSET Finding
        BY <3>1, PromotedIsFinding DEF Response
      <3>3. gated3 = [Forced(gated2) EXCEPT !.findings = promoted]
        BY <2>2 DEF ReviewerGate
      <3> HIDE DEF promoted
      <3> QED
        BY <1>3, <3>1, <3>2, <3>3, RefoundResponse DEF SameOrigin
    <2> QED
      BY <2>1, <2>2
  <1> HIDE DEF gated3
  <1>5. /\ gated4 \in Response /\ SameOrigin(gated4, resp)
        /\ gated4.verdict = "APPROVE" =>
             failed = {} /\ ~ touched /\ (optIn => scanners = {})
    <2>1. CASE ~ touched
      BY <1>4, <2>1 DEF BenchGate
    <2>2. CASE touched
      <3> DEFINE marked == Forced(gated3).findings \cup
                             {Marker("bench", "bench-gate", "BLOCKING")}
      <3>1. Forced(gated3) \in Response /\ SameOrigin(Forced(gated3), gated3)
            /\ Forced(gated3).verdict = "BLOCKING"
        BY <1>4, ForcedResponse
      <3>2. marked \in SUBSET Finding
        BY <3>1, MarkersAreFindings DEF Response
      <3>3. gated4 = [Forced(gated3) EXCEPT !.findings = marked]
        BY <2>2 DEF BenchGate
      <3> HIDE DEF marked
      <3> QED
        BY <1>4, <3>1, <3>2, <3>3, RefoundResponse DEF SameOrigin
    <2> QED
      BY <2>1, <2>2
  <1>6. Gated(resp, failed, scanners, optIn, touched) = gated4
    BY DEF Gated, DegradedCoverage, gated1, gaps, gated2, gated3
  <1> QED
    BY <1>5, <1>6

\* A reviewer that failed leaves a BLOCKING finding of its own in what passes the
\* gates, and a BLOCKING verdict.
LEMMA GatedGaps ==
  ASSUME NEW resp \in Response, NEW failed \in SUBSET Reviewer,
         NEW scanners \in SUBSET {"scanner"}, NEW optIn \in BOOLEAN,
         NEW touched \in BOOLEAN
  PROVE  LET gated == Gated(resp, failed, scanners, optIn, touched)
         IN  \A r \in failed :
               /\ gated.verdict = "BLOCKING"
               /\ Marker("reviewer-gap", r, "BLOCKING") \in gated.findings
  <1> SUFFICES ASSUME NEW r \in failed
               PROVE  LET gated == Gated(resp, failed, scanners, optIn, touched)
                      IN  /\ gated.verdict = "BLOCKING"
                          /\ Marker("reviewer-gap", r, "BLOCKING") \in gated.findings
    OBVIOUS
  <1> DEFINE fires == ScannerGateFires(resp, scanners, optIn)
             gaps == CoverageGaps(failed, scanners, fires)
             scanned == ScannerGate(resp, scanners, optIn)
             gapped == [scanned EXCEPT !.findings = @ \cup gaps]
             reviewed == ReviewerGate(gapped, failed)
             marker == Marker("reviewer-gap", r, "BLOCKING")
  <1>1. DOMAIN scanned = DOMAIN resp /\ DOMAIN Forced(scanned) = DOMAIN resp
    BY DEF ScannerGate, Forced
  <1>2. "verdict" \in DOMAIN resp /\ "findings" \in DOMAIN resp /\ "risk" \in DOMAIN resp
    BY DEF Response
  <1>3. Marker("reviewer-gap", r, "SUGGESTION") \in gapped.findings
    BY <1>1, <1>2 DEF CoverageGaps
  <1> HIDE DEF scanned, gaps
  <1>4. reviewed.verdict = "BLOCKING" /\ marker \in reviewed.findings
        /\ DOMAIN reviewed = DOMAIN resp
    <2>1. reviewed = [Forced(gapped) EXCEPT
                        !.findings = { Promoted(f, failed) : f \in @ }]
      BY DEF ReviewerGate
    <2>2. DOMAIN gapped = DOMAIN resp
      BY <1>1
    <2> HIDE DEF gapped
    <2>3. /\ Forced(gapped).verdict = "BLOCKING"
          /\ Forced(gapped).findings = gapped.findings
          /\ DOMAIN Forced(gapped) = DOMAIN resp
      BY <1>2, <2>2 DEF Forced
    <2>4. Promoted(Marker("reviewer-gap", r, "SUGGESTION"), failed) = marker
      BY DEF Promoted, Marker
    <2> QED
      BY <1>2, <1>3, <2>1, <2>3, <2>4
  <1>5. Gated(resp, failed, scanners, optIn, touched) = BenchGate(reviewed, touched)
    BY DEF Gated, DegradedCoverage, scanned, gaps
  <1> HIDE DEF reviewed
  <1> QED
    BY <1>2, <1>4, <1>5 DEF BenchGate, Forced

\* The validator keeps a response a response.
LEMMA ValidatedResponse ==
  ASSUME NEW resp \in Response, NEW rejected \in SUBSET Blockings(resp.findings)
  PROVE  /\ Validated(resp, rejected) \in Response
         /\ SameOrigin(Validated(resp, rejected), resp)
  <1>1. rejected \in SUBSET Finding
    BY DEF Blockings, Response
  <1>2. VerdictFor({ f \in resp.findings : ~ Drops(f, rejected) }) \in Verdict
    BY DEF VerdictFor, Verdict
  <1> QED
    BY <1>1, <1>2 DEF Validated, Response, SameOrigin

-----------------------------------------------------------------------------
(* The inductive invariant *)

\* Nodes that run after fetch_diff has reset the decision, nodes that run on a
\* receipt, nodes that run on an answer, and the steps after the graph.
Routing == {"precheck", "precheck_fail", "scope_gate"}
Reviewing == {"early_verifier", "preflight", "lite_review", "plan",
              "run_reviewer", "collect_findings", "check_coverage",
              "run_gap_reviewer", "write_review"}
Answered == {"validate_blockings", "gates"}
Storing == {"finalize", "agent_runs", "return"}
Running == {"run_reviewer", "run_gap_reviewer"}

\* A receipt this attempt issued, for the head it reviews.
GoodReceipt(r) ==
  /\ r \in Receipt
  /\ r.head = head /\ r.at = attempt
  /\ r.multi => override = head

\* A response this attempt wrote; a halt is always BLOCKING.
GoodResponse(r) ==
  /\ r \in Response
  /\ r.at = attempt
  /\ r.halt # "none" => r.verdict = "BLOCKING"

\* What an approval rests on besides its receipt.
NothingAgainst ==
  /\ \A r \in results : r.ok
  /\ ~ bench
  /\ BlockOnScannerFailure => badScanners = {}

Progress ==
  /\ pc # "idle" => attempt \in 1 .. MaxAttempts
  /\ pc \notin {"idle", "resolve"} => head \in Head
  /\ pc \notin Running => tasks = {} /\ written = {}

Deciding ==
  /\ pc \in Routing => response = Empty /\ scope = None
  /\ pc \in Reviewing => response = Empty /\ GoodReceipt(scope)
  /\ pc \in Answered => /\ GoodResponse(response)
                        /\ scope = None \/ GoodReceipt(scope)
  /\ pc = "validate_blockings" => response.halt = "none"

Decided ==
  /\ pc \notin Storing \cup {"idle"} => outcome.status = "none"
  /\ pc = "idle" => outcome.status # "finalizing"
  /\ pc \in Storing => outcome.status = "finalizing"
  /\ outcome.status \in {"finalizing", "returned"} =>
       /\ attempt \in 1 .. MaxAttempts
       /\ GoodResponse(outcome.response)
       /\ outcome.head = head /\ head \in Head
       /\ outcome.scope = None \/ GoodReceipt(outcome.scope)
       /\ outcome.response.verdict = "APPROVE" =>
            outcome.scope # None /\ NothingAgainst

Inv == TypeOK /\ Progress /\ Deciding /\ Decided

-----------------------------------------------------------------------------
(* What run_review makes of the graph's response *)

\* Gated or not, the final response is the one the graph answered with, and
\* an APPROVE leaves nothing against it.
LEMMA FinalIsGood ==
  ASSUME Inv, pc = "gates"
  PROVE  /\ Final \in Response /\ GoodResponse(Final)
         /\ Final.verdict = "APPROVE" => Final.halt = "none" /\ NothingAgainst
  <1>1. GoodResponse(response) /\ response \in Response
    BY DEF Inv, Deciding, Answered, GoodResponse
  <1>2. CASE response.halt # "none"
    BY <1>1, <1>2 DEF Final, GoodResponse
  <1>3. CASE response.halt = "none"
    <2> DEFINE gated == Gated(response, FailedReviewers, badScanners,
                              BlockOnScannerFailure, bench)
    <2>1. FailedReviewers \in SUBSET Reviewer
      BY DEF FailedReviewers, Inv, TypeOK, ReviewOK, Result
    <2>2. badScanners \in SUBSET {"scanner"} /\ bench \in BOOLEAN
      BY DEF Inv, TypeOK, RoutingOK
    <2>3. BlockOnScannerFailure \in BOOLEAN
      BY SwitchesAssumption
    <2>4. /\ gated \in Response /\ SameOrigin(gated, response)
          /\ gated.verdict = "APPROVE" =>
               /\ FailedReviewers = {} /\ ~ bench
               /\ BlockOnScannerFailure => badScanners = {}
      BY <1>1, <2>1, <2>2, <2>3, GatedResponse
    <2>5. Final = gated
      BY <1>3 DEF Final
    <2> HIDE DEF gated
    <2>6. FailedReviewers = {} => \A r \in results : r.ok
      BY DEF FailedReviewers
    <2> QED
      BY <1>1, <1>3, <2>4, <2>5, <2>6 DEF GoodResponse, SameOrigin, NothingAgainst
  <1> QED
    BY <1>2, <1>3

-----------------------------------------------------------------------------
(* Every value a step writes has its shape *)

\* What a node writes into the response channel is of this attempt.
LEMMA AnswerIsGood ==
  ASSUME attempt \in 1 .. MaxAttempts, NEW by \in Node, NEW verdict \in Verdict,
         NEW risk \in Risk, NEW found \in SUBSET Finding
  PROVE  /\ GoodResponse(Answer(by, verdict, risk, found))
         /\ Answer(by, verdict, risk, found) \in Response
         /\ Answer(by, verdict, risk, found).halt = "none"
  BY DEF Answer, Response, GoodResponse

LEMMA HaltIsGood ==
  ASSUME attempt \in 1 .. MaxAttempts, NEW by \in Node, NEW code \in HaltCode
  PROVE  /\ GoodResponse(Halt(by, code))
         /\ Halt(by, code) \in Response
         /\ Halt(by, code).halt # "none"
  BY DEF Halt, Answer, Response, GoodResponse, HaltCode, Verdict, Risk, High

LEMMA IssuesAreFindings ==
  ASSUME NEW found \in SUBSET Issue
  PROVE  {IssueFinding(i) : i \in found} \in SUBSET Finding
  BY DEF IssueFinding, Finding, Kind

LEMMA EndedIsOutcome ==
  ASSUME NEW status \in {"raised", "died"},
         NEW why \in {"head_moved", "all_reviewers_failed", "no_receipt",
                      "step_failed", "worker"}
  PROVE  /\ NoOutcome \in Outcome
         /\ [NoOutcome EXCEPT !.status = status, !.why = why] \in Outcome
  BY DEF NoOutcome, Outcome

LEMMA RowsAreRows ==
  ASSUME NEW r \in Row, NEW o \in Outcome
  PROVE  RunningRow(r) \in Row /\ CompletedRow(o) \in Row
  <1>1. RunningRow(r) \in Row
    BY DEF RunningRow, Row
  <1>2. o.response.verdict \in Verdict
    BY DEF Outcome, Response, Empty, Verdict
  <1>3. CompletedRow(o) \in Row
    BY <1>2 DEF CompletedRow, Row, Outcome
  <1> QED
    BY <1>1, <1>3

\* What a step leaves alone keeps its shape.
LEMMA UntouchedTypes ==
  ASSUME TypeOK
  PROVE  /\ UNCHANGED world => WorldOK'
         /\ UNCHANGED local => LocalOK'
         /\ UNCHANGED super => SuperOK'
         /\ UNCHANGED stored => StoredOK'
         /\ UNCHANGED routing => RoutingOK'
         /\ UNCHANGED review => ReviewOK'
  <1>1. UNCHANGED world => WorldOK'
    BY DEF TypeOK, WorldOK, world
  <1>2. UNCHANGED local => LocalOK'
    BY DEF TypeOK, LocalOK, local
  <1>3. UNCHANGED super => SuperOK'
    BY DEF TypeOK, SuperOK, super
  <1>4. UNCHANGED stored => StoredOK'
    BY DEF TypeOK, StoredOK, stored
  <1>5. UNCHANGED routing => RoutingOK'
    BY DEF TypeOK, RoutingOK, routing
  <1>6. UNCHANGED review => ReviewOK'
    BY DEF TypeOK, ReviewOK, review
  <1> QED
    BY <1>1, <1>2, <1>3, <1>4, <1>5, <1>6

\* An attempt that ends with an exception, or with its worker.
LEMMA EndedTypes ==
  ASSUME TypeOK,
         NEW status \in {"raised", "died"},
         NEW why \in {"head_moved", "all_reviewers_failed", "no_receipt",
                      "step_failed", "worker"},
         EndWith(status, why), UNCHANGED <<world, local, row, channels>>
  PROVE  TypeOK'
  <1>1. SuperOK' /\ StoredOK' /\ pc' \in Place
    BY EndedIsOutcome DEF EndWith, TypeOK, SuperOK, StoredOK, Place
  <1> QED
    BY <1>1, UntouchedTypes DEF TypeOK, channels

LEMMA TypeStep ==
  ASSUME Inv, [Next]_vars
  PROVE  TypeOK'
  <1> USE DEF Inv, TypeOK
  <1>0. /\ pc # "idle" => attempt \in 1 .. MaxAttempts
        /\ pc \notin {"idle", "resolve"} => head \in Head
    BY DEF Progress
  <1>1. CASE Push
    <2>1. WorldOK'
      BY <1>1, BoundsAssumption DEF Push, WorldOK
    <2> QED
      BY <1>1, <2>1, UntouchedTypes DEF Push, channels
  <1>2. CASE BeginAttempt
    <2>1. LocalOK'
      BY <1>2, BoundsAssumption DEF BeginAttempt, LocalOK
    <2>2. StoredOK'
      BY <1>2, EndedIsOutcome, RowsAreRows DEF BeginAttempt, StoredOK
    <2>3. RoutingOK' /\ ReviewOK'
      <3>1. CASE PostgresCheckpointer
        BY <1>2, <3>1, UntouchedTypes DEF BeginAttempt, ChannelsAtStart, channels
      <3>2. CASE ~ PostgresCheckpointer
        <4>1. /\ prior' = FALSE /\ bench' = FALSE /\ fastFail' = 0
              /\ badScanners' = {} /\ isLite' = FALSE
              /\ verification' = NoVerification
              /\ scope' = None /\ results' = {} /\ response' = Empty
          BY <1>2, <3>2 DEF BeginAttempt, ChannelsAtStart
        <4>2. 0 \in 0 .. MaxAttempts
          BY BoundsAssumption
        <4> QED
          BY <4>1, <4>2 DEF RoutingOK, ReviewOK, NoVerification
      <3> QED
        BY <3>1, <3>2
    <2> QED
      BY <1>2, <2>1, <2>2, <2>3, UntouchedTypes DEF BeginAttempt, Place
  <1>3. CASE ResolveHead
    <2>1. LocalOK'
      BY <1>3 DEF ResolveHead, LocalOK, WorldOK
    <2> QED
      BY <1>3, <2>1, UntouchedTypes DEF ResolveHead, Place, channels
  <1>4. CASE RefuseHead
    BY <1>4, EndedTypes DEF RefuseHead, Raise
  <1>5. CASE ProvisionWorktree
    BY <1>5, UntouchedTypes DEF ProvisionWorktree, Place, channels
  <1>6. CASE FetchDiff
    <2>1. RoutingOK' /\ ReviewOK'
      BY <1>6 DEF FetchDiff, ResetDecision, RoutingOK, ReviewOK, WorldOK
    <2> QED
      BY <1>6, <2>1, UntouchedTypes DEF FetchDiff, Place
  <1>7. CASE Precheck
    <2>1. RoutingOK'
      BY <1>7 DEF Precheck, RoutingOK, LocalOK
    <2> QED
      BY <1>7, <2>1, UntouchedTypes DEF Precheck, Place
  <1>8. CASE PrecheckFail
    <2>1. {Marker("rule", "rule", "BLOCKING")} \in SUBSET Finding
      BY MarkersAreFindings
    <2>2. response' \in Response
      BY <1>0, <1>8, <2>1, AnswerIsGood
      DEF PrecheckFail, Node, Verdict, Risk, High
    <2>3. ReviewOK'
      BY <1>8, <2>2 DEF PrecheckFail, ReviewOK
    <2> QED
      BY <1>8, <2>3, UntouchedTypes DEF PrecheckFail, Place
  <1>9. CASE ScopeUnverified \/ ScopeSplit \/ PlanHalts \/ CoverageHalts
    <2>1. response' \in Response
      BY <1>0, <1>9, HaltIsGood
      DEF ScopeUnverified, ScopeSplit, PlanHalts, CoverageHalts, Node, HaltCode
    <2>2. ReviewOK'
      BY <1>9, <2>1
      DEF ScopeUnverified, ScopeSplit, PlanHalts, CoverageHalts, ReviewOK
    <2> QED
      BY <1>9, <2>2, UntouchedTypes
      DEF ScopeUnverified, ScopeSplit, PlanHalts, CoverageHalts, Place
  <1>10. CASE ScopeReceipt
    <2>1. scope' \in Receipt
      BY <1>0, <1>10 DEF ScopeReceipt, Receipt
    <2>2. ReviewOK'
      BY <1>10, <2>1 DEF ScopeReceipt, ReviewOK
    <2> QED
      BY <1>10, <2>2, UntouchedTypes DEF ScopeReceipt, Onward, Place
  <1>11. CASE EarlyVerifier
    <2>1. RoutingOK'
      BY <1>11 DEF EarlyVerifier, RoutingOK, LocalOK
    <2> QED
      BY <1>11, <2>1, UntouchedTypes DEF EarlyVerifier, Place
  <1>12. CASE Preflight
    <2>1. RoutingOK'
      BY <1>12 DEF Preflight, RoutingOK
    <2> QED
      BY <1>12, <2>1, UntouchedTypes DEF Preflight, Place
  <1>13. CASE LiteReview \/ WriteReview
    <2>1. PICK by \in {"lite_review", "write_review"}, v \in Verdict,
               k \in LlmRisk, found \in SUBSET Issue :
            response' = Answer(by, v, k, {IssueFinding(i) : i \in found})
      BY <1>13 DEF LiteReview, WriteReview
    <2>2. response' \in Response
      BY <1>0, <1>13, <2>1, AnswerIsGood, IssuesAreFindings, SetsAssumption
      DEF LiteReview, WriteReview, Node
    <2>3. ReviewOK'
      BY <1>13, <2>2 DEF LiteReview, WriteReview, ReviewOK
    <2> QED
      BY <1>13, <2>3, UntouchedTypes DEF LiteReview, WriteReview, Place
  <1>14. CASE PlanRetry
    <2>1. LocalOK'
      BY <1>14, BoundsAssumption DEF PlanRetry, LocalOK
    <2> QED
      BY <1>14, <2>1, UntouchedTypes DEF PlanRetry, channels
  <1>15. CASE Plan
    <2>1. PICK p \in SUBSET Planned :
            /\ tasks' = Dispatch(p \cup AlwaysOn)
            /\ scope' = IF DispatchCount(p) > DispatchBudget
                        THEN [scope EXCEPT !.overridden = TRUE]
                        ELSE scope
      BY <1>15 DEF Plan
    <2>2. SuperOK'
      BY <1>15, <2>1 DEF Plan, Dispatch, SuperOK, Reviewer
    <2>3. scope \in Receipt
      BY <1>15 DEF Plan, Deciding, Reviewing, GoodReceipt
    <2>4. scope' \in Receipt
      BY <2>1, <2>3 DEF Receipt
    <2>5. ReviewOK'
      BY <1>15, <2>4 DEF Plan, ReviewOK
    <2> QED
      BY <1>15, <2>2, <2>5, UntouchedTypes DEF Plan, Onward, Place
  <1>16. CASE \E who \in Reviewer : RunReviewer(who)
    <2>1. PICK who \in Reviewer : RunReviewer(who)
      BY <1>16
    <2>2. \A ok \in BOOLEAN :
            [who |-> who, at |-> attempt, ok |-> ok] \in Result
      BY <1>0, <2>1 DEF RunReviewer, Result
    <2>3. SuperOK'
      BY <2>1, <2>2 DEF RunReviewer, SuperOK
    <2> QED
      BY <2>1, <2>3, UntouchedTypes DEF RunReviewer, channels
  <1>17. CASE CommitSuperstep
    <2>1. SuperOK' /\ ReviewOK'
      BY <1>17 DEF CommitSuperstep, SuperOK, ReviewOK
    <2> QED
      BY <1>17, <2>1, UntouchedTypes DEF CommitSuperstep, Place
  <1>18. CASE CollectFindings
    BY <1>18, UntouchedTypes DEF CollectFindings, Place, channels
  <1>19. CASE AllReviewersFailed
    BY <1>19, EndedTypes DEF AllReviewersFailed, Raise
  <1>20. CASE CheckCoverage
    <2>1. SuperOK'
      BY <1>20 DEF CheckCoverage, Dispatch, SuperOK, Reviewer
    <2>2. UNCHANGED review /\ UNCHANGED routing
      BY <1>20 DEF CheckCoverage, review
    <2> QED
      BY <1>20, <2>1, <2>2, UntouchedTypes DEF CheckCoverage, Onward, Place
  <1>21. CASE ValidateBlockings
    <2>1. response \in Response
      BY <1>21 DEF ValidateBlockings, Deciding, Answered, GoodResponse
    <2>2. response' \in Response
      BY <1>21, <2>1, ValidatedResponse DEF ValidateBlockings
    <2>3. ReviewOK'
      BY <1>21, <2>2 DEF ValidateBlockings, ReviewOK
    <2> QED
      BY <1>21, <2>3, UntouchedTypes DEF ValidateBlockings, Place
  <1>22. CASE ApplyGates
    <2>1. CASE Raise("no_receipt")
      BY <2>1, EndedTypes DEF Raise
    <2>2. CASE ~ Raise("no_receipt")
      <3>1. Final \in Response
        BY <1>22, FinalIsGood DEF ApplyGates
      <3>2. outcome' = [status |-> "finalizing", why |-> "none",
                        response |-> Final, scope |-> scope, head |-> head,
                        version |-> Version]
        BY <1>22, <2>2 DEF ApplyGates
      <3>3. outcome' \in Outcome
        BY <3>1, <3>2 DEF Outcome, Version, LocalOK, ReviewOK
      <3>4. StoredOK'
        BY <1>22, <2>2, <3>3 DEF ApplyGates, StoredOK
      <3> QED
        BY <1>22, <2>2, <3>4, UntouchedTypes DEF ApplyGates, Place, channels
    <2> QED
      BY <2>1, <2>2
  <1>23. CASE Finalize
    <2>1. StoredOK'
      BY <1>23, RowsAreRows DEF Finalize, StoredOK
    <2> QED
      BY <1>23, <2>1, UntouchedTypes DEF Finalize, Place, channels
  <1>24. CASE FinalizeLost \/ InsertAgentRuns
    BY <1>24, UntouchedTypes DEF FinalizeLost, InsertAgentRuns, Place, channels
  <1>25. CASE Return
    <2>1. StoredOK'
      BY <1>25 DEF Return, StoredOK, Outcome
    <2> QED
      BY <1>25, <2>1, UntouchedTypes DEF Return, Place, channels
  <1>26. CASE StepRaises
    BY <1>26, EndedTypes DEF StepRaises, Raise
  <1>27. CASE WorkerDies
    BY <1>27, EndedTypes DEF WorkerDies
  <1>28. CASE UNCHANGED vars
    BY <1>28, UntouchedTypes DEF vars, channels
  <1> QED
    BY <1>1, <1>2, <1>3, <1>4, <1>5, <1>6, <1>7, <1>8, <1>9, <1>10, <1>11, <1>12,
       <1>13, <1>14, <1>15, <1>16, <1>17, <1>18, <1>19, <1>20, <1>21, <1>22,
       <1>23, <1>24, <1>25, <1>26, <1>27, <1>28
    DEF Next, Step

LEMMA ProgressStep ==
  ASSUME Inv, [Next]_vars
  PROVE  Progress'
  <1> USE DEF Inv, Progress, Running
  <1>1. CASE Push
    BY <1>1 DEF Push, local, super
  <1>2. CASE BeginAttempt
    <2>1. attempt' \in 1 .. MaxAttempts
      BY <1>2, BoundsAssumption DEF BeginAttempt, TypeOK, LocalOK
    <2> QED
      BY <1>2, <2>1 DEF BeginAttempt, super
  <1>3. CASE ResolveHead
    BY <1>3 DEF ResolveHead, TypeOK, WorldOK, super
  <1>4. CASE \/ RefuseHead \/ AllReviewersFailed \/ StepRaises \/ WorkerDies
    BY <1>4
    DEF RefuseHead, AllReviewersFailed, StepRaises, WorkerDies, Raise, EndWith
  <1>5. CASE \/ ProvisionWorktree \/ FetchDiff \/ Precheck \/ PrecheckFail
             \/ ScopeUnverified \/ ScopeSplit \/ ScopeReceipt \/ EarlyVerifier
             \/ Preflight \/ LiteReview \/ PlanRetry \/ PlanHalts
             \/ CollectFindings \/ CoverageHalts \/ WriteReview
             \/ ValidateBlockings \/ Finalize \/ FinalizeLost
             \/ InsertAgentRuns \/ Return
    BY <1>5
    DEF ProvisionWorktree, FetchDiff, Precheck, PrecheckFail, ScopeUnverified,
        ScopeSplit, ScopeReceipt, EarlyVerifier, Preflight, LiteReview, PlanRetry,
        PlanHalts, CollectFindings, CoverageHalts, WriteReview, ValidateBlockings,
        Finalize, FinalizeLost, InsertAgentRuns, Return, Onward, local, super
  <1>6. CASE Plan
    <2>1. response = Empty
      BY <1>6 DEF Plan, Deciding, Reviewing
    <2> QED
      BY <1>6, <2>1 DEF Plan, Onward, local
  <1>7. CASE \E who \in Reviewer : RunReviewer(who)
    BY <1>7 DEF RunReviewer, local
  <1>8. CASE CommitSuperstep
    BY <1>8 DEF CommitSuperstep, local
  <1>9. CASE CheckCoverage
    <2>1. response = Empty
      BY <1>9 DEF CheckCoverage, Deciding, Reviewing
    <2>2. PICK g \in SUBSET GapFill :
            /\ tasks' = Dispatch(g)
            /\ pc' = Onward(IF g = {} THEN "write_review" ELSE "run_gap_reviewer")
      BY <1>9 DEF CheckCoverage
    <2>3. /\ tasks' = g
          /\ pc' = IF g = {} THEN "write_review" ELSE "run_gap_reviewer"
      BY <2>1, <2>2 DEF Dispatch, Onward
    <2>4. written = {} /\ UNCHANGED written
      BY <1>9 DEF CheckCoverage
    <2> QED
      BY <1>9, <2>3, <2>4 DEF CheckCoverage, local
  <1>10. CASE ApplyGates
    BY <1>10 DEF ApplyGates, Raise, EndWith, local, super
  <1>11. CASE UNCHANGED vars
    BY <1>11 DEF vars, local, super
  <1> QED
    BY <1>1, <1>2, <1>3, <1>4, <1>5, <1>6, <1>7, <1>8, <1>9, <1>10, <1>11
    DEF Next, Step

\* A step of the graph that neither answers nor issues a receipt.
LEMMA DecidingKept ==
  ASSUME Deciding, UNCHANGED <<override, attempt, head, scope, response>>,
         \/ pc' = pc
         \/ pc' \in Routing /\ pc \in Routing
         \/ pc' \in Reviewing /\ pc \in Reviewing
         \/ pc' \notin Routing \cup Reviewing \cup Answered
  PROVE  Deciding'
  BY DEF Deciding, GoodReceipt, GoodResponse, Routing, Reviewing, Answered

LEMMA DecidingStep ==
  ASSUME Inv, [Next]_vars
  PROVE  Deciding'
  <1> USE DEF Inv
  <1>0. pc # "idle" => attempt \in 1 .. MaxAttempts
    BY DEF Progress
  <1>1. CASE \/ Push \/ PlanRetry \/ UNCHANGED vars
             \/ \E who \in Reviewer : RunReviewer(who)
    BY <1>1, DecidingKept
    DEF Push, PlanRetry, RunReviewer, vars, world, local, channels, review
  <1>2. CASE BeginAttempt
    BY <1>2 DEF BeginAttempt, Deciding, Routing, Reviewing, Answered
  <1>3. CASE ResolveHead
    BY <1>3 DEF ResolveHead, Deciding, Routing, Reviewing, Answered
  <1>4. CASE \/ RefuseHead \/ AllReviewersFailed \/ StepRaises \/ WorkerDies
    BY <1>4
    DEF RefuseHead, AllReviewersFailed, StepRaises, WorkerDies, Raise, EndWith,
        Deciding, Routing, Reviewing, Answered
  <1>5. CASE \/ ProvisionWorktree \/ Finalize \/ FinalizeLost
             \/ InsertAgentRuns \/ Return
    BY <1>5
    DEF ProvisionWorktree, Finalize, FinalizeLost, InsertAgentRuns, Return,
        Deciding, Routing, Reviewing, Answered
  <1>6. CASE FetchDiff
    BY <1>6 DEF FetchDiff, ResetDecision, Deciding, Routing, Reviewing, Answered
  <1>7. CASE \/ Precheck \/ EarlyVerifier \/ Preflight \/ CollectFindings
    BY <1>7, DecidingKept
    DEF Precheck, EarlyVerifier, Preflight, CollectFindings, Routing, Reviewing,
        world, local, channels, review
  <1>8. CASE PrecheckFail
    <2>1. {Marker("rule", "rule", "BLOCKING")} \in SUBSET Finding
      BY MarkersAreFindings
    <2>2. GoodResponse(response')
      BY <1>0, <1>8, <2>1, AnswerIsGood
      DEF PrecheckFail, Node, Verdict, Risk, High
    <2> QED
      BY <1>8, <2>2
      DEF PrecheckFail, Deciding, GoodResponse, Routing, Reviewing, Answered, local
  <1>9. CASE ScopeUnverified \/ ScopeSplit \/ PlanHalts \/ CoverageHalts
    <2>1. GoodResponse(response')
      BY <1>0, <1>9, HaltIsGood
      DEF ScopeUnverified, ScopeSplit, PlanHalts, CoverageHalts, Node, HaltCode
    <2>2. scope = None \/ GoodReceipt(scope)
      BY <1>9
      DEF ScopeUnverified, ScopeSplit, PlanHalts, CoverageHalts, Deciding,
          Routing, Reviewing
    <2> QED
      BY <1>9, <2>1, <2>2
      DEF ScopeUnverified, ScopeSplit, PlanHalts, CoverageHalts, Deciding,
          GoodReceipt, GoodResponse, Routing, Reviewing, Answered, local, world
  <1>10. CASE ScopeReceipt
    <2>1. response = Empty /\ head \in Head
      BY <1>10 DEF ScopeReceipt, Deciding, Progress, Routing
    <2>2. pc' = "early_verifier" /\ UNCHANGED <<override, head, attempt, response>>
      BY <1>10, <2>1 DEF ScopeReceipt, Onward, local, world
    <2>3. /\ scope' \in Receipt
          /\ scope'.head = head /\ scope'.at = attempt
          /\ scope'.multi => override = head
      BY <1>0, <1>10, <2>1 DEF ScopeReceipt, Receipt, Overridden
    <2> QED
      BY <2>1, <2>2, <2>3 DEF Deciding, GoodReceipt, Routing, Reviewing, Answered
  <1>11. CASE LiteReview \/ WriteReview
    <2>1. PICK by \in {"lite_review", "write_review"}, v \in Verdict,
               k \in LlmRisk, found \in SUBSET Issue :
            response' = Answer(by, v, k, {IssueFinding(i) : i \in found})
      BY <1>11 DEF LiteReview, WriteReview
    <2>2. GoodResponse(response') /\ response'.halt = "none"
      BY <1>0, <1>11, <2>1, AnswerIsGood, IssuesAreFindings, SetsAssumption
      DEF LiteReview, WriteReview, Node
    <2>3. GoodReceipt(scope)
      BY <1>11 DEF LiteReview, WriteReview, Deciding, Reviewing
    <2> QED
      BY <1>11, <2>2, <2>3
      DEF LiteReview, WriteReview, Deciding, GoodReceipt, GoodResponse,
          Routing, Reviewing, Answered, local, world
  <1>12. CASE Plan
    <2>1. response = Empty /\ GoodReceipt(scope)
      BY <1>12 DEF Plan, Deciding, Reviewing
    <2>2. /\ pc' = "run_reviewer"
          /\ UNCHANGED <<override, head, attempt, response>>
          /\ scope' \in {scope, [scope EXCEPT !.overridden = TRUE]}
      BY <1>12, <2>1 DEF Plan, Onward, local, world
    <2>3. /\ scope' \in Receipt
          /\ scope'.head = head /\ scope'.at = attempt
          /\ scope'.multi => override = head
      BY <2>1, <2>2 DEF GoodReceipt, Receipt
    <2> QED
      BY <2>1, <2>2, <2>3 DEF Deciding, GoodReceipt, Routing, Reviewing, Answered
  <1>13. CASE CommitSuperstep
    BY <1>13, DecidingKept DEF CommitSuperstep, Reviewing, local, world
  <1>14. CASE CheckCoverage
    <2>1. response = Empty
      BY <1>14 DEF CheckCoverage, Deciding, Reviewing
    <2>2. pc' \in Reviewing
      BY <1>14, <2>1 DEF CheckCoverage, Onward, Reviewing
    <2>3. pc \in Reviewing
      BY <1>14 DEF CheckCoverage, Reviewing
    <2> QED
      BY <1>14, <2>2, <2>3, DecidingKept DEF CheckCoverage, local, world
  <1>15. CASE ValidateBlockings
    <2>1. GoodResponse(response) /\ response.halt = "none"
          /\ (scope = None \/ GoodReceipt(scope))
      BY <1>15 DEF ValidateBlockings, Deciding, Answered
    <2>2. GoodResponse(response')
      BY <1>15, <2>1, ValidatedResponse
      DEF ValidateBlockings, GoodResponse, SameOrigin
    <2> QED
      BY <1>15, <2>1, <2>2
      DEF ValidateBlockings, Deciding, GoodReceipt, GoodResponse,
          Routing, Reviewing, Answered, local, world
  <1>16. CASE ApplyGates
    BY <1>16
    DEF ApplyGates, Raise, EndWith, Deciding, Routing, Reviewing, Answered
  <1> QED
    BY <1>1, <1>2, <1>3, <1>4, <1>5, <1>6, <1>7, <1>8, <1>9, <1>10, <1>11, <1>12,
       <1>13, <1>14, <1>15, <1>16
    DEF Next, Step

\* While nothing has been decided, a step of the graph decides nothing.
LEMMA DecidedKept ==
  ASSUME Decided, UNCHANGED outcome,
         pc \notin Storing \cup {"idle"}, pc' \notin Storing \cup {"idle"}
  PROVE  Decided'
  BY DEF Decided, Storing

LEMMA DecidedStep ==
  ASSUME Inv, [Next]_vars
  PROVE  Decided'
  <1> USE DEF Inv
  <1>1. CASE Push \/ UNCHANGED vars
    BY <1>1
    DEF Push, vars, world, local, stored, channels, routing, review, Decided,
        GoodReceipt, GoodResponse, NothingAgainst
  <1>2. CASE BeginAttempt
    BY <1>2 DEF BeginAttempt, Decided, NoOutcome, Storing
  <1>3. CASE \/ ResolveHead \/ ProvisionWorktree \/ FetchDiff \/ Precheck
             \/ PrecheckFail \/ ScopeUnverified \/ ScopeSplit \/ EarlyVerifier
             \/ Preflight \/ LiteReview \/ PlanRetry \/ PlanHalts
             \/ CommitSuperstep \/ CollectFindings \/ CoverageHalts
             \/ WriteReview \/ ValidateBlockings
    BY <1>3, DecidedKept
    DEF ResolveHead, ProvisionWorktree, FetchDiff, Precheck, PrecheckFail,
        ScopeUnverified, ScopeSplit, EarlyVerifier, Preflight, LiteReview,
        PlanRetry, PlanHalts, CommitSuperstep, CollectFindings, CoverageHalts,
        WriteReview, ValidateBlockings, Storing, stored
  <1>4. CASE ScopeReceipt \/ Plan
    BY <1>4, DecidedKept DEF ScopeReceipt, Plan, Onward, Storing, stored
  <1>5. CASE CheckCoverage
    BY <1>5, DecidedKept DEF CheckCoverage, Onward, Storing, stored
  <1>6. CASE \E who \in Reviewer : RunReviewer(who)
    BY <1>6, DecidedKept DEF RunReviewer, Storing, stored
  <1>7. CASE \/ RefuseHead \/ AllReviewersFailed \/ StepRaises \/ WorkerDies
    BY <1>7
    DEF RefuseHead, AllReviewersFailed, StepRaises, WorkerDies, Raise, EndWith,
        NoOutcome, Decided, Storing
  <1>8. CASE ApplyGates
    <2>1. CASE Raise("no_receipt")
      BY <2>1 DEF Raise, EndWith, NoOutcome, Decided, Storing
    <2>2. CASE ~ Raise("no_receipt")
      <3>1. /\ pc' = "finalize"
            /\ outcome' = [status |-> "finalizing", why |-> "none",
                           response |-> Final, scope |-> scope, head |-> head,
                           version |-> Version]
            /\ UNCHANGED <<world, local, channels>>
            /\ NeedsReceipt(Final) => CoherentReceipt
        BY <1>8, <2>2 DEF ApplyGates
      <3>2. /\ GoodResponse(Final)
            /\ Final.verdict = "APPROVE" => Final.halt = "none" /\ NothingAgainst
        BY <1>8, FinalIsGood DEF ApplyGates
      <3>3. scope = None \/ GoodReceipt(scope)
        BY <1>8 DEF ApplyGates, Deciding, Answered
      <3>4. Final.verdict = "APPROVE" => scope # None
        BY <3>1, <3>2 DEF NeedsReceipt, CoherentReceipt
      <3>5. attempt \in 1 .. MaxAttempts /\ head \in Head
        BY <1>8 DEF ApplyGates, Progress
      <3>6. GoodResponse(outcome'.response) /\ outcome'.status = "finalizing"
            /\ outcome'.scope = scope /\ outcome'.response = Final
            /\ outcome'.head = head
        BY <3>1, <3>2
      <3>7. UNCHANGED <<override, attempt, head, results, bench, badScanners>>
        BY <3>1 DEF world, local, channels, routing, review
      <3> QED
        BY <3>1, <3>2, <3>3, <3>4, <3>5, <3>6, <3>7
        DEF Decided, GoodReceipt, GoodResponse, NothingAgainst, Storing
    <2> QED
      BY <2>1, <2>2
  <1>9. CASE Finalize \/ FinalizeLost \/ InsertAgentRuns
    BY <1>9
    DEF Finalize, FinalizeLost, InsertAgentRuns, Decided, GoodReceipt,
        GoodResponse, NothingAgainst, Storing, world, local, stored, channels,
        routing, review
  <1>10. CASE Return
    <2>1. /\ pc = "return" /\ pc' = "idle"
          /\ outcome' = [outcome EXCEPT !.status = "returned"]
          /\ UNCHANGED <<override, attempt, head, results, bench, badScanners>>
      BY <1>10 DEF Return, world, local, channels, routing, review
    <2>2. outcome \in Outcome
      BY DEF TypeOK, StoredOK
    <2>3. /\ outcome'.status = "returned"
          /\ outcome'.response = outcome.response
          /\ outcome'.scope = outcome.scope /\ outcome'.head = outcome.head
      BY <2>1, <2>2 DEF Outcome
    <2> QED
      BY <2>1, <2>3
      DEF Decided, GoodReceipt, GoodResponse, NothingAgainst, Storing
  <1> QED
    BY <1>1, <1>2, <1>3, <1>4, <1>5, <1>6, <1>7, <1>8, <1>9, <1>10 DEF Next, Step

-----------------------------------------------------------------------------
(* The theorems *)

\* The inductive invariant: where the attempt stands (Progress), what the nodes
\* ahead may find in the channels (Deciding), what has been decided (Decided).
THEOREM InvHolds == Spec => []Inv
  <1>1. Init => Inv
    <2> SUFFICES ASSUME Init
                 PROVE  Inv
      OBVIOUS
    <2>0. 0 \in 0 .. MaxPushes /\ 0 \in 0 .. MaxAttempts /\ 0 \in 0 .. PlanAttempts
      BY BoundsAssumption
    <2>1. WorldOK /\ LocalOK /\ SuperOK /\ pc \in Place
      BY <2>0 DEF Init, WorldOK, LocalOK, SuperOK, Place
    <2>2. RoutingOK /\ ReviewOK
      BY <2>0 DEF Init, RoutingOK, ReviewOK, NoVerification
    <2>3. StoredOK
      BY EndedIsOutcome DEF Init, StoredOK, NoRow, Row
    <2>4. Progress /\ Deciding /\ Decided
      BY DEF Init, Progress, Deciding, Decided, NoOutcome, Running, Routing,
             Reviewing, Answered, Storing
    <2> QED
      BY <2>1, <2>2, <2>3, <2>4 DEF Inv, TypeOK
  <1>2. Inv /\ [Next]_vars => Inv'
    BY TypeStep, ProgressStep, DecidingStep, DecidedStep DEF Inv
  <1> QED
    BY <1>1, <1>2, PTL DEF Spec

\* Type correctness of the pipeline, for every value of the constants.
THEOREM TypeCorrect == Spec => []TypeOK
  <1>1. Inv => TypeOK
    BY DEF Inv
  <1> QED
    BY <1>1, InvHolds, PTL

\* What an attempt returns was decided by that attempt: neither the answer nor
\* the receipt is one the checkpointer kept from an earlier one.
THEOREM AnswersAreCurrent == Spec => []AnswerIsCurrent
  <1>1. Inv => AnswerIsCurrent
    BY DEF Inv, Decided, AnswerIsCurrent, Returned, GoodResponse, GoodReceipt
  <1> QED
    BY <1>1, InvHolds, PTL

\* An APPROVE that reaches the caller is no halt, rests on a receipt this
\* attempt issued for the head it reviewed, and has no failed session, no bench
\* change and no scanner failure that blocks against it.
THEOREM ApprovalsAreEarned == Spec => []ApproveIsEarned
  <1>1. Inv => ApproveIsEarned
    <2> SUFFICES ASSUME Inv, Approved
                 PROVE  /\ outcome.response.halt = "none"
                        /\ outcome.scope # None
                        /\ outcome.scope.head = outcome.head
                        /\ outcome.scope.at = attempt
                        /\ outcome.scope.multi => override = outcome.head
                        /\ NothingAgainst
      BY DEF ApproveIsEarned, NothingAgainst
    <2> QED
      BY DEF Inv, Decided, Approved, Returned, GoodResponse, GoodReceipt
  <1> QED
    BY <1>1, InvHolds, PTL

\* What a decided answer carries for each session that failed.
FailuresTold ==
  outcome.status \in {"finalizing", "returned"} /\ outcome.response.halt = "none" =>
    \A r \in results : ~ r.ok =>
      /\ outcome.response.verdict = "BLOCKING"
      /\ Marker("reviewer-gap", r.who, "BLOCKING") \in outcome.response.findings

\* Decided at the gates, and kept while the answer is stored and returned.
LEMMA FailuresToldStep ==
  ASSUME Inv, FailuresTold, [Next]_vars
  PROVE  FailuresTold'
  <1> USE DEF Inv
  <1>1. CASE ApplyGates
    <2>1. CASE Raise("no_receipt")
      BY <2>1 DEF Raise, EndWith, NoOutcome, FailuresTold
    <2>2. CASE ~ Raise("no_receipt") /\ response.halt # "none"
      BY <1>1, <2>2 DEF ApplyGates, Final, FailuresTold
    <2>3. CASE ~ Raise("no_receipt") /\ response.halt = "none"
      <3>1. outcome'.response = Final /\ UNCHANGED results
        BY <1>1, <2>3 DEF ApplyGates, channels, review
      <3>2. Final = Gated(response, FailedReviewers, badScanners,
                          BlockOnScannerFailure, bench)
        BY <2>3 DEF Final
      <3>3. response \in Response
        BY <1>1 DEF ApplyGates, Deciding, Answered, GoodResponse
      <3>4. /\ FailedReviewers \in SUBSET Reviewer
            /\ badScanners \in SUBSET {"scanner"} /\ bench \in BOOLEAN
        BY DEF FailedReviewers, TypeOK, ReviewOK, RoutingOK, Result
      <3>5. BlockOnScannerFailure \in BOOLEAN
        BY SwitchesAssumption
      <3>6. \A q \in FailedReviewers :
              /\ Final.verdict = "BLOCKING"
              /\ Marker("reviewer-gap", q, "BLOCKING") \in Final.findings
        BY <3>2, <3>3, <3>4, <3>5, GatedGaps
      <3>7. \A r \in results : ~ r.ok => r.who \in FailedReviewers
        BY DEF FailedReviewers
      <3> QED
        BY <3>1, <3>6, <3>7 DEF FailuresTold
    <2> QED
      BY <2>1, <2>2, <2>3
  <1>2. CASE \/ Push \/ Finalize \/ FinalizeLost \/ InsertAgentRuns \/ UNCHANGED vars
    BY <1>2
    DEF Push, Finalize, FinalizeLost, InsertAgentRuns, vars, stored, channels,
        review, FailuresTold
  <1>3. CASE Return
    <2>1. /\ outcome' = [outcome EXCEPT !.status = "returned"] /\ UNCHANGED results
          /\ outcome.status = "finalizing"
      BY <1>3 DEF Return, channels, review, Decided, Storing
    <2>2. outcome'.response = outcome.response
      BY <2>1 DEF TypeOK, StoredOK, Outcome
    <2> QED
      BY <2>1, <2>2 DEF FailuresTold
  <1>4. CASE \/ BeginAttempt \/ RefuseHead \/ AllReviewersFailed
             \/ StepRaises \/ WorkerDies
    <2>1. outcome'.status \in {"none", "raised", "died"}
      <3>1. CASE BeginAttempt
        BY <3>1 DEF BeginAttempt, NoOutcome
      <3>2. CASE ~ BeginAttempt
        BY <1>4, <3>2
        DEF RefuseHead, AllReviewersFailed, StepRaises, WorkerDies, Raise, EndWith,
            NoOutcome
      <3> QED
        BY <3>1, <3>2
    <2> QED
      BY <2>1 DEF FailuresTold
  <1>5. CASE \/ ResolveHead \/ ProvisionWorktree \/ FetchDiff \/ Precheck
             \/ PrecheckFail \/ ScopeUnverified \/ ScopeSplit \/ ScopeReceipt
             \/ EarlyVerifier \/ Preflight \/ LiteReview \/ PlanRetry \/ Plan
             \/ PlanHalts \/ CommitSuperstep \/ CollectFindings \/ CheckCoverage
             \/ CoverageHalts \/ WriteReview \/ ValidateBlockings
             \/ \E who \in Reviewer : RunReviewer(who)
    <2>1. pc \notin Storing \cup {"idle"} /\ UNCHANGED outcome
      BY <1>5
      DEF ResolveHead, ProvisionWorktree, FetchDiff, Precheck, PrecheckFail,
          ScopeUnverified, ScopeSplit, ScopeReceipt, EarlyVerifier, Preflight,
          LiteReview, PlanRetry, Plan, PlanHalts, CommitSuperstep, CollectFindings,
          CheckCoverage, CoverageHalts, WriteReview, ValidateBlockings, RunReviewer,
          Storing, stored
    <2>2. outcome.status = "none"
      BY <2>1 DEF Decided
    <2> QED
      BY <2>1, <2>2 DEF FailuresTold
  <1> QED
    BY <1>1, <1>2, <1>3, <1>4, <1>5 DEF Next, Step

\* helpers.apply_reviewer_failure_gate: whichever session of either fan-out failed,
\* in this attempt or in one whose channels are kept, the answer that is no halt is
\* BLOCKING and names it, and no later gate or step takes that back.
THEOREM FailedSessionsBlock == Spec => []FailedSessionBlocks
  <1>1. Init => FailuresTold
    BY DEF Init, NoOutcome, FailuresTold
  <1>2. FailuresTold => FailedSessionBlocks
    BY DEF FailuresTold, FailedSessionBlocks, Returned
  <1> QED
    BY <1>1, <1>2, FailuresToldStep, InvHolds, PTL DEF Spec

\* Once an attempt has halted, no reviewer session of it starts or reports.
THEOREM HaltsStopWork == Spec => HaltStopsWork
  <1> DEFINE A == response.halt # "none" /\ response.at = attempt
                    /\ attempt' = attempt
                  => tasks' \subseteq tasks /\ results' = results
  <1>1. Inv /\ [Next]_vars => [A]_vars
    <2> SUFFICES ASSUME Inv, [Next]_vars, response.halt # "none",
                        attempt' = attempt
                 PROVE  tasks' \subseteq tasks /\ results' = results
      OBVIOUS
    <2>1. pc \notin Reviewing \cup Routing
      BY DEF Inv, Deciding, Empty
    <2>2. CASE \/ Push \/ ResolveHead \/ ProvisionWorktree \/ FetchDiff
               \/ ValidateBlockings \/ Finalize \/ FinalizeLost
               \/ InsertAgentRuns \/ Return \/ UNCHANGED vars
      BY <2>2
      DEF Push, ResolveHead, ProvisionWorktree, FetchDiff, ValidateBlockings,
          Finalize, FinalizeLost, InsertAgentRuns, Return, vars, super,
          channels, review
    <2>3. CASE BeginAttempt
      BY <2>3 DEF BeginAttempt, Inv, TypeOK, LocalOK
    <2>4. CASE \/ RefuseHead \/ ApplyGates \/ StepRaises \/ WorkerDies
      BY <2>4
      DEF RefuseHead, ApplyGates, StepRaises, WorkerDies, Raise, EndWith, super,
          channels, review
    <2>5. ~ \/ Precheck \/ PrecheckFail \/ ScopeUnverified \/ ScopeSplit
            \/ ScopeReceipt \/ EarlyVerifier \/ Preflight \/ LiteReview
            \/ PlanRetry \/ Plan \/ PlanHalts
            \/ \E who \in Reviewer : RunReviewer(who)
            \/ CommitSuperstep \/ CollectFindings \/ AllReviewersFailed
            \/ CheckCoverage \/ CoverageHalts \/ WriteReview
      BY <2>1
      DEF Precheck, PrecheckFail, ScopeUnverified, ScopeSplit, ScopeReceipt,
          EarlyVerifier, Preflight, LiteReview, PlanRetry, Plan, PlanHalts,
          RunReviewer, CommitSuperstep, CollectFindings, AllReviewersFailed,
          CheckCoverage, CoverageHalts, WriteReview, Reviewing, Routing
    <2> QED
      BY <2>2, <2>3, <2>4, <2>5 DEF Next, Step
  <1> QED
    BY <1>1, InvHolds, PTL DEF Spec, HaltStopsWork

-----------------------------------------------------------------------------
(* The workload *)

\* A plan within the budget, or under the ceiling on an override, dispatches
\* no more sessions than that: the always-on reviewers are two.
LEMMA PlanIsBounded ==
  ASSUME NEW p \in SUBSET Planned, WithinBudget(p)
  PROVE  /\ Cardinality(p \cup AlwaysOn) <= FanoutCeiling
         /\ Cardinality(p \cup AlwaysOn) > DispatchBudget => override = head
  <1>1. IsFiniteSet(p)
    BY FS_Subset, ReviewersAssumption
  <1>2. IsFiniteSet(p \cap AlwaysOn)
    BY <1>1, FS_Subset
  <1>3. /\ Cardinality(p) \in Nat /\ Cardinality(p \cap AlwaysOn) \in Nat
        /\ Cardinality(p \cup AlwaysOn) =
             Cardinality(p) + Cardinality(AlwaysOn) - Cardinality(p \cap AlwaysOn)
    BY <1>1, <1>2, FS_CardinalityType, FS_Union, ReviewersAssumption
  <1>4. Cardinality(p \cup AlwaysOn) <= DispatchCount(p)
    BY <1>3, ReviewersAssumption DEF DispatchCount
  <1> QED
    BY <1>3, <1>4, ReviewersAssumption, BoundsAssumption
    DEF WithinBudget, Overridden, DispatchCount

\* A step that dispatches nobody, and does not enter the fan-out, is bounded.
LEMMA NobodyDispatched ==
  ASSUME tasks' = {}, written' = {}
  PROVE  DispatchBounded'
  <1>1. Dispatched' = {}
    BY DEF Dispatched
  <1>2. Cardinality(Dispatched') = 0
    BY <1>1, FS_EmptySet
  <1> QED
    BY <1>2, BoundsAssumption DEF DispatchBounded

\* More sessions than the budget run only on an override for this head, and
\* more than the ceiling never, in either fan-out.
THEOREM DispatchesAreBounded == Spec => []DispatchBounded
  <1>1. Init => DispatchBounded
    <2>1. Init => Dispatched = {}
      BY DEF Init, Dispatched
    <2> QED
      BY <2>1, FS_EmptySet, BoundsAssumption DEF DispatchBounded
  <1>2. Inv /\ DispatchBounded /\ Progress' /\ [Next]_vars => DispatchBounded'
    <2> SUFFICES ASSUME Inv, DispatchBounded, Progress', [Next]_vars
                 PROVE  DispatchBounded'
      OBVIOUS
    <2>1. CASE pc' \notin Running
      BY <2>1, NobodyDispatched DEF Progress
    <2>2. CASE Plan
      <3>1. PICK p \in SUBSET Planned :
              WithinBudget(p) /\ tasks' = Dispatch(p \cup AlwaysOn)
        BY <2>2 DEF Plan
      <3>2. response = Empty /\ written = {}
        BY <2>2 DEF Plan, Inv, Deciding, Progress, Reviewing, Running
      <3>3. Dispatched' = p \cup AlwaysOn
        BY <2>2, <3>1, <3>2 DEF Plan, Dispatch, Dispatched
      <3>4. UNCHANGED <<override, head>>
        BY <2>2 DEF Plan, world, local
      <3> QED
        BY <3>1, <3>3, <3>4, PlanIsBounded DEF DispatchBounded
    <2>3. CASE CheckCoverage
      <3>1. PICK g \in SUBSET GapFill :
              /\ Cardinality(g) <= FanoutCeiling
              /\ tasks' = Dispatch(g)
              /\ pc' = Onward(IF g = {} THEN "write_review" ELSE "run_gap_reviewer")
        BY <2>3 DEF CheckCoverage
      <3>2. response = Empty /\ written = {}
        BY <2>3 DEF CheckCoverage, Inv, Deciding, Progress, Reviewing, Running
      <3>3. Dispatched' = g /\ pc' # "run_reviewer"
        BY <2>3, <3>1, <3>2 DEF CheckCoverage, Dispatch, Dispatched, Onward
      <3> QED
        BY <3>1, <3>3 DEF DispatchBounded
    <2>4. CASE \E who \in Reviewer : RunReviewer(who)
      <3>1. PICK who \in tasks :
              /\ tasks' = tasks \ {who}
              /\ \E ok \in BOOLEAN :
                   written' = written \cup {[who |-> who, at |-> attempt, ok |-> ok]}
              /\ UNCHANGED <<pc, override, head>>
        BY <2>4 DEF RunReviewer, world, local
      <3>2. PICK ok \in BOOLEAN :
              written' = written \cup {[who |-> who, at |-> attempt, ok |-> ok]}
        BY <3>1
      <3>3. { r.who : r \in written' } = { r.who : r \in written } \cup {who}
        <4> DEFINE mark == [who |-> who, at |-> attempt, ok |-> ok]
        <4>1. written' = written \cup {mark} /\ mark.who = who
          BY <3>2
        <4> HIDE DEF mark
        <4> QED
          BY <4>1
      <3>4. Dispatched' = Dispatched
        BY <3>1, <3>3 DEF Dispatched
      <3> QED
        BY <3>1, <3>4 DEF DispatchBounded
    <2>5. CASE Push \/ UNCHANGED vars
      BY <2>5
      DEF Push, vars, world, local, super, Dispatched, DispatchBounded
    <2>6. CASE pc' \in Running /\ ~ Push /\ ~ Plan /\ ~ CheckCoverage
               /\ ~ (\E who \in Reviewer : RunReviewer(who)) /\ ~ UNCHANGED vars
      <3>1. response = Empty \/ pc \notin Reviewing
        BY DEF Inv, Deciding
      <3> QED
        BY <2>6, <3>1
        DEF Next, Step, Running, Reviewing, BeginAttempt, ResolveHead, RefuseHead,
            ProvisionWorktree, FetchDiff, Precheck, PrecheckFail, ScopeUnverified,
            ScopeSplit, ScopeReceipt, Onward, EarlyVerifier, Preflight, LiteReview,
            PlanRetry, PlanHalts, CommitSuperstep, CollectFindings,
            AllReviewersFailed, CoverageHalts, WriteReview, ValidateBlockings,
            ApplyGates, Finalize, FinalizeLost, InsertAgentRuns, Return,
            StepRaises, WorkerDies, Raise, EndWith
    <2> QED
      BY <2>1, <2>2, <2>3, <2>4, <2>5, <2>6
  <1>3. Inv => Progress
    BY DEF Inv
  <1> QED
    BY <1>1, <1>2, <1>3, InvHolds, PTL DEF Spec

-----------------------------------------------------------------------------
(* The pipeline implements ReviewContract *)

\* What the contract calls stored.
recorded == [verdict |-> row.verdict, sha |-> row.sha]

\* A decision of the pipeline is one of the contract, and never None.
LEMMA DecisionsAreDecisions ==
  ASSUME NEW o \in Outcome, o.head \in Head
  PROVE  DecisionOf(o) \in Contract!Decision /\ DecisionOf(o) # None
  <1>1. o.response.verdict \in {"APPROVE", "BLOCKING"}
    BY DEF Outcome, Response, Empty, Verdict
  <1>2. o.scope = None \/ o.scope.head \in Head
    BY DEF Outcome, Receipt
  <1>3. DecisionOf(o) \in [head : Head, verdict : {"APPROVE", "BLOCKING"},
                           halted : BOOLEAN, receipt : Head \cup {None}]
    BY <1>1, <1>2 DEF DecisionOf
  <1> QED
    BY <1>3, SetsAssumption DEF Contract!Decision, Verdict

\* An attempt that ends with an exception or its worker is an abort.
LEMMA EndedAborts ==
  ASSUME Inv, pc # "idle", NEW status \in {"raised", "died"}, NEW why,
         EndWith(status, why), UNCHANGED row
  PROVE  Contract!CAbort
  <1>1. outcome.status # "returned"
    BY DEF Inv, Decided
  <1>2. outcome'.status = status
    BY DEF EndWith, NoOutcome
  <1> QED
    BY <1>1, <1>2 DEF EndWith, Contract!CAbort

\* A step that keeps outcome and row, inside an attempt, is none of the contract.
LEMMA InnerStepsStutter ==
  ASSUME UNCHANGED stored, pc = "idle" <=> pc' = "idle"
  PROVE  UNCHANGED Contract!cvars
  BY DEF stored, Contract!cvars, DecisionOf

LEMMA ContractStep ==
  ASSUME Inv, [Next]_vars
  PROVE  [Contract!CNext]_(Contract!cvars)
  <1> USE DEF Inv
  <1>1. CASE BeginAttempt
    <2>1. outcome.status \notin {"finalizing", "returned"}
      BY <1>1 DEF BeginAttempt, Decided
    <2>2. RunningRow(row).verdict = "NULL" /\ RunningRow(row).sha = row.sha
      BY DEF RunningRow, TypeOK, StoredOK, Row
    <2>3. \/ recorded' = recorded
          \/ recorded' = [recorded EXCEPT !.verdict = "NULL"]
      <3>1. row' = row \/ row' = RunningRow(row)
        BY <1>1 DEF BeginAttempt
      <3> QED
        BY <2>2, <3>1 DEF recorded
    <2>4. outcome'.status = "none"
      BY <1>1 DEF BeginAttempt, NoOutcome
    <2>5. Contract!CBegin
      BY <1>1, <2>1, <2>3, <2>4 DEF BeginAttempt, Contract!CBegin, recorded
    <2> QED
      BY <2>5 DEF Contract!CNext
  <1>2. CASE \/ RefuseHead \/ AllReviewersFailed \/ StepRaises \/ WorkerDies
    <2>1. Contract!CAbort
      BY <1>2, EndedAborts
      DEF RefuseHead, AllReviewersFailed, StepRaises, WorkerDies, Raise, Raising
    <2> QED
      BY <2>1 DEF Contract!CNext
  <1>3. CASE ApplyGates
    <2>1. CASE Raise("no_receipt")
      BY <1>3, <2>1, EndedAborts DEF ApplyGates, Raise, Contract!CNext
    <2>2. CASE ~ Raise("no_receipt")
      <3>1. /\ pc = "gates" /\ pc' = "finalize" /\ UNCHANGED row
            /\ outcome' = [status |-> "finalizing", why |-> "none",
                           response |-> Final, scope |-> scope, head |-> head,
                           version |-> Version]
            /\ NeedsReceipt(Final) => CoherentReceipt
        BY <1>3, <2>2 DEF ApplyGates
      <3>2. /\ GoodResponse(Final)
            /\ Final.verdict = "APPROVE" => Final.halt = "none" /\ NothingAgainst
        BY <3>1, FinalIsGood
      <3>3. outcome' \in Outcome /\ outcome'.head \in Head
        BY <3>1, TypeStep DEF TypeOK, StoredOK, Progress
      <3>4. DecisionOf(outcome') \in Contract!Decision
        BY <3>3, DecisionsAreDecisions
      <3>5. DecisionOf(outcome') =
              [head |-> head, verdict |-> Final.verdict,
               halted |-> Final.halt # "none",
               receipt |-> IF scope = None THEN None ELSE scope.head]
        BY <3>1 DEF DecisionOf
      <3>6. Contract!Sound(DecisionOf(outcome'))
        <4> DEFINE halts == Final.halt # "none"
        <4>1. DecisionOf(outcome').halted = halts
          BY <3>5
        <4>2. DecisionOf(outcome').halted => Final.verdict = "BLOCKING"
          BY <3>2, <4>1, Zenon DEF GoodResponse
        <4>3. Final.verdict = "APPROVE" => scope # None /\ scope.head = head
          BY <3>1, <3>2 DEF NeedsReceipt, CoherentReceipt
        <4> QED
          BY <3>5, <4>2, <4>3 DEF Contract!Sound
      <3>7. outcome.status = "none"
        BY <3>1 DEF Decided, Storing
      <3>8. Contract!CDecide
        BY <3>1, <3>4, <3>6, <3>7 DEF Contract!CDecide, DecisionOf
      <3> QED
        BY <3>8 DEF Contract!CNext
    <2> QED
      BY <2>1, <2>2
  <1>4. CASE Finalize
    <2>1. /\ outcome.status = "finalizing" /\ outcome \in Outcome
          /\ outcome.head \in Head
      BY <1>4 DEF Finalize, Decided, Storing, TypeOK, StoredOK
    <2>2. DecisionOf(outcome) # None
      BY <2>1, DecisionsAreDecisions
    <2>3. /\ pc # "idle" /\ pc' # "idle" /\ UNCHANGED outcome
          /\ row' = CompletedRow(outcome)
      BY <1>4 DEF Finalize
    <2>4. recorded' = [verdict |-> IF DecisionOf(outcome).halted THEN "NULL"
                                   ELSE DecisionOf(outcome).verdict,
                       sha     |-> DecisionOf(outcome).head]
      BY <2>3 DEF recorded, CompletedRow, DecisionOf
    <2>5. Contract!CStore
      BY <2>1, <2>2, <2>3, <2>4 DEF Contract!CStore, recorded
    <2> QED
      BY <2>5 DEF Contract!CNext
  <1>5. CASE Return
    <2>1. /\ outcome.status = "finalizing" /\ outcome \in Outcome
          /\ outcome.head \in Head
      BY <1>5 DEF Return, Decided, Storing, TypeOK, StoredOK
    <2>2. DecisionOf(outcome) # None
      BY <2>1, DecisionsAreDecisions
    <2>3. /\ pc # "idle" /\ pc' = "idle" /\ UNCHANGED row
          /\ outcome' = [outcome EXCEPT !.status = "returned"]
      BY <1>5 DEF Return
    <2>4. outcome'.status = "returned" /\ DecisionOf(outcome') = DecisionOf(outcome)
      BY <2>1, <2>3 DEF Outcome, DecisionOf
    <2>5. Contract!CReturn
      BY <2>1, <2>2, <2>3, <2>4 DEF Contract!CReturn, DecisionOf
    <2> QED
      BY <2>5 DEF Contract!CNext
  <1>6. CASE \/ Push \/ ResolveHead \/ ProvisionWorktree \/ FetchDiff \/ Precheck
             \/ PrecheckFail \/ ScopeUnverified \/ ScopeSplit \/ ScopeReceipt
             \/ EarlyVerifier \/ Preflight \/ LiteReview \/ PlanRetry \/ Plan
             \/ PlanHalts \/ (\E who \in Reviewer : RunReviewer(who))
             \/ CommitSuperstep \/ CollectFindings \/ CheckCoverage
             \/ CoverageHalts \/ WriteReview \/ ValidateBlockings
             \/ FinalizeLost \/ InsertAgentRuns \/ UNCHANGED vars
    <2>1. UNCHANGED stored /\ (pc = "idle" <=> pc' = "idle")
      BY <1>6
      DEF Push, ResolveHead, ProvisionWorktree, FetchDiff, Precheck, PrecheckFail,
          ScopeUnverified, ScopeSplit, ScopeReceipt, EarlyVerifier, Preflight,
          LiteReview, PlanRetry, Plan, PlanHalts, RunReviewer, CommitSuperstep,
          CollectFindings, CheckCoverage, CoverageHalts, WriteReview,
          ValidateBlockings, FinalizeLost, InsertAgentRuns, Onward, vars
    <2> QED
      BY <2>1, InnerStepsStutter
  <1> QED
    BY <1>1, <1>2, <1>3, <1>4, <1>5, <1>6 DEF Next, Step

\* One decision per attempt, stored and returned as it was taken, a halt stored
\* with no verdict, an approval backed by a receipt for its head.
THEOREM PipelineImplementsContract == Spec => ImplementsContract
  <1>1. Init => Contract!CInit
    BY DEF Init, Contract!CInit, NoOutcome, NoRow
  <1>2. Inv /\ [Next]_vars => [Contract!CNext]_(Contract!cvars)
    BY ContractStep
  <1> QED
    BY <1>1, <1>2, InvHolds, PTL DEF Spec, ImplementsContract, Contract!CSpec

=============================================================================
