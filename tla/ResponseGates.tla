--------------------------- MODULE ResponseGates ---------------------------
(***************************************************************************)
(* The decisions argus makes about a ReviewResponse after a language model *)
(* has written it: the relevance validator's partition of its BLOCKING     *)
(* findings (graph._node_validate_blockings) and the deterministic gates   *)
(* of argus/helpers.py that run_review applies in a fixed order.           *)
(*                                                                         *)
(* A response is a record with at least the fields                         *)
(*   verdict  - "APPROVE" or "BLOCKING"                                    *)
(*   risk     - LOW = 0, MEDIUM = 1, HIGH = 2, CRITICAL = 3                *)
(*   findings - a set of [kind, ref, desc, sev]                            *)
(*   dropped  - the findings the validator moved to dropped_findings       *)
(* ref tells two findings apart; desc is the text the code compares.       *)
(* Comment bodies are rendered text and are left out.                      *)
(***************************************************************************)
EXTENDS Naturals, FiniteSets

High == 2
Risk == 0 .. 3
Verdict == {"APPROVE", "BLOCKING"}

\* What a finding is: written by a model, a verified precheck rule, or one of
\* the markers the gates synthesize (the last two are category coverage-gap).
Kind == {"llm", "rule", "scanner", "bench", "reviewer-gap", "scanner-gap"}

Marker(kind, ref, sev) ==
  [kind |-> kind, ref |-> ref, desc |-> ref, sev |-> sev]

Blockings(findings) == { f \in findings : f.sev = "BLOCKING" }

(***************************************************************************)
(* _node_validate_blockings.  The validator session rejects some of the    *)
(* BLOCKING findings; the code drops a finding when its DESCRIPTION is the *)
(* description of a rejected one, and recomputes the verdict only then.    *)
(***************************************************************************)
Drops(f, rejected) ==
  /\ f.sev = "BLOCKING"
  /\ f.desc \in { g.desc : g \in rejected }

VerdictFor(findings) ==
  IF Blockings(findings) = {} THEN "APPROVE" ELSE "BLOCKING"

Validated(resp, rejected) ==
  LET surviving == { f \in resp.findings : ~ Drops(f, rejected) }
  IN  IF rejected = {} THEN resp
      ELSE [resp EXCEPT !.findings = surviving,
                        !.dropped  = rejected,
                        !.verdict  = VerdictFor(surviving)]

\* Mutant: every gate that fires adds two levels.
RaisedRiskTwice(risk) == risk + High

\* Mutant: the level is overwritten.
RaisedRiskOverwritten(risk) == High

(***************************************************************************)
(* The gates only strengthen: the verdict becomes BLOCKING and the risk is *)
(* raised to HIGH, never overwritten when it is already CRITICAL.          *)
(***************************************************************************)
RaisedRisk(risk) == IF risk < High THEN High ELSE risk

Forced(resp) ==
  [resp EXCEPT !.verdict = "BLOCKING", !.risk = RaisedRisk(@)]

\* Mutant: scanner failures count only when something else was found.
ScannerGateFiresOnFindings(resp, scanners, blockOnFailure) ==
  /\ scanners # {}
  /\ resp.verdict # "BLOCKING"
  /\ blockOnFailure
  /\ resp.findings # {}

\* apply_precheck_scanner_failure_gate: a no-op unless a scanner gave no
\* coverage, the operator opted in, and the verdict is not BLOCKING already.
ScannerGateFires(resp, scanners, blockOnFailure) ==
  /\ scanners # {}
  /\ resp.verdict # "BLOCKING"
  /\ blockOnFailure

ScannerGate(resp, scanners, blockOnFailure) ==
  IF ScannerGateFires(resp, scanners, blockOnFailure)
  THEN [Forced(resp) EXCEPT
          !.findings = @ \cup {Marker("scanner", "scanner-gate", "BLOCKING")}]
  ELSE resp

\* Mutant: the scanners are always left out.
CoverageGapsOfReviewers(failedReviewers, scanners, gateFired) ==
  { Marker("reviewer-gap", r, "SUGGESTION") : r \in failedReviewers }

\* coverage_gap_findings_for_round: one SUGGESTION per session or scanner that
\* did not complete; the scanners are left out when the gate reported them.
CoverageGaps(failedReviewers, scanners, gateFired) ==
       { Marker("reviewer-gap", r, "SUGGESTION") : r \in failedReviewers }
  \cup { Marker("scanner-gap", s, "SUGGESTION") :
           s \in IF gateFired THEN {} ELSE scanners }

\* Mutant: the finding stays a SUGGESTION.
PromotedNever(f, failedReviewers) == f

\* apply_reviewer_failure_gate: a session that did not complete is worth no
\* less than a BLOCKING finding; there is no opt-out.
Promoted(f, failedReviewers) ==
  IF f.kind = "reviewer-gap" /\ f.ref \in failedReviewers
  THEN [f EXCEPT !.sev = "BLOCKING"]
  ELSE f

\* Mutant: a verdict that is BLOCKING already is left alone.
ReviewerGateOnApprove(resp, failedReviewers) ==
  IF failedReviewers = {} \/ resp.verdict = "BLOCKING" THEN resp
  ELSE [Forced(resp) EXCEPT
          !.findings = { Promoted(f, failedReviewers) : f \in @ }]

ReviewerGate(resp, failedReviewers) ==
  IF failedReviewers = {} THEN resp
  ELSE [Forced(resp) EXCEPT
          !.findings = { Promoted(f, failedReviewers) : f \in @ }]

\* apply_precheck_gate_and_surface_degraded_coverage: the scanner gate first,
\* then the coverage-gap findings, then the reviewer gate over those.
DegradedCoverage(resp, failedReviewers, scanners, blockOnFailure) ==
  LET fired == ScannerGateFires(resp, scanners, blockOnFailure)
      gated == ScannerGate(resp, scanners, blockOnFailure)
      gaps  == CoverageGaps(failedReviewers, scanners, fired)
  IN  ReviewerGate([gated EXCEPT !.findings = @ \cup gaps], failedReviewers)

\* Mutant: the finding is added and the verdict is not touched.
BenchGateAdvisory(resp, touched) ==
  IF ~ touched THEN resp
  ELSE [resp EXCEPT
          !.findings = @ \cup {Marker("bench", "bench-gate", "BLOCKING")}]

\* apply_bench_config_change_gate: the PR changes the reviewers' own bench
\* configuration, or whether it does could not be verified.
BenchGate(resp, touched) ==
  IF ~ touched THEN resp
  ELSE [Forced(resp) EXCEPT
          !.findings = @ \cup {Marker("bench", "bench-gate", "BLOCKING")}]

\* The gates in run_review's order.
Gated(resp, failedReviewers, scanners, blockOnFailure, touched) ==
  BenchGate(DegradedCoverage(resp, failedReviewers, scanners, blockOnFailure),
            touched)

=============================================================================
