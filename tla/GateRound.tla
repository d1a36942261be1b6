------------------------------ MODULE GateRound -----------------------------
(***************************************************************************)
(* Every response a model may write, taken through the relevance validator *)
(* and the gates of run_review: ResponseGates checked over all its inputs. *)
(* The lite path and a precheck fast-fail skip the validator.              *)
(***************************************************************************)
EXTENDS ResponseGates

CONSTANTS
  Session,          \* reviewer sessions that may fail
  Scanner,          \* precheck scanners that may give no coverage
  Issue,            \* findings a model may report
  DescriptionOf     \* the text of each of them

VARIABLES
  step,             \* "written", "validated" or "gated"
  resp,             \* the response so far
  input             \* failed sessions, failed scanners, opt-in, bench touched

vars == <<step, resp, input>>

Input == [failed : SUBSET Session, scanners : SUBSET Scanner,
          optIn : BOOLEAN, touched : BOOLEAN]

LlmFinding == [kind : {"llm"}, ref : Issue, desc : {DescriptionOf[i] : i \in Issue},
               sev : {"BLOCKING", "SUGGESTION"}]

ModelFindings ==
  { f \in LlmFinding : f.desc = DescriptionOf[f.ref] }

\* A model reports an issue once, at one severity.
Reported ==
  { s \in SUBSET ModelFindings : \A f, g \in s : f.ref = g.ref => f = g }

Init ==
  /\ step = "written"
  /\ input \in Input
  /\ \E v \in Verdict, k \in Risk, found \in Reported :
       resp = [verdict |-> v, risk |-> k, findings |-> found, dropped |-> {}]

Validate ==
  /\ step = "written"
  /\ \E rejected \in SUBSET Blockings(resp.findings) :
       resp' = Validated(resp, rejected)
  /\ step' = "validated"
  /\ UNCHANGED input

ApplyGates ==
  /\ step \in {"written", "validated"}
  /\ resp' = Gated(resp, input.failed, input.scanners, input.optIn,
                   input.touched)
  /\ step' = "gated"
  /\ UNCHANGED input

Next == Validate \/ ApplyGates

Spec == Init /\ [][Next]_vars

-----------------------------------------------------------------------------
(* Properties *)

Markers == [kind : {"reviewer-gap"}, ref : Session, desc : Session,
            sev : {"BLOCKING", "SUGGESTION"}]
      \cup [kind : {"scanner-gap"}, ref : Scanner, desc : Scanner,
            sev : {"SUGGESTION"}]
      \cup {Marker("scanner", "scanner-gate", "BLOCKING"),
            Marker("bench", "bench-gate", "BLOCKING")}

\* The verdict, the risk and the findings keep the shapes of ReviewResponse.
TypeOK ==
  /\ step \in {"written", "validated", "gated"}
  /\ input \in Input
  /\ resp \in [verdict : Verdict, risk : Risk,
               findings : SUBSET (ModelFindings \cup Markers),
               dropped : SUBSET ModelFindings]

\* helpers.py, the gates' "stricter, never looser" contract: they turn no
\* BLOCKING into an APPROVE, lower no risk level and lose no finding.
NeverLooser ==
  [][step' = "gated" =>
       /\ resp.verdict = "BLOCKING" => resp'.verdict = "BLOCKING"
       /\ resp'.risk >= resp.risk
       /\ resp.findings \subseteq resp'.findings]_vars

\* coverage_gap_findings_for_round: a session or a scanner that gave no
\* coverage is reported by one finding: never by none, never by two.
EachGapReportedOnce ==
  step = "gated" =>
    /\ \A r \in input.failed :
         Cardinality({ f \in resp.findings :
                         f.kind = "reviewer-gap" /\ f.ref = r }) = 1
    /\ \A s \in input.scanners :
         Marker("scanner-gap", s, "SUGGESTION") \in resp.findings
           <=> Marker("scanner", "scanner-gate", "BLOCKING") \notin resp.findings

\* run_review: an APPROVE that leaves the gates means that every session
\* completed, every scanner covered its files if the operator asked for that,
\* and the PR leaves the reviewers' own configuration alone.
ApproveIsClean ==
  step = "gated" /\ resp.verdict = "APPROVE" =>
    /\ input.failed = {}
    /\ input.optIn => input.scanners = {}
    /\ ~ input.touched

\* _node_validate_blockings: "Rejected findings are moved to dropped_findings and
\* removed from the findings list", and no other finding is: one that the
\* validator confirmed stays.
OnlyRejectedAreDropped ==
  [][step' = "validated" =>
       /\ resp.findings = resp'.findings \cup resp'.dropped
       /\ resp'.findings \cap resp'.dropped = {}]_vars

\* A gate that turns an APPROVE into a BLOCKING says why: the author is never
\* left with a BLOCKING verdict that no BLOCKING finding explains.
BlockingIsExplained ==
  [][step' = "gated" /\ resp.verdict = "APPROVE" /\ resp'.verdict = "BLOCKING"
       => Blockings(resp'.findings) # {}]_vars

=============================================================================
