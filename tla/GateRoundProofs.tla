--------------------------- MODULE GateRoundProofs --------------------------
(***************************************************************************)
(* What the gates do to any response, for any number of sessions,          *)
(* scanners and findings.  The lemmas describe each gate once; the         *)
(* theorems follow the response through GateRound's two steps.             *)
(***************************************************************************)
EXTENDS GateRound, TLAPS, FiniteSetTheorems

Responses ==
  [verdict : Verdict, risk : Risk,
   findings : SUBSET (ModelFindings \cup Markers), dropped : SUBSET ModelFindings]

\* What a model or the validator leaves: no marker is in it yet.
Ungated == [verdict : Verdict, risk : Risk,
            findings : SUBSET ModelFindings, dropped : SUBSET ModelFindings]

ScannerMarker == Marker("scanner", "scanner-gate", "BLOCKING")
BenchMarker == Marker("bench", "bench-gate", "BLOCKING")

LEMMA RiskNeverLowered ==
  \A risk \in Risk : RaisedRisk(risk) \in Risk /\ RaisedRisk(risk) >= risk
  BY DEF RaisedRisk, Risk, High

\* Forcing a response keeps everything but the verdict and the risk.
LEMMA ForcedFields ==
  ASSUME NEW R, NEW resp0 \in [verdict : Verdict, risk : Risk, findings : SUBSET R,
                               dropped : SUBSET ModelFindings]
  PROVE  /\ Forced(resp0) \in [verdict : Verdict, risk : Risk,
                               findings : SUBSET R,
                               dropped : SUBSET ModelFindings]
         /\ Forced(resp0).verdict = "BLOCKING"
         /\ Forced(resp0).risk >= resp0.risk
         /\ Forced(resp0).findings = resp0.findings
         /\ Forced(resp0).dropped = resp0.dropped
  BY RiskNeverLowered DEF Forced, Verdict

LEMMA MarkersAreMarkers ==
  /\ ScannerMarker \in Markers
  /\ BenchMarker \in Markers
  /\ \A r \in Session : Marker("reviewer-gap", r, "SUGGESTION") \in Markers
  /\ \A s \in Scanner : Marker("scanner-gap", s, "SUGGESTION") \in Markers
  BY DEF ScannerMarker, BenchMarker, Marker, Markers

\* The validator leaves findings of the model only, and drops such findings.
LEMMA ValidatedUngated ==
  ASSUME NEW resp0 \in Ungated, NEW rejected \in SUBSET Blockings(resp0.findings)
  PROVE  Validated(resp0, rejected) \in Ungated
  <1>1. rejected \subseteq ModelFindings
    BY DEF Blockings, Ungated
  <1> QED
    BY <1>1 DEF Validated, Ungated, VerdictFor, Verdict

-----------------------------------------------------------------------------
(* The scanner gate, the coverage gaps, the reviewer gate, the bench gate *)

LEMMA ScannerGateFields ==
  ASSUME NEW resp0 \in Ungated, NEW scanners \in SUBSET Scanner,
         NEW optIn \in BOOLEAN
  PROVE  LET gated == ScannerGate(resp0, scanners, optIn)
             fired == ScannerGateFires(resp0, scanners, optIn)
         IN  /\ gated \in Responses
             /\ gated.risk >= resp0.risk
             /\ gated.dropped = resp0.dropped
             /\ gated.findings = resp0.findings \cup
                                 (IF fired THEN {ScannerMarker} ELSE {})
             /\ gated.verdict = IF fired THEN "BLOCKING" ELSE resp0.verdict
  <1> DEFINE fired == ScannerGateFires(resp0, scanners, optIn)
  <1>0. resp0 \in Responses
    BY DEF Ungated, Responses
  <1>1. CASE fired
    <2>1. /\ Forced(resp0) \in Responses
          /\ Forced(resp0).verdict = "BLOCKING"
          /\ Forced(resp0).risk >= resp0.risk
          /\ Forced(resp0).findings = resp0.findings
          /\ Forced(resp0).dropped = resp0.dropped
      BY <1>0, ForcedFields DEF Responses
    <2>2. ScannerGate(resp0, scanners, optIn)
            = [Forced(resp0) EXCEPT !.findings = @ \cup {ScannerMarker}]
      BY <1>1 DEF ScannerGate, ScannerMarker
    <2> QED
      BY <1>1, <2>1, <2>2, MarkersAreMarkers DEF Responses
  <1>2. CASE ~ fired
    <2>1. ScannerGate(resp0, scanners, optIn) = resp0
      BY <1>2 DEF ScannerGate
    <2>2. resp0.risk >= resp0.risk
      BY DEF Ungated, Risk
    <2> QED
      BY <1>0, <1>2, <2>1, <2>2
  <1> QED
    BY <1>1, <1>2

LEMMA ReviewerGateFields ==
  ASSUME NEW resp0 \in Responses, NEW failed \in SUBSET Session
  PROVE  LET gated == ReviewerGate(resp0, failed)
         IN  /\ gated \in Responses
             /\ gated.risk >= resp0.risk
             /\ gated.dropped = resp0.dropped
             /\ gated.findings = { Promoted(f, failed) : f \in resp0.findings }
             /\ gated.verdict = IF failed = {} THEN resp0.verdict
                                ELSE "BLOCKING"
  <1> DEFINE promoted == { Promoted(f, failed) : f \in resp0.findings }
  <1>1. promoted \subseteq ModelFindings \cup Markers
    <2>1. \A f \in resp0.findings : Promoted(f, failed) \in ModelFindings \cup Markers
      <3> TAKE f \in resp0.findings
      <3>1. f \in ModelFindings \cup Markers
        BY DEF Responses
      <3>2. CASE f.kind = "reviewer-gap" /\ f.ref \in failed
        <4>1. f \in [kind : {"reviewer-gap"}, ref : Session, desc : Session,
                     sev : {"BLOCKING", "SUGGESTION"}]
          BY <3>1, <3>2 DEF ModelFindings, LlmFinding, Markers, Marker
        <4> QED
          BY <3>2, <4>1 DEF Promoted, Markers
      <3>3. CASE ~ (f.kind = "reviewer-gap" /\ f.ref \in failed)
        BY <3>1, <3>3 DEF Promoted
      <3> QED
        BY <3>2, <3>3
    <2> QED
      BY <2>1
  <1>2. CASE failed = {}
    <2>1. promoted = resp0.findings
      BY <1>2 DEF Promoted
    <2>2. ReviewerGate(resp0, failed) = resp0
      BY <1>2 DEF ReviewerGate
    <2>3. resp0.risk >= resp0.risk
      BY DEF Responses, Risk
    <2> QED
      BY <1>2, <2>1, <2>2, <2>3
  <1>3. CASE failed # {}
    <2>1. /\ Forced(resp0) \in Responses
          /\ Forced(resp0).verdict = "BLOCKING"
          /\ Forced(resp0).risk >= resp0.risk
          /\ Forced(resp0).findings = resp0.findings
          /\ Forced(resp0).dropped = resp0.dropped
      BY ForcedFields DEF Responses
    <2>2. ReviewerGate(resp0, failed) = [Forced(resp0) EXCEPT !.findings = promoted]
      BY <1>3, <2>1 DEF ReviewerGate
    <2> HIDE DEF promoted
    <2> QED
      BY <1>1, <1>3, <2>1, <2>2 DEF Responses, promoted
  <1> QED
    BY <1>2, <1>3

LEMMA BenchGateFields ==
  ASSUME NEW resp0 \in Responses, NEW touched \in BOOLEAN
  PROVE  LET gated == BenchGate(resp0, touched)
         IN  /\ gated \in Responses
             /\ gated.risk >= resp0.risk
             /\ gated.dropped = resp0.dropped
             /\ gated.findings = resp0.findings \cup
                                 (IF touched THEN {BenchMarker} ELSE {})
             /\ gated.verdict = IF touched THEN "BLOCKING" ELSE resp0.verdict
  <1>1. CASE touched
    <2>1. /\ Forced(resp0) \in Responses
          /\ Forced(resp0).verdict = "BLOCKING"
          /\ Forced(resp0).risk >= resp0.risk
          /\ Forced(resp0).findings = resp0.findings
          /\ Forced(resp0).dropped = resp0.dropped
      BY ForcedFields DEF Responses
    <2>2. BenchGate(resp0, touched)
            = [Forced(resp0) EXCEPT !.findings = @ \cup {BenchMarker}]
      BY <1>1 DEF BenchGate, BenchMarker
    <2>3. BenchGate(resp0, touched) \in Responses
      BY <2>1, <2>2, MarkersAreMarkers DEF Responses
    <2>4. /\ BenchGate(resp0, touched).verdict = "BLOCKING"
          /\ BenchGate(resp0, touched).risk >= resp0.risk
          /\ BenchGate(resp0, touched).dropped = resp0.dropped
          /\ BenchGate(resp0, touched).findings = resp0.findings \cup {BenchMarker}
      BY <2>1, <2>2 DEF Responses
    <2> QED
      BY <1>1, <2>3, <2>4
  <1>2. CASE ~ touched
    <2>1. BenchGate(resp0, touched) = resp0
      BY <1>2 DEF BenchGate
    <2>2. resp0.risk >= resp0.risk
      BY DEF Responses, Risk
    <2> QED
      BY <1>2, <2>1, <2>2
  <1> QED
    BY <1>1, <1>2

-----------------------------------------------------------------------------
(* All of them *)

\* What run_review's gates make of a response that went through none of them.
GatedTo(resp0, gated, failed, scanners, fired, touched) ==
  /\ gated \in Responses
  /\ gated.risk >= resp0.risk
  /\ gated.dropped = resp0.dropped
  /\ gated.verdict = IF fired \/ failed # {} \/ touched
                     THEN "BLOCKING" ELSE resp0.verdict
  /\ gated.findings =
            resp0.findings
       \cup (IF fired THEN {ScannerMarker} ELSE {})
       \cup { Marker("reviewer-gap", r, "BLOCKING") : r \in failed }
       \cup { Marker("scanner-gap", s, "SUGGESTION") :
                s \in IF fired THEN {} ELSE scanners }
       \cup (IF touched THEN {BenchMarker} ELSE {})

LEMMA GatedFields ==
  ASSUME NEW resp0 \in Ungated,
         NEW failed \in SUBSET Session, NEW scanners \in SUBSET Scanner,
         NEW optIn \in BOOLEAN, NEW touched \in BOOLEAN
  PROVE  GatedTo(resp0, Gated(resp0, failed, scanners, optIn, touched),
                 failed, scanners, ScannerGateFires(resp0, scanners, optIn),
                 touched)
  <1> DEFINE fired == ScannerGateFires(resp0, scanners, optIn)
             gated1 == ScannerGate(resp0, scanners, optIn)
             gaps == CoverageGaps(failed, scanners, fired)
             gated2 == [gated1 EXCEPT !.findings = @ \cup gaps]
             gated3 == ReviewerGate(gated2, failed)
             gated4 == BenchGate(gated3, touched)
             scanGaps == { Marker("scanner-gap", s, "SUGGESTION") :
                             s \in IF fired THEN {} ELSE scanners }
  <1>1. /\ gated1 \in Responses
        /\ gated1.risk >= resp0.risk
        /\ gated1.dropped = resp0.dropped
        /\ gated1.findings = resp0.findings \cup
                             (IF fired THEN {ScannerMarker} ELSE {})
        /\ gated1.verdict = IF fired THEN "BLOCKING" ELSE resp0.verdict
    BY ScannerGateFields
  <1>2. gaps \subseteq Markers
    BY MarkersAreMarkers DEF CoverageGaps
  <1> HIDE DEF gated1, gaps
  <1>3. /\ gated2 \in Responses
        /\ gated2.risk = gated1.risk /\ gated2.dropped = gated1.dropped
        /\ gated2.verdict = gated1.verdict
        /\ gated2.findings = gated1.findings \cup gaps
    BY <1>1, <1>2 DEF Responses
  <1> HIDE DEF gated2
  <1>4. /\ gated3 \in Responses
        /\ gated3.risk >= gated2.risk
        /\ gated3.dropped = gated2.dropped
        /\ gated3.findings = { Promoted(f, failed) : f \in gated2.findings }
        /\ gated3.verdict = IF failed = {} THEN gated2.verdict ELSE "BLOCKING"
    BY <1>3, ReviewerGateFields
  <1> HIDE DEF gated3
  <1>5. /\ gated4 \in Responses
        /\ gated4.risk >= gated3.risk
        /\ gated4.dropped = gated3.dropped
        /\ gated4.findings = gated3.findings \cup
                             (IF touched THEN {BenchMarker} ELSE {})
        /\ gated4.verdict = IF touched THEN "BLOCKING" ELSE gated3.verdict
    BY <1>4, BenchGateFields
  <1>6. Gated(resp0, failed, scanners, optIn, touched) = gated4
    BY DEF Gated, DegradedCoverage, gated1, gaps, gated2, gated3
  <1> HIDE DEF gated4
  <1>7. { Promoted(f, failed) : f \in gated2.findings }
          =      gated1.findings
            \cup { Marker("reviewer-gap", r, "BLOCKING") : r \in failed }
            \cup scanGaps
    <2>1. gaps = { Marker("reviewer-gap", r, "SUGGESTION") : r \in failed }
                   \cup scanGaps
      BY DEF gaps, CoverageGaps
    <2>2. \A f \in gated1.findings \cup scanGaps : Promoted(f, failed) = f
      <3>1. \A f \in gated1.findings \cup scanGaps : f.kind # "reviewer-gap"
        BY <1>1 DEF Ungated, ModelFindings, LlmFinding, ScannerMarker, Marker
      <3> QED
        BY <3>1 DEF Promoted
    <2>3. \A r \in failed : Promoted(Marker("reviewer-gap", r, "SUGGESTION"), failed)
                              = Marker("reviewer-gap", r, "BLOCKING")
      BY DEF Promoted, Marker
    <2> HIDE DEF scanGaps
    <2> QED
      BY <1>3, <2>1, <2>2, <2>3
  <1>8. gated4.risk >= resp0.risk
    BY <1>1, <1>3, <1>4, <1>5 DEF Responses, Ungated, Risk
  <1> QED
    BY <1>1, <1>3, <1>4, <1>5, <1>6, <1>7, <1>8 DEF GatedTo

-----------------------------------------------------------------------------
(* The theorems *)

\* Until the gates have run there is no marker among the findings.
Inv == /\ TypeOK
       /\ step # "gated" => resp \in Ungated

\* The step that applies the gates, in those terms.
GateStep ==
  /\ resp \in Ungated
  /\ GatedTo(resp, resp', input.failed, input.scanners,
             ScannerGateFires(resp, input.scanners, input.optIn), input.touched)

LEMMA ApplyGatesFields ==
  ASSUME Inv, ApplyGates
  PROVE  GateStep
  <1>1. resp \in Ungated
    BY DEF Inv, ApplyGates
  <1>2. /\ input.failed \in SUBSET Session /\ input.scanners \in SUBSET Scanner
        /\ input.optIn \in BOOLEAN /\ input.touched \in BOOLEAN
    BY DEF Inv, TypeOK, Input
  <1>3. GatedTo(resp, Gated(resp, input.failed, input.scanners, input.optIn,
                            input.touched),
                input.failed, input.scanners,
                ScannerGateFires(resp, input.scanners, input.optIn), input.touched)
    BY <1>1, <1>2, GatedFields
  <1> QED
    BY <1>1, <1>3 DEF ApplyGates, GateStep

THEOREM InvHolds == Spec => []Inv
  <1>1. Init => Inv
    <2> SUFFICES ASSUME Init PROVE Inv
      OBVIOUS
    <2>1. resp \in Ungated
      BY DEF Init, Reported, Ungated
    <2>2. Ungated \subseteq Responses
      BY DEF Ungated, Responses
    <2> QED
      BY <2>1, <2>2 DEF Init, Inv, TypeOK, Responses
  <1>2. Inv /\ [Next]_vars => Inv'
    <2> SUFFICES ASSUME Inv, [Next]_vars PROVE Inv'
      OBVIOUS
    <2>1. CASE Validate
      <3>1. resp' \in Ungated
        BY <2>1, ValidatedUngated DEF Validate, Inv
      <3>2. Ungated \subseteq Responses
        BY DEF Ungated, Responses
      <3> QED
        BY <2>1, <3>1, <3>2 DEF Validate, Inv, TypeOK, Responses
    <2>2. CASE ApplyGates
      <3>1. resp' \in Responses
        BY <2>2, ApplyGatesFields DEF GateStep, GatedTo
      <3> QED
        BY <2>2, <3>1 DEF ApplyGates, Inv, TypeOK, Responses
    <2>3. CASE UNCHANGED vars
      BY <2>3 DEF vars, Inv, TypeOK
    <2> QED
      BY <2>1, <2>2, <2>3 DEF Next
  <1> QED
    BY <1>1, <1>2, PTL DEF Spec

\* helpers.py: the validator and the gates keep a response a ReviewResponse.
THEOREM TypeCorrect == Spec => []TypeOK
  <1>1. Inv => TypeOK
    BY DEF Inv
  <1> QED
    BY <1>1, InvHolds, PTL

\* helpers.py: whatever failed, the gates make the response stricter only.
THEOREM GatesNeverLoosen == Spec => NeverLooser
  <1>1. Inv /\ [Next]_vars =>
          [step' = "gated" =>
             /\ resp.verdict = "BLOCKING" => resp'.verdict = "BLOCKING"
             /\ resp'.risk >= resp.risk
             /\ resp.findings \subseteq resp'.findings]_vars
    <2> SUFFICES ASSUME Inv, Next, step' = "gated"
                 PROVE  /\ resp.verdict = "BLOCKING" => resp'.verdict = "BLOCKING"
                        /\ resp'.risk >= resp.risk
                        /\ resp.findings \subseteq resp'.findings
      OBVIOUS
    <2>1. ApplyGates
      BY DEF Next, Validate
    <2> QED
      BY <2>1, ApplyGatesFields DEF GateStep, GatedTo
  <1> QED
    BY <1>1, InvHolds, PTL DEF Spec, NeverLooser

\* run_review: no APPROVE leaves the gates while a session failed, a scanner
\* the operator insists on failed, or the bench is touched.
THEOREM ApprovalsAreClean == Spec => []ApproveIsClean
  <1>1. Init => ApproveIsClean
    BY DEF Init, ApproveIsClean
  <1>2. Inv /\ ApproveIsClean /\ [Next]_vars => ApproveIsClean'
    <2> SUFFICES ASSUME Inv, ApproveIsClean, [Next]_vars PROVE ApproveIsClean'
      OBVIOUS
    <2>1. CASE Validate
      BY <2>1 DEF Validate, ApproveIsClean
    <2>2. CASE ApplyGates
      <3> SUFFICES ASSUME resp'.verdict = "APPROVE"
                   PROVE  /\ input.failed = {}
                          /\ input.optIn => input.scanners = {}
                          /\ ~ input.touched
        BY <2>2 DEF ApplyGates, ApproveIsClean
      <3>1. /\ ~ ScannerGateFires(resp, input.scanners, input.optIn)
            /\ input.failed = {} /\ ~ input.touched
            /\ resp.verdict = "APPROVE"
        BY <2>2, ApplyGatesFields DEF GateStep, GatedTo
      <3> QED
        BY <3>1 DEF ScannerGateFires
    <2>3. CASE UNCHANGED vars
      BY <2>3 DEF vars, ApproveIsClean
    <2> QED
      BY <2>1, <2>2, <2>3 DEF Next
  <1> QED
    BY <1>1, <1>2, InvHolds, PTL DEF Spec

\* helpers.py: a verdict the gates turned comes with a BLOCKING finding.
THEOREM TurnedVerdictsAreExplained == Spec => BlockingIsExplained
  <1>1. Inv /\ [Next]_vars =>
          [step' = "gated" /\ resp.verdict = "APPROVE" /\ resp'.verdict = "BLOCKING"
             => Blockings(resp'.findings) # {}]_vars
    <2> SUFFICES ASSUME Inv, Next, step' = "gated", resp.verdict = "APPROVE",
                        resp'.verdict = "BLOCKING"
                 PROVE  \E f \in resp'.findings : f.sev = "BLOCKING"
      BY DEF Blockings
    <2>1. ApplyGates
      BY DEF Next, Validate
    <2>2. \/ ScannerGateFires(resp, input.scanners, input.optIn)
          \/ input.failed # {}
          \/ input.touched
      BY <2>1, ApplyGatesFields DEF GateStep, GatedTo
    <2>3. CASE ScannerGateFires(resp, input.scanners, input.optIn)
      <3>1. ScannerMarker \in resp'.findings
        BY <2>1, <2>3, ApplyGatesFields DEF GateStep, GatedTo
      <3> QED
        BY <3>1 DEF ScannerMarker, Marker
    <2>4. CASE input.failed # {}
      <3>1. PICK r \in input.failed : TRUE
        BY <2>4
      <3>2. Marker("reviewer-gap", r, "BLOCKING") \in resp'.findings
        BY <2>1, <3>1, ApplyGatesFields DEF GateStep, GatedTo
      <3> QED
        BY <3>2 DEF Marker
    <2>5. CASE input.touched
      <3>1. BenchMarker \in resp'.findings
        BY <2>1, <2>5, ApplyGatesFields DEF GateStep, GatedTo
      <3> QED
        BY <3>1 DEF BenchMarker, Marker
    <2> QED
      BY <2>2, <2>3, <2>4, <2>5
  <1> QED
    BY <1>1, InvHolds, PTL DEF Spec, BlockingIsExplained

\* coverage_gap_findings_for_round: one finding, never none and never two, for
\* each session and each scanner that gave no coverage.
THEOREM GapsAreReportedOnce == Spec => []EachGapReportedOnce
  <1>1. Init => EachGapReportedOnce
    BY DEF Init, EachGapReportedOnce
  <1>2. Inv /\ EachGapReportedOnce /\ [Next]_vars => EachGapReportedOnce'
    <2> SUFFICES ASSUME Inv, EachGapReportedOnce, [Next]_vars
                 PROVE  EachGapReportedOnce'
      OBVIOUS
    <2>1. CASE Validate
      BY <2>1 DEF Validate, EachGapReportedOnce
    <2>2. CASE ApplyGates
      <3> DEFINE fired == ScannerGateFires(resp, input.scanners, input.optIn)
      <3>1. /\ resp \in Ungated
            /\ resp'.findings =
                      resp.findings
                 \cup (IF fired THEN {ScannerMarker} ELSE {})
                 \cup { Marker("reviewer-gap", r, "BLOCKING") : r \in input.failed }
                 \cup { Marker("scanner-gap", s, "SUGGESTION") :
                          s \in IF fired THEN {} ELSE input.scanners }
                 \cup (IF input.touched THEN {BenchMarker} ELSE {})
        BY <2>2, ApplyGatesFields DEF GateStep, GatedTo
      <3>2. input' = input
        BY <2>2 DEF ApplyGates
      <3>3. \A f \in resp.findings : f.kind = "llm"
        BY <3>1 DEF Ungated, ModelFindings, LlmFinding
      <3> HIDE DEF fired
      <3>4. ASSUME NEW r \in input.failed
            PROVE  Cardinality({ f \in resp'.findings :
                                   f.kind = "reviewer-gap" /\ f.ref = r }) = 1
        <4>1. { f \in resp'.findings : f.kind = "reviewer-gap" /\ f.ref = r }
                = {Marker("reviewer-gap", r, "BLOCKING")}
          BY <3>1, <3>3 DEF Marker, ScannerMarker, BenchMarker
        <4> QED
          BY <4>1, FS_Singleton
      <3>5. ASSUME NEW s \in input.scanners
            PROVE  Marker("scanner-gap", s, "SUGGESTION") \in resp'.findings
                     <=> ScannerMarker \notin resp'.findings
        <4>1. CASE fired
          BY <3>1, <3>3, <4>1 DEF Marker, ScannerMarker, BenchMarker
        <4>2. CASE ~ fired
          BY <3>1, <3>3, <4>2 DEF Marker, ScannerMarker, BenchMarker
        <4> QED
          BY <4>1, <4>2
      <3> QED
        BY <3>2, <3>4, <3>5 DEF EachGapReportedOnce, ScannerMarker
    <2>3. CASE UNCHANGED vars
      BY <2>3 DEF vars, EachGapReportedOnce
    <2> QED
      BY <2>1, <2>2, <2>3 DEF Next
  <1> QED
    BY <1>1, <1>2, InvHolds, PTL DEF Spec

=============================================================================
