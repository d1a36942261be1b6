--------------------------- MODULE PrechecksProofs --------------------------
(***************************************************************************)
(* argus/precheck for any scanners, whatever they print and whenever they  *)
(* end, hang or are cancelled: no child is left to itself by the node that *)
(* started it, and a scanner that did not do its work is named.            *)
(***************************************************************************)
EXTENDS Prechecks, FiniteSetTheorems, TLAPS

\* A child that has exited has printed something.
Printed == \A s \in Scanner : child[s] = "exited" => printed[s] # None

\* Only a scan that has a child is told to stop, and only by a cancelled node.
ToldToStop ==
  /\ \A s \in Scanner : task[s] = "asked" => child[s] \notin Gone
  /\ phase \in {"start", "scan"} => \A s \in Scanner : task[s] = "on"

\* While the node scans: a scanner that was not started is missing, has no file
\* or has failed; one that has ended has printed something; and one whose child
\* is gone has failed or came to a successful exit.
Accounted(s) ==
  /\ child[s] = "absent" => s \in result.missing
  /\ child[s] = "unspawned" => batch[s] = None
  /\ child[s] = "reaped" =>
       batch[s] = None \/ Completed(s)

Accounts == phase = "scan" => \A s \in Scanner \ {Semgrep} : Accounted(s)

Inv ==
  /\ TypeOK /\ Printed /\ NoChildIsAbandoned /\ ToldToStop
  /\ Accounts /\ FailuresAreNamed

-----------------------------------------------------------------------------
(* What the steps of one scanner do to it *)

\* ChildExits: the exit code and the output are those of a process.
LEMMA ExitRecorded ==
  ASSUME NEW s \in Scanner, ChildExits(s), TypeOK
  PROVE  \E o \in Output : printed' = [printed EXCEPT ![s] = o]
  <1>1. PICK code \in 0 .. 2, out \in Printable \cup Unreadable :
          printed' = [printed EXCEPT ![s] = [code |-> code, out |-> out]]
    BY DEF ChildExits
  <1>2. [code |-> code, out |-> out] \in Output
    BY DEF Output
  <1> QED
    BY <1>1, <1>2

\* Parsed: what is taken for a result comes from a successful exit.
LEMMA OnlySuccessIsParsed ==
  ASSUME NEW s \in Scanner \ {Semgrep}
  PROVE  \/ Returned(s, Parsed(s)) = None
         \/ IsSuccessExit(s, printed[s].code) /\ printed[s].out # Misshapen
         \/ printed[s].out = NoInputs
  BY DEF Returned, Parsed

\* A step of one scanner is in a phase that has children, and leaves the phase,
\* the other scanners and the result alone.
LEMMA ScannerStep ==
  ASSUME NEW s \in Scanner, ChildExits(s) \/ ScanStep(s), TypeOK,
         NoChildIsAbandoned, ToldToStop
  PROVE  /\ phase \in {"scan", "cancelling", "cancelled"}
         /\ UNCHANGED <<phase, changed, result>>
         /\ child'[s] \in {"exited", "reaped", "killed"}
         /\ \A t \in Scanner \ {s} :
              child'[t] = child[t] /\ printed'[t] = printed[t] /\ batch'[t] = batch[t]
         /\ \A u \in Scanner \ {s} : task'[u] = task[u]
  <1>1. child[s] \notin Gone
    BY DEF ChildExits, ScanStep, Collect, TimesOut, Drain, Deliver, Gone, ToldToStop
  <1>2. phase \in {"scan", "cancelling", "cancelled"}
    BY <1>1 DEF NoChildIsAbandoned
  <1> QED
    BY <1>2 DEF ChildExits, ScanStep, Collect, TimesOut, Drain, Deliver, TypeOK

\* Collect: what a wrapper returns is a report, an empty one, or None.
LEMMA BatchOfReports ==
  ASSUME NEW s \in Scanner, child[s] = "exited", TypeOK, Printed
  PROVE  Returned(s, Parsed(s)) \in Printable \cup {{}, None}
  <1>1. printed[s] \in Output
    BY DEF TypeOK, Printed
  <1>2. printed[s].out \in Printable \cup Unreadable
    BY <1>1 DEF Output
  <1> QED
    BY <1>2 DEF Returned, Parsed

\* run_precheck after gather: what is kept for the writer is within the cap, and
\* the failed and the verified are as computed.
LEMMA ClassifiedResult ==
  ASSUME NEW readable \in BOOLEAN, result' \in Classified(readable), TypeOK
  PROVE  /\ result' \in PrecheckResult
         /\ Cardinality(result'.candidate) <= MaxResults
         /\ result'.failed = FailedScanners /\ result'.missing = result.missing
         /\ result'.read = readable
         /\ result'.verified = WithStatus(InScope, "verified", readable)
  <1>1. PICK kept \in Capped(WithStatus(InScope, "candidate", readable)) :
          result' = [result EXCEPT !.failed = FailedScanners, !.read = readable,
                                   !.verified = WithStatus(InScope, "verified", readable),
                                   !.candidate = kept]
    BY DEF Classified
  <1>2. ASSUME NEW f \in Found
        PROVE  f \in Finding
    <2>1. PICK s \in Scanner \ FailedScanners : f \in batch[s]
      BY DEF Found
    <2>2. batch[s] \in Printable \cup {{}}
      BY <2>1 DEF FailedScanners, TypeOK
    <2> QED
      BY <2>1, <2>2, PrecheckAssumption
  <1>3. InScope \subseteq Finding
    BY <1>2 DEF InScope
  <1>4. /\ WithStatus(InScope, "verified", readable) \in SUBSET Finding
        /\ kept \in SUBSET Finding /\ Cardinality(kept) <= MaxResults
    BY <1>1, <1>3 DEF Capped, WithStatus
  <1>5. FailedScanners \in SUBSET Scanner
    BY DEF FailedScanners
  <1>6. result \in PrecheckResult
    BY DEF TypeOK
  <1> QED
    BY <1>1, <1>4, <1>5, <1>6 DEF PrecheckResult

-----------------------------------------------------------------------------
(* The steps *)

LEMMA TypeStep == Inv /\ [Next]_vars => TypeOK'
  <1> SUFFICES ASSUME Inv, [Next]_vars
               PROVE  TypeOK'
    OBVIOUS
  <1> USE DEF Inv
  <1>1. ASSUME NEW s \in Scanner, ChildExits(s)
        PROVE  TypeOK'
    <2>1. printed' \in [Scanner -> Output \cup {None}]
      BY <1>1, ExitRecorded DEF TypeOK
    <2>2. core' \in BOOLEAN
      BY <1>1 DEF ChildExits, TypeOK
    <2>3. /\ child' = [child EXCEPT ![s] = "exited"]
          /\ UNCHANGED <<phase, task, changed, batch, result, rows, firings>>
      BY <1>1 DEF ChildExits, tables
    <2> QED
      BY <2>1, <2>2, <2>3 DEF TypeOK
  <1>2. ASSUME NEW s \in Scanner, Collect(s)
        PROVE  TypeOK'
    BY <1>2, BatchOfReports DEF Collect, tables, TypeOK, Gone
  <1>3. ASSUME NEW s \in Scanner, TimesOut(s) \/ Drain(s) \/ Deliver(s)
        PROVE  TypeOK'
    BY <1>3 DEF TimesOut, Drain, Deliver, Returned, tables, TypeOK, Gone
  <1>4. CASE StartScans
    <2>1. { s \in Scanner : child'[s] = "absent" } \subseteq Scanner
      OBVIOUS
    <2>2. result' \in PrecheckResult
          /\ result'.candidate = {}
      BY <1>4, <2>1 DEF StartScans, EmptyResult, PrecheckResult
    <2>3. Cardinality(result'.candidate) <= MaxResults
      BY <2>2, FS_EmptySet, PrecheckAssumption
    <2>4. /\ child' \in [Scanner -> Gone \cup {"running", "exited", "killed"}]
          /\ core' \in BOOLEAN /\ batch' \in [Scanner -> Printable \cup {{}, None}]
      BY <1>4, PrecheckAssumption DEF StartScans, Gone
    <2> QED
      BY <1>4, <2>2, <2>3, <2>4 DEF StartScans, tables, TypeOK
  <1>5. CASE Cancel
    BY <1>5 DEF Cancel, processes, tables, TypeOK
  <1>6. CASE Classify
    <2>1. /\ result' \in PrecheckResult
          /\ Cardinality(result'.candidate) <= MaxResults
      BY <1>6, ClassifiedResult DEF Classify
    <2>2. phase' \in {"done", "log"}
      BY <1>6 DEF Classify
    <2> QED
      BY <1>6, <2>1, <2>2 DEF Classify, processes, tables, TypeOK
  <1>7. CASE LogFirings
    <2>1. RulesOf(result.candidate) \subseteq Rule
      BY PrecheckAssumption DEF RulesOf, PrecheckResult, TypeOK
    <2>2. rows' \in Rows /\ firings' \subseteq Rule
      BY <1>7, <2>1 DEF LogFirings, EnsureRows, tables, Rows, Status, TypeOK
    <2> QED
      BY <1>7, <2>2 DEF LogFirings, processes, TypeOK
  <1>8. CASE SkipScans \/ CoreExits \/ Cancelled
    BY <1>8 DEF SkipScans, CoreExits, Cancelled, processes, tables, TypeOK
  <1>9. ASSUME NEW r \in Rule, Triage(r)
        PROVE  TypeOK'
    BY <1>9 DEF Triage, processes, Rows, Status, TypeOK
  <1>10. CASE UNCHANGED vars
    BY <1>10 DEF vars, processes, tables, TypeOK
  <1> QED
    BY <1>1, <1>2, <1>3, <1>4, <1>5, <1>6, <1>7, <1>8, <1>9, <1>10 DEF Next, ScanStep

LEMMA PrintedStep == Inv /\ [Next]_vars => Printed'
  <1> SUFFICES ASSUME Inv, [Next]_vars
               PROVE  Printed'
    OBVIOUS
  <1> USE DEF Inv
  <1>1. ASSUME NEW s \in Scanner, ChildExits(s)
        PROVE  Printed'
    <2>1. \A t \in Scanner \ {s} : child'[t] = child[t]
      BY <1>1 DEF ChildExits, TypeOK
    <2>2. PICK o \in Output : printed' = [printed EXCEPT ![s] = o]
      BY <1>1, ExitRecorded
    <2>3. o # None /\ printed'[s] = o /\ \A t \in Scanner \ {s} : printed'[t] = printed[t]
      BY <2>2, PrecheckAssumption DEF TypeOK
    <2> QED
      BY <2>1, <2>3 DEF Printed
  <1>2. ASSUME NEW s \in Scanner, ScanStep(s)
        PROVE  Printed'
    BY <1>2 DEF ScanStep, Collect, TimesOut, Drain, Deliver, processes, Printed, TypeOK
  <1>3. CASE StartScans
    BY <1>3 DEF StartScans, Printed
  <1>4. CASE Cancel
    BY <1>4 DEF Cancel, processes, Printed
  <1>5. CASE SkipScans \/ CoreExits \/ Cancelled \/ Classify \/ LogFirings
    BY <1>5 DEF SkipScans, CoreExits, Cancelled, Classify, LogFirings, processes, Printed
  <1>6. ASSUME NEW r \in Rule, Triage(r)
        PROVE  Printed'
    BY <1>6 DEF Triage, processes, Printed
  <1>7. CASE UNCHANGED vars
    BY <1>7 DEF vars, processes, Printed
  <1> QED
    BY <1>1, <1>2, <1>3, <1>4, <1>5, <1>6, <1>7 DEF Next

LEMMA ToldStep == Inv /\ [Next]_vars => ToldToStop'
  <1> SUFFICES ASSUME Inv, [Next]_vars
               PROVE  ToldToStop'
    OBVIOUS
  <1> USE DEF Inv
  <1>1. ASSUME NEW s \in Scanner, ChildExits(s) \/ ScanStep(s)
        PROVE  ToldToStop'
    <2>1. task'[s] = "asked" => task[s] = "asked" /\ child'[s] \notin Gone
      BY <1>1 DEF ChildExits, ScanStep, Collect, TimesOut, Drain, Deliver, TypeOK, Gone
    <2>2. phase \in {"start", "scan"} => task'[s] = "on"
      BY <1>1 DEF ChildExits, ScanStep, Collect, TimesOut, Drain, Deliver, ToldToStop
    <2> QED
      BY <1>1, <2>1, <2>2, ScannerStep DEF ToldToStop
  <1>2. CASE StartScans
    BY <1>2 DEF StartScans, ToldToStop
  <1>3. CASE Cancel
    <2>1. ASSUME NEW s \in Scanner
          PROVE  task'[s] = IF child[s] \in Gone THEN task[s] ELSE "asked"
      BY <1>3 DEF Cancel
    <2>2. child' = child /\ phase' \in {"cancelling", "cancelled"}
      BY <1>3 DEF Cancel, processes
    <2> QED
      BY <2>1, <2>2 DEF ToldToStop
  <1>4. CASE SkipScans \/ CoreExits \/ Cancelled \/ Classify \/ LogFirings
    BY <1>4 DEF SkipScans, CoreExits, Cancelled, Classify, LogFirings, processes, ToldToStop
  <1>5. ASSUME NEW r \in Rule, Triage(r)
        PROVE  ToldToStop'
    BY <1>5 DEF Triage, processes, ToldToStop
  <1>6. CASE UNCHANGED vars
    BY <1>6 DEF vars, processes, ToldToStop
  <1> QED
    BY <1>1, <1>2, <1>3, <1>4, <1>5, <1>6 DEF Next

\* A child is left by its scan only when it has been killed, and the node ends
\* only when it has none or has told every scan that has one to stop.
LEMMA AbandonedStep == Inv /\ [Next]_vars => NoChildIsAbandoned'
  <1> SUFFICES ASSUME Inv, [Next]_vars
               PROVE  NoChildIsAbandoned'
    OBVIOUS
  <1> USE DEF Inv
  <1>1. ASSUME NEW s \in Scanner, ChildExits(s) \/ ScanStep(s)
        PROVE  NoChildIsAbandoned'
    <2>1. \/ child'[s] \in {"reaped", "killed"}
          \/ child'[s] = "exited" /\ child[s] = "running" /\ task' = task
      BY <1>1 DEF ChildExits, ScanStep, Collect, TimesOut, Drain, Deliver, TypeOK
    <2>2. child[s] = "running" => phase = "scan" \/ task[s] = "asked"
      BY DEF NoChildIsAbandoned, Gone
    <2> QED
      BY <1>1, <2>1, <2>2, ScannerStep DEF NoChildIsAbandoned, Gone
  <1>2. CASE StartScans
    BY <1>2 DEF StartScans, NoChildIsAbandoned
  <1>3. CASE Cancel
    <2>1. ASSUME NEW s \in Scanner, child[s] \notin Gone
          PROVE  task'[s] = "asked"
      BY <1>3, <2>1 DEF Cancel
    <2>2. child' = child /\ phase' \in {"cancelling", "cancelled"}
      BY <1>3 DEF Cancel, processes
    <2> QED
      BY <2>1, <2>2 DEF NoChildIsAbandoned
  <1>4. CASE SkipScans \/ CoreExits \/ Cancelled \/ Classify \/ LogFirings
    BY <1>4
    DEF SkipScans, CoreExits, Cancelled, Classify, LogFirings, processes, NoChildIsAbandoned
  <1>5. ASSUME NEW r \in Rule, Triage(r)
        PROVE  NoChildIsAbandoned'
    BY <1>5 DEF Triage, processes, NoChildIsAbandoned
  <1>6. CASE UNCHANGED vars
    BY <1>6 DEF vars, processes, NoChildIsAbandoned
  <1> QED
    BY <1>1, <1>2, <1>3, <1>4, <1>5, <1>6 DEF Next

LEMMA AccountsStep == Inv /\ [Next]_vars => Accounts'
  <1> SUFFICES ASSUME Inv, [Next]_vars, phase' = "scan",
                      NEW t \in Scanner, t # Semgrep
               PROVE  Accounted(t)'
    BY DEF Accounts
  <1> USE DEF Inv
  <1>1. ASSUME NEW s \in Scanner, ChildExits(s) \/ ScanStep(s), t # s
        PROVE  Accounted(t)'
    BY <1>1, ScannerStep DEF Accounts, Accounted, Completed, IsSuccessExit
  <1>2. CASE ChildExits(t)
    BY <1>2 DEF ChildExits, TypeOK, Accounted
  <1>3. CASE Collect(t)
    <2>1. /\ phase = "scan" /\ child[t] = "exited" /\ child'[t] = "reaped"
          /\ printed' = printed /\ batch'[t] = Returned(t, Parsed(t))
      BY <1>3 DEF Collect, TypeOK
    <2>2. printed[t] # None
      BY <2>1 DEF Printed
    <2> QED
      BY <2>1, <2>2, OnlySuccessIsParsed DEF Accounted, Completed, IsSuccessExit
  <1>4. CASE TimesOut(t)
    BY <1>4 DEF TimesOut, Accounted, TypeOK
  <1>5. CASE Drain(t)
    BY <1>5 DEF Drain, Accounted, TypeOK, Returned
  <1>6. CASE Deliver(t) \/ Cancel \/ Cancelled
    BY <1>6 DEF Deliver, Cancel, Cancelled, ToldToStop
  <1>7. CASE StartScans
    BY <1>7 DEF StartScans, Accounted, EmptyResult
  <1>8. CASE SkipScans \/ Classify \/ LogFirings
    BY <1>8 DEF SkipScans, Classify, LogFirings
  <1>9. CASE CoreExits
    BY <1>9 DEF CoreExits, Accounts, Accounted, Completed, IsSuccessExit
  <1>10. ASSUME NEW r \in Rule, Triage(r)
        PROVE  Accounted(t)'
    BY <1>10 DEF Triage, processes, Accounts, Accounted, Completed, IsSuccessExit
  <1>11. CASE UNCHANGED vars
    BY <1>11 DEF vars, processes, Accounts, Accounted, Completed, IsSuccessExit
  <1> QED
    BY <1>1, <1>2, <1>3, <1>4, <1>5, <1>6, <1>7, <1>8, <1>9, <1>10, <1>11 DEF Next, ScanStep

LEMMA NamedStep == Inv /\ [Next]_vars => FailuresAreNamed'
  <1> SUFFICES ASSUME Inv, [Next]_vars
               PROVE  FailuresAreNamed'
    OBVIOUS
  <1> USE DEF Inv
  <1>1. ASSUME NEW s \in Scanner, ChildExits(s) \/ ScanStep(s)
        PROVE  FailuresAreNamed'
    BY <1>1, ScannerStep DEF FailuresAreNamed, Concluded
  <1>2. CASE Classify
    <2>1. PICK readable \in BOOLEAN : result' \in Classified(readable)
      BY <1>2 DEF Classify
    <2>2. /\ phase = "scan" /\ UNCHANGED <<child, printed>>
          /\ \A s \in Scanner : child[s] \in Gone
      BY <1>2 DEF Classify, processes
    <2>3. result'.failed = FailedScanners /\ result'.missing = result.missing
      BY <2>1, ClassifiedResult
    <2>4. ASSUME NEW s \in Scanner \ {Semgrep}
          PROVE  \/ s \in result'.failed \cup result'.missing
                 \/ child[s] = "no_files"
                 \/ Completed(s)
      BY <2>2, <2>3 DEF Accounts, Accounted, Gone, FailedScanners
    <2> QED
      BY <2>2, <2>4 DEF FailuresAreNamed, Completed, IsSuccessExit
  <1>3. CASE LogFirings
    BY <1>3 DEF LogFirings, processes, FailuresAreNamed, Concluded, Completed, IsSuccessExit
  <1>4. CASE SkipScans \/ StartScans \/ Cancel \/ Cancelled
    BY <1>4 DEF SkipScans, StartScans, Cancel, Cancelled, FailuresAreNamed, Concluded
  <1>5. CASE CoreExits
    BY <1>5 DEF CoreExits, FailuresAreNamed, Concluded, Completed, IsSuccessExit
  <1>6. ASSUME NEW r \in Rule, Triage(r)
        PROVE  FailuresAreNamed'
    BY <1>6 DEF Triage, processes, FailuresAreNamed, Concluded, Completed, IsSuccessExit
  <1>7. CASE UNCHANGED vars
    BY <1>7 DEF vars, processes, FailuresAreNamed, Concluded, Completed, IsSuccessExit
  <1> QED
    BY <1>1, <1>2, <1>3, <1>4, <1>5, <1>6, <1>7 DEF Next

LEMMA InvHolds == Spec => []Inv
  <1>1. Init => Inv
    <2> SUFFICES ASSUME Init
                 PROVE  Inv
      OBVIOUS
    <2>1. TypeOK
      <3>1. EmptyResult \in PrecheckResult
            /\ EmptyResult.candidate = {}
        BY DEF EmptyResult, PrecheckResult
      <3>2. Cardinality({}) <= MaxResults
        BY FS_EmptySet, PrecheckAssumption
      <3> QED
        BY <3>1, <3>2, PrecheckAssumption DEF Init, TypeOK, Gone
    <2>2. Printed /\ NoChildIsAbandoned /\ ToldToStop /\ Accounts /\ FailuresAreNamed
      BY DEF Init, Printed, NoChildIsAbandoned, ToldToStop, Accounts, FailuresAreNamed, Concluded, Gone
    <2> QED
      BY <2>1, <2>2 DEF Inv
  <1>2. Inv /\ [Next]_vars => Inv'
    BY TypeStep, PrintedStep, AbandonedStep, ToldStep, AccountsStep, NamedStep DEF Inv
  <1> QED
    BY <1>1, <1>2, PTL DEF Spec

-----------------------------------------------------------------------------
(* The theorems *)

\* run_scanner_subprocess, _kill_and_reap and the gather of run_precheck: a node
\* that has its result has no child; one that was cancelled may end while others
\* of its scans go on, but each child that is not killed yet belongs to a scan
\* that is told to stop and kills it, however the children exit, time out and
\* are drained and however often the node is cancelled.
THEOREM NoChildIsLeft == Spec => []NoChildIsAbandoned
  <1>1. Inv => NoChildIsAbandoned
    BY DEF Inv
  <1> QED
    BY <1>1, InvHolds, PTL

\* failed_scanners and missing_scanners of a PrecheckResult: a scanner other than
\* semgrep that could not be spawned, timed out or exited with a failure is named.
THEOREM NoFailureIsSilent == Spec => []FailuresAreNamed
  <1>1. Inv => FailuresAreNamed
    BY DEF Inv
  <1> QED
    BY <1>1, InvHolds, PTL

\* run_precheck, "a verified hit must never be subject to the aggregate-size cap":
\* whatever the cap, and however much every scanner finds, each finding of a
\* verified rule in a changed file is among the verified ones.
THEOREM VerifiedAreKept == Spec => VerifiedIsNeverCapped
  <1>1. ASSUME Inv, [Next]_vars, phase = "scan", Concluded', result'.read,
               NEW s \in Scanner, batch[s] # None, NEW f \in batch[s],
               f.file \in changed, rows[f.rule] = "verified"
        PROVE  f \in result'.verified
    <2>1. Classify
      BY <1>1
      DEF Next, SkipScans, StartScans, ChildExits, ScanStep, Collect, TimesOut, Drain, Deliver, CoreExits,
          Cancel, Cancelled, LogFirings, Triage, vars, Concluded
    <2>2. PICK readable \in BOOLEAN : result' \in Classified(readable)
      BY <2>1 DEF Classify
    <2>3. readable /\ result'.verified = WithStatus(InScope, "verified", readable)
      BY <1>1, <2>2, ClassifiedResult DEF Inv
    <2>4. f \in InScope
      BY <1>1 DEF InScope, Found, FailedScanners
    <2>5. StatusOf(f, readable) = "verified"
      BY <1>1, <2>3, PrecheckAssumption DEF StatusOf, Status
    <2> QED
      BY <2>3, <2>4, <2>5 DEF WithStatus
  <1>2. Inv /\ [Next]_vars =>
          [phase = "scan" /\ Concluded' /\ result'.read =>
             \A s \in Scanner : batch[s] # None =>
               \A f \in batch[s] :
                 f.file \in changed /\ rows[f.rule] = "verified" => f \in result'.verified]_vars
    BY <1>1
  <1> QED
    BY <1>2, InvHolds, PTL DEF Spec, VerifiedIsNeverCapped

\* Every variable keeps its shape, and the writer gets no more candidates than
\* the cap allows.
THEOREM TypeCorrect == Spec => []TypeOK
  <1>1. Inv => TypeOK
    BY DEF Inv
  <1> QED
    BY <1>1, InvHolds, PTL

=============================================================================
