------------------------------ MODULE Prechecks -----------------------------
(***************************************************************************)
(* argus/precheck: run_precheck of engine.py, its scanners, and the tables *)
(* of argus/storage/precheck.py that it reads and writes.                  *)
(*                                                                         *)
(* The scanners run at the same time, each as a child process with a       *)
(* timeout of its own.  Semgrep starts further processes, which keep the   *)
(* pipes of a killed semgrep open.  What a scanner prints is parsed, cut   *)
(* down to the changed files, and sorted by the status of its rule.        *)
(***************************************************************************)
EXTENDS Naturals, FiniteSets

CONSTANTS
  Scanner,        \* those of named_scans
  Semgrep,        \* the one whose failures run_precheck does not see
  FindingsExit,   \* scanners whose exit code 1 means findings
  ParseToNone,    \* scanners for which unparsable output is no result
  MayLackInputs,  \* scanners that say so, with a failing exit, if there is nothing to audit
  Finding,        \* what there is to find, as records of a rule and a file
  Printable,      \* bound: what a scanner may print, as sets of findings
  Rule,
  MaxResults,     \* _MAX_RESULTS
  MaxStarted,     \* bound: how many scanners may have something to scan
  Scopes,         \* the sets of changed files a review may have
  Statuses,       \* bound: what precheck_rules may hold at first
  Garbage,        \* output that is no JSON
  Misshapen,      \* JSON of another shape, or no report where one belongs
  NoInputs,       \* "no inputs collected"
  None

Status == {"candidate", "verified", "suspended"}
Rows == [Rule -> Status \cup {None}]
Unreadable == {Garbage, Misshapen, NoInputs}
Output == [code : 0 .. 2, out : Printable \cup Unreadable]

ASSUME PrecheckAssumption ==
  /\ Semgrep \in Scanner
  /\ FindingsExit \cup ParseToNone \cup MayLackInputs \subseteq Scanner \ {Semgrep}
  /\ \A f \in Finding : f.rule \in Rule
  /\ Printable \subseteq SUBSET Finding /\ Statuses \subseteq Rows
  /\ Garbage # Misshapen /\ Garbage # NoInputs /\ Misshapen # NoInputs
  /\ Printable \cap Unreadable = {}
  /\ MaxResults \in Nat \ {0} /\ MaxStarted \in Nat /\ None \notin Output \cup Status

VARIABLES
  phase,      \* of _node_precheck_rules
  task,       \* of each scan: told to stop ("asked"), ending with a CancelledError
  changed,    \* changed_files
  child,      \* the process of each scanner
  core,       \* is semgrep-core alive and holds semgrep's pipes
  printed,    \* the exit code and the output of each scanner
  batch,      \* what its wrapper returned: findings, or None
  result,     \* the PrecheckResult; "read": were the statuses readable
  rows,       \* precheck_rules: the status of each rule, None without a row
  firings     \* the rules in precheck_candidate_firings

processes == <<child, core, printed>>
tables == <<rows, firings>>
vars == <<phase, task, changed, processes, batch, result, tables>>

PrecheckResult ==
  [candidate : SUBSET Finding, verified : SUBSET Finding,
   failed : SUBSET Scanner, missing : SUBSET Scanner, read : BOOLEAN]

EmptyResult ==
  [candidate |-> {}, verified |-> {}, failed |-> {}, missing |-> {}, read |-> FALSE]

\* The scan has no child, or waits for it no longer: it was collected, or killed.
Gone == {"absent", "no_files", "unspawned", "reaped"}

-----------------------------------------------------------------------------
(* The scanners: run_scanner_subprocess, _run_semgrep_sarif_unguarded *)

\* An empty list of changed files: nothing is scanned.
SkipScans ==
  /\ phase = "start" /\ changed = {}
  /\ phase' = "done"
  /\ UNCHANGED <<task, changed, processes, batch, result, tables>>

\* Without its binary a scanner is missing; without a file of its kind, or
\* without rules, it starts no process and finds nothing; the spawn may fail.
StartScans ==
  /\ phase = "start" /\ changed # {}
  /\ child' \in [Scanner -> {"absent", "no_files", "unspawned", "running"}]
  /\ Cardinality({ s \in Scanner : child'[s] = "running" }) <= MaxStarted
  /\ core' = (child'[Semgrep] = "running")
  /\ batch' = [s \in Scanner |->
                 IF child'[s] = "unspawned" /\ s # Semgrep THEN None ELSE {}]
  /\ result' = [EmptyResult EXCEPT !.missing = { s \in Scanner : child'[s] = "absent" }]
  /\ phase' = "scan"
  /\ UNCHANGED <<task, changed, printed, tables>>

\* With exit code 0 or 1 it may have printed anything.  A semgrep that crashed leaves its core.
ChildExits(s) ==
  /\ child[s] = "running"
  /\ \E code \in 0 .. 2, out \in Printable \cup Unreadable :
       /\ code = 2 => out \in {Garbage, NoInputs}
       /\ out = NoInputs => code = 2 /\ s \in MayLackInputs
       /\ printed' = [printed EXCEPT ![s] = [code |-> code, out |-> out]]
  /\ child' = [child EXCEPT ![s] = "exited"]
  /\ core' \in {core, core /\ s # Semgrep}
  /\ UNCHANGED <<phase, task, changed, batch, result, tables>>

\* is_success_exit
IsSuccessExit(s, code) == code = 0 \/ (code = 1 /\ s \in FindingsExit)

\* Mutant: a failed exit is an empty report.
ParsedAnyway(s) ==
  IF printed[s].out \in Unreadable \/ ~IsSuccessExit(s, printed[s].code)
    THEN {} ELSE printed[s].out

\* The exit code decides first, but for a scanner without inputs; then
\* parse_semgrep_sarif or a JSON parser, most of which take what is no JSON for
\* an empty report.  An exception of either is caught, and is no result.
Parsed(s) ==
  LET out == printed[s].out
      failed == ~IsSuccessExit(s, printed[s].code) /\ out # NoInputs
  IN IF failed \/ out = Misshapen \/ (out = Garbage /\ s \in ParseToNone) THEN None
     ELSE IF out \in Unreadable THEN {} ELSE out

\* _run_semgrep_precheck: "or []"
Returned(s, found) == IF s = Semgrep /\ found = None THEN {} ELSE found

\* communicate() has returned: the child has ended and its pipes are closed.
Collect(s) ==
  /\ child[s] = "exited" /\ task[s] = "on" /\ (s = Semgrep => ~core)
  /\ child' = [child EXCEPT ![s] = "reaped"]
  /\ batch' = [batch EXCEPT ![s] = Returned(s, Parsed(s))]
  /\ UNCHANGED <<phase, task, changed, core, printed, result, tables>>

\* wait_for(communicate()) at its timeout: proc.kill() takes the child and not
\* its group.
TimesOut(s) ==
  /\ child[s] \in {"running", "exited"} /\ task[s] = "on"
  /\ child' = [child EXCEPT ![s] = "killed"]
  /\ UNCHANGED <<phase, task, changed, core, printed, batch, result, tables>>

\* Mutant: communicate() after the kill, without a bound.
DrainUnbounded(s) ==
  /\ child[s] = "killed" /\ task[s] # "asked" /\ (s = Semgrep => ~core)
  /\ child' = [child EXCEPT ![s] = "reaped"]
  /\ batch' = [batch EXCEPT ![s] = Returned(s, None)]
  /\ UNCHANGED <<phase, task, changed, core, printed, result, tables>>

\* _kill_and_reap, kill_and_reap: until the pipes close, or for a bounded time.
Drain(s) ==
  /\ child[s] = "killed" /\ task[s] # "asked"
  /\ child' = [child EXCEPT ![s] = "reaped"]
  /\ batch' = [batch EXCEPT ![s] = Returned(s, None)]
  /\ UNCHANGED <<phase, task, changed, core, printed, result, tables>>

\* Mutant: only an Exception kills the child, and a cancellation is none.
DeliverWithoutKill(s) ==
  /\ task[s] = "asked"
  /\ task' = [task EXCEPT ![s] = "raising"]
  /\ UNCHANGED <<phase, changed, processes, batch, result, tables>>

\* The scan's next step raises CancelledError.  In communicate() it kills the
\* child and drains its pipes before it passes the error on; a drain that had
\* begun is cut off, for suppress(Exception) does not cover it.
Deliver(s) ==
  /\ task[s] = "asked"
  /\ task' = [task EXCEPT ![s] = "raising"]
  /\ child' = [child EXCEPT ![s] = IF @ = "killed" THEN "reaped" ELSE "killed"]
  /\ UNCHANGED <<phase, changed, core, printed, batch, result, tables>>

\* Without its parent semgrep-core ends at some time, or never.
CoreExits ==
  /\ core /\ child[Semgrep] # "running"
  /\ core' = FALSE
  /\ UNCHANGED <<phase, task, changed, child, printed, batch, result, tables>>

\* Mutant: the node waits with asyncio.wait, which does not cancel what it waits for.
CancelNodeOnly ==
  /\ phase = "scan"
  /\ phase' = "cancelled"
  /\ UNCHANGED <<task, changed, processes, batch, result, tables>>

\* The node's task is cancelled and gather cancels every scan that has not
\* ended; it may be again, and asyncio.run cancels the scans the node left.
Cancel ==
  /\ phase \in {"scan", "cancelling", "cancelled"}
  /\ phase' = IF phase = "scan" THEN "cancelling" ELSE phase
  /\ task' = [s \in Scanner |-> IF child[s] \in Gone THEN task[s] ELSE "asked"]
  /\ UNCHANGED <<changed, processes, batch, result, tables>>

\* Without return_exceptions the gather is over with the first scan that ends
\* with the error, whatever the other scans are at, and the node with it.
Cancelled ==
  /\ phase = "cancelling"
  /\ \/ \E s \in Scanner : task[s] = "raising" /\ child[s] \in Gone
     \/ \A s \in Scanner : child[s] \in Gone
  /\ phase' = "cancelled"
  /\ UNCHANGED <<task, changed, processes, batch, result, tables>>

-----------------------------------------------------------------------------
(* The result: run_precheck after gather, _node_precheck_rules *)

FailedScanners == { s \in Scanner : batch[s] = None }

Found == UNION { batch[s] : s \in Scanner \ FailedScanners }

\* What was found in the changed files; a finding without a file never is.
InScope == { f \in Found : f.file \in changed }

\* select_rule_statuses: no row, or no answer, is "candidate".
StatusOf(f, readable) ==
  IF readable /\ rows[f.rule] # None THEN rows[f.rule] ELSE "candidate"

WithStatus(found, status, readable) == { f \in found : StatusOf(f, readable) = status }

\* candidate[:_MAX_RESULTS]: which are the first is up to the scanners, and the
\* list may name one of them more than once.
Capped(found) ==
  { kept \in SUBSET found : Cardinality(kept) <= MaxResults /\ (kept = {} => found = {}) }

\* Mutant: the cap comes before the classification.
ClassifiedCapped(readable) ==
  { [result EXCEPT !.failed = FailedScanners, !.read = readable,
                   !.verified = WithStatus(kept, "verified", readable),
                   !.candidate = WithStatus(kept, "candidate", readable)] :
      kept \in Capped(InScope) }

\* Only the candidates are capped.
Classified(readable) ==
  { [result EXCEPT !.failed = FailedScanners, !.read = readable,
                   !.verified = WithStatus(InScope, "verified", readable),
                   !.candidate = kept] :
      kept \in Capped(WithStatus(InScope, "candidate", readable)) }

Classify ==
  /\ phase = "scan" /\ \A s \in Scanner : child[s] \in Gone
  /\ \E readable \in BOOLEAN : result' \in Classified(readable)
  /\ phase' = IF result'.candidate = {} THEN "done" ELSE "log"
  /\ UNCHANGED <<task, changed, processes, batch, tables>>

RulesOf(found) == { f.rule : f \in found }

\* _ENSURE_RULE_ROWS_SQL: ON CONFLICT DO NOTHING
EnsureRows(rules) ==
  [r \in Rule |-> IF r \in rules /\ rows[r] = None THEN "candidate" ELSE rows[r]]

\* log_candidate_firings: one transaction, and no failure of it is seen.
LogFirings ==
  /\ phase = "log"
  /\ phase' = "done"
  /\ \/ rows' = EnsureRows(RulesOf(result.candidate))
        /\ firings' = firings \cup RulesOf(result.candidate)
     \/ UNCHANGED tables
  /\ UNCHANGED <<task, changed, processes, batch, result>>

\* Out-of-band triage of a rule, by hand: external.
Triage(r) ==
  /\ rows[r] = "candidate"
  /\ \E status \in {"verified", "suspended"} : rows' = [rows EXCEPT ![r] = status]
  /\ UNCHANGED <<phase, task, changed, processes, batch, result, firings>>

-----------------------------------------------------------------------------
Init ==
  /\ phase = "start" /\ task = [s \in Scanner |-> "on"]
  /\ changed \in Scopes
  /\ child = [s \in Scanner |-> "absent"] /\ core = FALSE
  /\ printed = [s \in Scanner |-> None]
  /\ batch = [s \in Scanner |-> {}]
  /\ result = EmptyResult
  /\ rows \in Statuses /\ firings = {}

ScanStep(s) == Collect(s) \/ TimesOut(s) \/ Drain(s) \/ Deliver(s)

Next ==
  \/ SkipScans \/ StartScans
  \/ \E s \in Scanner : ChildExits(s) \/ ScanStep(s)
  \/ CoreExits \/ Cancel \/ Cancelled \/ Classify \/ LogFirings
  \/ \E r \in Rule : Triage(r)

Spec == Init /\ [][Next]_vars

\* The event loop goes on, and a timeout runs out.  No process has to end.
FairSpec ==
  /\ Spec
  /\ WF_vars(SkipScans \/ StartScans \/ Classify \/ LogFirings \/ Cancelled)
  /\ \A s \in Scanner : WF_vars(ScanStep(s))

-----------------------------------------------------------------------------
(* Properties *)

\* Every variable keeps its shape, and the writer gets no more candidates than
\* the cap allows.
TypeOK ==
  /\ phase \in {"start", "scan", "cancelling", "log", "done", "cancelled"}
  /\ changed \in Scopes
  /\ task \in [Scanner -> {"on", "asked", "raising"}]
  /\ child \in [Scanner -> Gone \cup {"running", "exited", "killed"}]
  /\ core \in BOOLEAN
  /\ printed \in [Scanner -> Output \cup {None}]
  /\ batch \in [Scanner -> Printable \cup {{}, None}]
  /\ result \in PrecheckResult
  /\ Cardinality(result.candidate) <= MaxResults
  /\ rows \in Rows /\ firings \subseteq Rule

Concluded == phase \in {"log", "done"} /\ changed # {}

\* "a verified hit must never be subject to the aggregate-size cap": when the
\* statuses could be read, every finding of a verified rule in the changed files
\* gates the review, whichever scanner has it and however many others there are.
VerifiedIsNeverCapped ==
  [][phase = "scan" /\ Concluded' /\ result'.read =>
       \A s \in Scanner : batch[s] # None =>
         \A f \in batch[s] :
           f.file \in changed /\ rows[f.rule] = "verified" => f \in result'.verified]_vars

\* The scanner ended well, with output in which no parser fails, or had nothing to audit.
Completed(s) ==
  /\ printed[s] # None
  /\ \/ IsSuccessExit(s, printed[s].code) /\ printed[s].out # Misshapen
     \/ printed[s].out = NoInputs

\* failed_scanners: a scanner other than semgrep that was started and ended
\* with a failure, at its timeout, without its report or not at all is named.
FailuresAreNamed ==
  Concluded =>
    \A s \in Scanner \ {Semgrep} :
      \/ s \in result.failed \cup result.missing
      \/ child[s] = "no_files"
      \/ Completed(s)

\* "crashed, timed out, or produced unparseable output": a scanner whose output
\* nobody could read is named too.
UnparseableIsFailed ==
  Concluded =>
    \A s \in Scanner \ {Semgrep} :
      printed[s] # None /\ printed[s].out = Garbage => s \in result.failed

\* What runs for a scan always has one that will collect or kill it: while the
\* node scans, or because the scan is still to be told that it is cancelled.  The
\* node may have ended by then; what outlives it otherwise has been killed.
NoChildIsAbandoned ==
  \A s \in Scanner : child[s] \notin Gone =>
    \/ phase = "scan"
    \/ phase \in {"cancelling", "cancelled"} /\ (child[s] = "killed" \/ task[s] = "asked")

\* A child a scan has started is collected, or killed and given up, also when
\* the node that started it was cancelled and has ended before.
ChildrenEnd ==
  \A s \in Scanner : child[s] \in {"running", "exited", "killed"} ~> child[s] \in Gone

\* The scans end though semgrep-core may hold the pipes for ever.
ScansEnd == phase = "scan" ~> phase \in {"done", "cancelled"}

=============================================================================
