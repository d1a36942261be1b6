------------------------- MODULE RoundHistoryProofs -------------------------
(***************************************************************************)
(* Theorems about the rounds of one pull request, for any number of flows, *)
(* CLI runs and heads, however the branch moves and however rounds         *)
(* overlap, along one inductive invariant and what it means for a serial   *)
(* history, for a running upsert that is never lost, and for the sessions  *)
(* an attempt holds, with either checkpointer.                             *)
(***************************************************************************)
EXTENDS RoundHistory, FiniteSetTheorems, WellFoundedInduction, TLAPS

Working == {"fetch", "review", "finalize"}
Underway == Working \cup {"agent_runs", "return"}

Verdicts == {"NULL", "APPROVE", "BLOCKING"}
Unhalted == {"review", "gap", "precheck"}

BornRuns == { c \in Run : rows[c].born # 0 }

\* created_at tells any two rows apart, and NextBorn is later than all; a row
\* with a verdict has the head it is about.
RowsInOrder ==
  /\ \A c \in Run : rows[c].born <= Cardinality(BornRuns)
  /\ \A c, d \in Run : rows[c].born = rows[d].born /\ c # d => rows[c].born = 0
  /\ \A c \in Completed : rows[c].sha \in Head

\* A run that has not started has no row, one under way has a head and is one of
\* at most MaxTries; a CLI run has no row before it finalizes.  What agent_runs
\* holds of a run was inserted once in each of its attempts.
JobsInOrder ==
  \A c \in Run :
    /\ job[c].pc = "new" => job[c].tries = 0 /\ rows[c] = NoRow
    /\ job[c].pc # "new" => job[c].tries > 0
    /\ job[c].pc \in Underway => job[c].head \in Head
    /\ job[c].pc = "finalize" =>
         job[c].kind \in Kind /\ (job[c].kind = "halt" <=> job[c].verdict = "NULL")
    /\ job[c].pc \in Working /\ c \in Local => rows[c] = NoRow
    /\ \A t \in 1 .. MaxTries :
         /\ agentRuns[c][t] <= job[c].tries
         /\ job[c].pc \in Working \cup {"agent_runs"} => agentRuns[c][t] < job[c].tries

\* A commit of a head with a verdict was in some diff that was not halted; one of
\* a head under review is in the diff of this round or was in such a diff.
Chained ==
  /\ \A c \in Completed : CommitsOf[rows[c].sha] \subseteq Scoped(Unhalted)
  /\ \A c \in Run : job[c].pc \in {"review", "finalize"} =>
       CommitsOf[job[c].head] \subseteq job[c].scope \cup Scoped(Unhalted)

Inv == TypeOK /\ RowsInOrder /\ JobsInOrder /\ Chained

Active(c) == job[c].pc # "new" /\ ~ Over(c)

Growing == ~ setting.overlap /\ \A h \in Head : \A g \in setting.pushes[h] : IsAncestor(h, g)

\* With no overlap one run is active, retries included, and has the newest row if
\* it has one.
OneAtATime ==
  /\ \A c, d \in Run : Active(c) /\ Active(d) => c = d
  /\ \A c, d \in Run : Active(c) /\ rows[c].born # 0 /\ d # c => rows[d].born < rows[c].born

\* If the branch only grows besides, heads are completed in its order.
HeadsInOrder ==
  /\ \A c \in Run : job[c].pc \in Underway => IsAncestor(job[c].head, prHead)
  /\ \A c \in Completed : IsAncestor(rows[c].sha, prHead)
  /\ \A c, d \in Completed :
       rows[c].born < rows[d].born => IsAncestor(rows[c].sha, rows[d].sha)
  /\ \A c \in Run, d \in Completed :
       job[c].pc \in Working /\ c # d => IsAncestor(rows[d].sha, job[c].head)

Serial == Growing => OneAtATime /\ HeadsInOrder

\* When upsert_running_row works, no run keeps the verdict of an earlier attempt.
Withdrawn ==
  ~ setting.upsertFails =>
    \A c \in Run : job[c].pc \in Working => rows[c].verdict = "NULL"

\* The attempts whose sessions the attempt of c under way may hold.
MayHold(c) == IF PostgresCheckpointer THEN 1 .. job[c].tries ELSE {job[c].tries}

\* A run holds sessions of attempts that may hold them only, and those of an attempt
\* that has still to insert what it holds are stored once less than they may be.
OwnSessions ==
  \A c \in Run :
    /\ job[c].sessions \subseteq 1 .. job[c].tries
    /\ job[c].pc \in Underway => job[c].sessions \subseteq MayHold(c)
    /\ \A t \in 1 .. MaxTries :
         /\ agentRuns[c][t] <= AttemptsHolding(c, t)
         /\ job[c].pc \in Working \cup {"agent_runs"} /\ t \in MayHold(c)
              => agentRuns[c][t] < AttemptsHolding(c, t)

-----------------------------------------------------------------------------
(* Rows *)

\* The latest of some completed rows: there is one.
LEMMA LatestExists ==
  ASSUME TypeOK, NEW S \in SUBSET Run, S # {}
  PROVE  \E c \in S : \A d \in S : rows[d].born <= rows[c].born
  <1> DEFINE n == Cardinality(Run)
             ages == { n - rows[c].born : c \in S }
  <1>1. n \in Nat
    BY FS_CardinalityType, RunsAssumption
  <1>2. \A c \in Run : rows[c].born \in 0 .. n
    BY <1>1 DEF TypeOK, Row, NoRow
  <1> HIDE DEF n
  <1>3. ages \subseteq Nat /\ ages # {}
    BY <1>1, <1>2
  <1> HIDE DEF ages
  <1>4. PICK a \in ages : \A b \in ages : ~ (<<b, a>> \in OpToRel(<, Nat))
    BY <1>3, NatLessThanWellFounded, WFMin
  <1>5. \A b \in ages : a <= b
    <2>1. \A b \in ages : b < a => <<b, a>> \in OpToRel(<, Nat)
      BY <1>3 DEF OpToRel
    <2>2. \A b \in ages : ~ (b < a)
      BY <1>4, <2>1, Zenon
    <2> QED
      BY <1>3, <2>2
  <1>6. PICK c \in S : a = n - rows[c].born
    BY DEF ages
  <1>7. \A d \in S : n - rows[c].born <= n - rows[d].born
    BY <1>5, <1>6 DEF ages
  <1> QED
    BY <1>1, <1>2, <1>7

\* select_latest_completed_round returns one of the completed rows.
LEMMA LatestIsCompleted ==
  ASSUME TypeOK, Completed # {}
  PROVE  \E c \in Completed :
           /\ LatestCompleted = rows[c]
           /\ \A d \in Completed : rows[d].born <= rows[c].born
  <1> DEFINE latest == CHOOSE c \in Completed :
                         \A d \in Completed : rows[d].born <= rows[c].born
  <1>1. Completed \in SUBSET Run
    BY DEF Completed
  <1>2. latest \in Completed /\ \A d \in Completed : rows[d].born <= rows[latest].born
    BY <1>1, LatestExists
  <1>3. LatestCompleted = rows[latest]
    BY DEF LatestCompleted
  <1> QED
    BY <1>2, <1>3

\* A row that is inserted gets a created_at of its own, later than all others.
LEMMA RowWritten ==
  ASSUME TypeOK, RowsInOrder, NEW c \in Run,
         NEW stage \in {"running", "completed"}, NEW verdict \in Verdicts,
         NEW sha \in Head \cup {None}, NEW kind \in Kind \cup {"none"},
         verdict # "NULL" => sha \in Head,
         rows' = [rows EXCEPT ![c] =
                    [born |-> CreatedAt(c), stage |-> stage, verdict |-> verdict,
                     sha |-> sha, kind |-> kind]]
  PROVE  /\ rows' \in [Run -> Row \cup {NoRow}]
         /\ RowsInOrder'
         /\ rows[c].born = 0 => \A d \in Run \ {c} : rows[d].born < CreatedAt(c)
  <1> DEFINE r == [born |-> CreatedAt(c), stage |-> stage, verdict |-> verdict,
                   sha |-> sha, kind |-> kind]
  <1>0. /\ rows' = [rows EXCEPT ![c] = r]
        /\ r.born = IF rows[c].born = 0 THEN NextBorn ELSE rows[c].born
        /\ r.verdict = verdict /\ r.sha = sha
        /\ r \in [born : {r.born}, stage : {"running", "completed"}, verdict : Verdicts,
                  sha : Head \cup {None}, kind : Kind \cup {"none"}]
    BY DEF CreatedAt
  <1> HIDE DEF r
  <1>1. /\ IsFiniteSet(Run) /\ IsFiniteSet(BornRuns)
        /\ Cardinality(Run) \in Nat /\ Cardinality(BornRuns) \in Nat
        /\ Cardinality(BornRuns) <= Cardinality(Run)
        /\ Cardinality(BornRuns) = Cardinality(Run) => BornRuns = Run
    <2>1. BornRuns \in SUBSET Run
      BY DEF BornRuns
    <2>2. IsFiniteSet(Run)
      BY RunsAssumption
    <2> QED
      BY <2>1, <2>2, FS_Subset, FS_CardinalityType
  <1>2. NextBorn = 1 + Cardinality(BornRuns)
    BY DEF NextBorn, BornRuns
  <1>3. \A d \in Run : rows[d].born \in Nat
    BY <1>1 DEF TypeOK, Row, NoRow
  <1>4. CASE rows[c].born = 0
    <2>1. c \notin BornRuns /\ Cardinality(BornRuns) < Cardinality(Run)
      BY <1>1, <1>4 DEF BornRuns
    <2>2. r.born = 1 + Cardinality(BornRuns)
      BY <1>0, <1>2, <1>4
    <2>3. r.born \in 1 .. Cardinality(Run)
      BY <1>1, <2>1, <2>2
    <2>4. r \in Row
      BY <1>0, <2>3 DEF Row, Verdicts
    <2>5. rows' \in [Run -> Row \cup {NoRow}]
      BY <1>0, <2>4 DEF TypeOK
    <2>6. \A d \in Run : rows'[d] = IF d = c THEN r ELSE rows[d]
      BY <1>0 DEF TypeOK
    <2>7. BornRuns' = BornRuns \cup {c}
      BY <2>3, <2>6 DEF BornRuns
    <2>8. Cardinality(BornRuns') = 1 + Cardinality(BornRuns)
      <3>1. Cardinality(BornRuns \cup {c}) = Cardinality(BornRuns) + 1
        BY <1>1, <2>1, FS_AddElement
      <3> QED
        BY <1>1, <2>7, <3>1
    <2>9. \A d \in Run \ {c} : rows[d].born < CreatedAt(c)
      BY <1>0, <1>1, <1>3, <1>4, <2>2 DEF RowsInOrder, CreatedAt
    <2> QED
      BY <1>0, <1>1, <1>3, <2>2, <2>5, <2>6, <2>8, <2>9 DEF RowsInOrder, Completed
  <1>5. CASE rows[c].born # 0
    <2>1. r.born = rows[c].born /\ rows[c] \in Row
      BY <1>0, <1>5 DEF TypeOK, NoRow
    <2>2. r \in Row
      BY <1>0, <2>1 DEF Row, Verdicts
    <2>3. rows' \in [Run -> Row \cup {NoRow}]
      BY <1>0, <2>2 DEF TypeOK
    <2>4. \A d \in Run : rows'[d] = IF d = c THEN r ELSE rows[d]
      BY <1>0 DEF TypeOK
    <2>5. BornRuns' = BornRuns
      BY <1>5, <2>1, <2>4 DEF BornRuns
    <2> QED
      BY <1>0, <1>3, <1>5, <2>1, <2>3, <2>4, <2>5 DEF RowsInOrder, Completed
  <1> QED
    BY <1>4, <1>5

\* upsert_running_row withdraws the verdict and keeps the rest of the row.
LEMMA RowRunning ==
  ASSUME TypeOK, RowsInOrder, NEW c \in Run, UpsertRunning(c)
  PROVE  /\ rows' \in [Run -> Row \cup {NoRow}] /\ RowsInOrder'
         /\ rows[c].born = 0 => \A d \in Run \ {c} : rows[d].born < rows'[c].born
         /\ rows[c].born # 0 => rows'[c].born = rows[c].born
         /\ \A d \in Run \ {c} : rows'[d] = rows[d]
         /\ rows'[c].verdict = "NULL" /\ rows'[c].kind = "none"
         /\ Completed' = Completed \ {c}
  <1>1. rows[c].sha \in Head \cup {None} /\ rows \in [Run -> Row \cup {NoRow}]
    BY DEF TypeOK, Row, NoRow
  <1>2. rows' = [rows EXCEPT ![c] =
                   [born |-> CreatedAt(c), stage |-> "running", verdict |-> "NULL",
                    sha |-> rows[c].sha, kind |-> "none"]]
    BY DEF UpsertRunning
  <1>3. /\ rows' \in [Run -> Row \cup {NoRow}] /\ RowsInOrder'
        /\ rows[c].born = 0 => \A d \in Run \ {c} : rows[d].born < CreatedAt(c)
    BY <1>1, <1>2, RowWritten DEF Verdicts
  <1>4. /\ \A d \in Run \ {c} : rows'[d] = rows[d]
        /\ rows'[c].verdict = "NULL" /\ rows'[c].kind = "none"
        /\ rows'[c].born = CreatedAt(c)
    BY <1>1, <1>2
  <1> QED
    BY <1>3, <1>4 DEF Completed, CreatedAt

\* upsert_completed_round stores the verdict and the head of the round.
LEMMA RowCompleted ==
  ASSUME TypeOK, RowsInOrder, NEW c \in Run, UpsertCompleted(c),
         job[c].head \in Head, job[c].kind \in Kind
  PROVE  /\ rows' \in [Run -> Row \cup {NoRow}] /\ RowsInOrder'
         /\ rows[c].born = 0 => \A d \in Run \ {c} : rows[d].born < rows'[c].born
         /\ rows[c].born # 0 => rows'[c].born = rows[c].born
         /\ \A d \in Run \ {c} : rows'[d] = rows[d]
         /\ rows'[c].verdict = job[c].verdict /\ rows'[c].sha = job[c].head
         /\ rows'[c].kind = job[c].kind
         /\ Completed' = IF job[c].verdict = "NULL" THEN Completed \ {c}
                         ELSE Completed \cup {c}
  <1>1. job[c].verdict \in Verdicts /\ rows \in [Run -> Row \cup {NoRow}]
    BY DEF TypeOK, Verdicts
  <1>2. rows' = [rows EXCEPT ![c] =
                   [born |-> CreatedAt(c), stage |-> "completed",
                    verdict |-> job[c].verdict, sha |-> job[c].head,
                    kind |-> job[c].kind]]
    BY DEF UpsertCompleted
  <1>3. /\ rows' \in [Run -> Row \cup {NoRow}] /\ RowsInOrder'
        /\ rows[c].born = 0 => \A d \in Run \ {c} : rows[d].born < CreatedAt(c)
    BY <1>1, <1>2, RowWritten
  <1>4. /\ \A d \in Run \ {c} : rows'[d] = rows[d]
        /\ rows'[c].verdict = job[c].verdict /\ rows'[c].sha = job[c].head
        /\ rows'[c].kind = job[c].kind /\ rows'[c].born = CreatedAt(c)
    BY <1>1, <1>2
  <1> QED
    BY <1>3, <1>4 DEF Completed, CreatedAt

-----------------------------------------------------------------------------
(* The inductive invariant *)

LEMMA InitInv == Init => Inv
  <1> SUFFICES ASSUME Init
               PROVE  Inv
    OBVIOUS
  <1>1. TypeOK
    BY SettingsAssumption, BoundsAssumption DEF Init, TypeOK, NoRow, IdleJob, Kind
  <1>2. Completed = {} /\ BornRuns = {}
    BY DEF Init, Completed, BornRuns, NoRow
  <1>3. RowsInOrder
    BY <1>2, FS_EmptySet DEF RowsInOrder, Init, NoRow
  <1>4. JobsInOrder
    BY DEF JobsInOrder, Init, IdleJob, Underway, Working
  <1>5. Chained
    BY <1>2 DEF Chained, Init, IdleJob
  <1> QED
    BY <1>1, <1>3, <1>4, <1>5 DEF Inv

LEMMA RowsStep == ASSUME TypeOK, RowsInOrder, JobsInOrder, [Next]_vars
                  PROVE  rows' \in [Run -> Row \cup {NoRow}] /\ RowsInOrder'
  <1>1. CASE rows' = rows
    BY <1>1 DEF TypeOK, RowsInOrder, BornRuns, Completed
  <1>2. CASE \E c \in Run : UpsertRunning(c)
    BY <1>2, RowRunning
  <1>3. CASE \E c \in Run : UpsertCompleted(c) /\ job[c].pc = "finalize"
    <2>1. PICK c \in Run : UpsertCompleted(c) /\ job[c].pc = "finalize"
      BY <1>3
    <2>2. job[c].head \in Head /\ job[c].kind \in Kind
      BY <2>1 DEF JobsInOrder, Underway, Working
    <2> QED
      BY <2>1, <2>2, RowCompleted
  <1> QED
    BY <1>1, <1>2, <1>3 DEF Next, vars, branch, Push, Start, FetchPrior, Decide,
       Finalize, FinalizeAckLost, FinalizeLost, InsertAgentRuns, Return, Fail

LEMMA TypeStep == ASSUME Inv, [Next]_vars
                  PROVE  TypeOK' /\ RowsInOrder'
  <1> DEFINE Job == [pc : {"new", "fetch", "review", "finalize", "agent_runs",
                           "return", "done", "failed"},
                     tries : 0 .. MaxTries, head : Head \cup {None},
                     scope : SUBSET Commits, kind : Kind \cup {"none"},
                     verdict : {"NULL", "APPROVE", "BLOCKING"},
                     sessions : SUBSET (1 .. MaxTries)]
             Runs == [Run -> [1 .. MaxTries -> 0 .. MaxTries]]
             Rounds == SUBSET [kind : Kind, scope : SUBSET Commits]
  <1>1. rows' \in [Run -> Row \cup {NoRow}] /\ RowsInOrder'
    BY RowsStep DEF Inv
  <1>2. TypeOK /\ JobsInOrder
    BY DEF Inv
  <1>3. setting' = setting
    BY DEF Next, vars, branch, Push, Start, FetchPrior, Decide, Finalize,
       FinalizeAckLost, FinalizeLost, InsertAgentRuns, Return, Fail
  <1>4. MaxTries \in Nat \ {0} /\ setting.maxPushes \in Nat
        /\ setting.pushes \in [Head -> SUBSET Head]
    BY <1>2, BoundsAssumption, SettingsAssumption DEF TypeOK
  <1>5. SUFFICES /\ prHead' \in Head /\ pushes' \in 0 .. setting.maxPushes
                 /\ agentRuns' \in Runs /\ job' \in [Run -> Job] /\ rounds' \in Rounds
    BY <1>1, <1>2, <1>3 DEF TypeOK, Commits, CommitsOf
  <1>6. /\ prHead \in Head /\ pushes \in 0 .. setting.maxPushes
        /\ agentRuns \in Runs /\ job \in [Run -> Job] /\ rounds \in Rounds
    BY <1>2 DEF TypeOK
  <1>7. CASE Push
    BY <1>4, <1>6, <1>7 DEF Push
  <1>8. CASE UNCHANGED vars
    BY <1>6, <1>8 DEF vars, branch
  <1>9. ASSUME NEW c \in Run, UNCHANGED branch, agentRuns' \in Runs, rounds' \in Rounds,
               NEW j \in Job, job' = [job EXCEPT ![c] = j]
        PROVE  <1>5!1
    <2> HIDE DEF Job
    <2> QED
      BY <1>6, <1>9 DEF branch
  <1>10. ASSUME NEW c \in Run, Start(c)
         PROVE  <1>5!1
    <2> \/ job[c].pc = "new"
        \/ job[c].pc = "failed" /\ job[c].tries < MaxTries
      BY <1>10 DEF Start, MayStart
    <2>0. job[c].tries \in 0 .. MaxTries /\ job[c].sessions \in SUBSET (1 .. MaxTries)
      BY <1>6
    <2>1. job[c].tries + 1 \in 0 .. MaxTries /\ SessionsAtStart(c) \in SUBSET (1 .. MaxTries)
      BY <1>2, <1>4, <2>0 DEF JobsInOrder, SessionsAtStart
    <2> DEFINE j == [IdleJob EXCEPT
                       !.pc = "fetch", !.tries = job[c].tries + 1, !.head = prHead,
                       !.sessions = SessionsAtStart(c)]
    <2>2. j \in Job
      BY <1>6, <2>1 DEF IdleJob
    <2>3. job' = [job EXCEPT ![c] = j]
      BY <1>10 DEF Start
    <2> QED
      BY <1>6, <1>9, <1>10, <2>2, <2>3 DEF Start
  <1>11. ASSUME NEW c \in Run, FetchPrior(c)
         PROVE  <1>5!1
    <2>1. \A priorSha : Scope(job[c].head, priorSha) \in SUBSET Commits
      BY <1>2, <1>11 DEF FetchPrior, JobsInOrder, Underway, Working, Scope, Commits
    <2>2. PICK scope \in SUBSET Commits :
            job' = [job EXCEPT ![c].scope = scope, ![c].pc = "review"]
      BY <1>11, <2>1 DEF FetchPrior
    <2> DEFINE j == [job[c] EXCEPT !.scope = scope, !.pc = "review"]
    <2>3. j \in Job
      BY <1>6
    <2>4. job' = [job EXCEPT ![c] = j]
      BY <1>6, <2>2
    <2> QED
      BY <1>6, <1>9, <1>11, <2>3, <2>4 DEF FetchPrior
  <1>12. ASSUME NEW c \in Run, Decide(c)
         PROVE  <1>5!1
    <2> job[c].pc = "review"
      BY <1>12 DEF Decide
    <2>0. job[c].tries \in 0 .. MaxTries
      BY <1>6
    <2>1. job[c].tries \in 1 .. MaxTries
      BY <1>2, <2>0 DEF JobsInOrder
    <2>2. PICK kind \in Kind, verdict \in {"APPROVE", "BLOCKING", "NULL"} :
            job' = [job EXCEPT
                      ![c].pc = "finalize", ![c].kind = kind,
                      ![c].verdict = verdict,
                      ![c].sessions = IF kind \in {"review", "gap"}
                                      THEN @ \cup {job[c].tries} ELSE @]
      BY <1>12 DEF Decide
    <2> DEFINE j == [job[c] EXCEPT
                       !.pc = "finalize", !.kind = kind, !.verdict = verdict,
                       !.sessions = IF kind \in {"review", "gap"}
                                    THEN @ \cup {job[c].tries} ELSE @]
    <2>3. j \in Job
      BY <1>6, <2>1
    <2>4. job' = [job EXCEPT ![c] = j]
      BY <1>6, <2>2
    <2> QED
      BY <1>6, <1>9, <1>12, <2>3, <2>4 DEF Decide
  <1>13. ASSUME NEW c \in Run, job[c].pc = "finalize", UpsertCompleted(c)
         PROVE  rounds' \in Rounds
    <2>1. job[c].kind \in Kind /\ job[c].scope \in SUBSET Commits
      BY <1>2, <1>6, <1>13 DEF JobsInOrder
    <2> QED
      BY <1>6, <1>13, <2>1 DEF UpsertCompleted
  <1>14. ASSUME NEW c \in Run, NEW pc \in {"agent_runs", "return"},
                job' = [job EXCEPT ![c].pc = pc]
         PROVE  \E j \in Job : job' = [job EXCEPT ![c] = j]
    <2>1. [job[c] EXCEPT !.pc = pc] \in Job
      BY <1>6
    <2>2. job' = [job EXCEPT ![c] = [job[c] EXCEPT !.pc = pc]]
      BY <1>6, <1>14
    <2> QED
      BY <2>1, <2>2
  <1>15. ASSUME NEW c \in Run, NEW pc \in {"done", "failed"},
                job' = [job EXCEPT ![c] = Ended(@, pc)]
         PROVE  \E j \in Job : job' = [job EXCEPT ![c] = j]
    <2>1. Ended(job[c], pc) \in Job
      BY <1>6 DEF Ended, IdleJob
    <2> QED
      BY <1>15, <2>1
  <1>16. ASSUME NEW c \in Run, Finalize(c)
         PROVE  <1>5!1
    BY <1>6, <1>9, <1>13, <1>14, <1>16 DEF Finalize
  <1>17. ASSUME NEW c \in Run, FinalizeAckLost(c)
         PROVE  <1>5!1
    <2>1. job[c].pc = "finalize" /\ UpsertCompleted(c) /\ UNCHANGED <<branch, agentRuns>>
          /\ job' = [job EXCEPT ![c] = Ended(@, "failed")]
      BY <1>17 DEF FinalizeAckLost
    <2>2. rounds' \in Rounds
      BY <1>13, <2>1
    <2>3. PICK j \in Job : job' = [job EXCEPT ![c] = j]
      BY <1>15, <2>1
    <2> QED
      BY <1>6, <1>9, <2>1, <2>2, <2>3
  <1>18. ASSUME NEW c \in Run, FinalizeLost(c)
         PROVE  <1>5!1
    BY <1>6, <1>9, <1>14, <1>18 DEF FinalizeLost
  <1>19. ASSUME NEW c \in Run, InsertAgentRuns(c)
         PROVE  <1>5!1
    <2>1. \A t \in 1 .. MaxTries : agentRuns[c][t] + 1 \in 0 .. MaxTries
      BY <1>2, <1>4, <1>19 DEF InsertAgentRuns, TypeOK, JobsInOrder
    <2> DEFINE counted == [t \in 1 .. MaxTries |->
                 IF t \in job[c].sessions THEN agentRuns[c][t] + 1 ELSE agentRuns[c][t]]
    <2>2. counted \in [1 .. MaxTries -> 0 .. MaxTries]
      <3>1. \A t \in 1 .. MaxTries : agentRuns[c][t] \in 0 .. MaxTries
        BY <1>6
      <3> QED
        BY <2>1, <3>1
    <2>3. agentRuns' \in {agentRuns, [agentRuns EXCEPT ![c] = counted]}
      BY <1>19 DEF InsertAgentRuns
    <2> HIDE DEF counted
    <2>4. agentRuns' \in Runs
      BY <1>6, <2>2, <2>3
    <2> QED
      BY <1>6, <1>9, <1>14, <1>19, <2>4 DEF InsertAgentRuns
  <1>20. ASSUME NEW c \in Run, Return(c) \/ Fail(c)
         PROVE  <1>5!1
    BY <1>6, <1>9, <1>15, <1>20 DEF Return, Fail
  <1> QED
    BY <1>7, <1>8, <1>10, <1>11, <1>12, <1>16, <1>17, <1>18, <1>19, <1>20 DEF Next

\* A process that ended keeps its attempts and its channels.
LEMMA EndedJob == ASSUME NEW j, NEW pc
                  PROVE  /\ Ended(j, pc).pc = pc /\ Ended(j, pc).tries = j.tries
                         /\ Ended(j, pc).sessions = j.sessions
  BY DEF Ended, IdleJob

\* One run's order survives a step of another, or of the branch.
LEMMA JobsStep == ASSUME Inv, [Next]_vars, TypeOK'
                  PROVE  JobsInOrder'
  <1> DEFINE Order(c) ==
               /\ job[c].pc = "new" => job[c].tries = 0 /\ rows[c] = NoRow
               /\ job[c].pc # "new" => job[c].tries > 0
               /\ job[c].pc \in Underway => job[c].head \in Head
               /\ job[c].pc = "finalize" =>
                    /\ job[c].kind \in Kind
                    /\ job[c].kind = "halt" <=> job[c].verdict = "NULL"
               /\ job[c].pc \in Working /\ c \in Local => rows[c] = NoRow
               /\ \A t \in 1 .. MaxTries :
                    /\ agentRuns[c][t] <= job[c].tries
                    /\ job[c].pc \in Working \cup {"agent_runs"} =>
                         agentRuns[c][t] < job[c].tries
  <1>1. TypeOK /\ RowsInOrder /\ \A c \in Run : Order(c)
    BY DEF Inv, JobsInOrder
  <1>2. SUFFICES \A c \in Run : Order(c)'
    BY DEF JobsInOrder
  <1>3. ASSUME NEW c \in Run, rows'[c] = rows[c], job'[c] = job[c],
               agentRuns'[c] = agentRuns[c]
        PROVE  Order(c)'
    BY <1>1, <1>3
  <1>4. CASE UNCHANGED <<rows, agentRuns, job>>
    BY <1>3, <1>4
  <1>5. ASSUME NEW c \in Run, NEW d \in Run, c # d,
               \/ Start(c) \/ FetchPrior(c) \/ Decide(c)
               \/ Finalize(c) \/ FinalizeAckLost(c) \/ FinalizeLost(c)
               \/ InsertAgentRuns(c) \/ Return(c) \/ Fail(c)
        PROVE  Order(d)'
    <2>1. rows'[d] = rows[d] /\ job'[d] = job[d] /\ agentRuns'[d] = agentRuns[d]
      BY <1>1, <1>5 DEF Start, FetchPrior, Decide, Finalize, FinalizeAckLost,
         FinalizeLost, InsertAgentRuns, Return, Fail, UpsertRunning,
         UpsertCompleted, TypeOK
    <2> QED
      BY <1>3, <2>1
  <1>6. ASSUME NEW c \in Run, Start(c)
        PROVE  Order(c)'
    <2>1. /\ job'[c].pc = "fetch" /\ job'[c].head = prHead
          /\ job'[c].tries = job[c].tries + 1 /\ agentRuns' = agentRuns
      BY <1>1, <1>6 DEF Start, TypeOK, IdleJob
    <2>2. \A t \in 1 .. MaxTries : agentRuns[c][t] \in Nat /\ job[c].tries \in Nat
      BY <1>1, BoundsAssumption DEF TypeOK
    <2>3. c \in Local => rows'[c] = NoRow
      BY <1>1, <1>6, RunsAssumption DEF Start, MayStart
    <2>4. job[c].tries \in Nat /\ prHead \in Head
      BY <1>1, BoundsAssumption DEF TypeOK
    <2> QED
      BY <1>1, <2>1, <2>2, <2>3, <2>4
  <1>7. ASSUME NEW c \in Run, FetchPrior(c)
        PROVE  Order(c)'
    BY <1>1, <1>7 DEF FetchPrior, TypeOK, Underway, Working
  <1>8. ASSUME NEW c \in Run, Decide(c)
        PROVE  Order(c)'
    BY <1>1, <1>8 DEF Decide, TypeOK, Underway, Working
  <1>9. ASSUME NEW c \in Run, Finalize(c) \/ FinalizeLost(c)
        PROVE  Order(c)'
    <2>1. /\ job[c].pc = "finalize" /\ job'[c].pc \in {"agent_runs", "return"}
          /\ job'[c].tries = job[c].tries /\ job'[c].head = job[c].head
          /\ agentRuns' = agentRuns
      BY <1>1, <1>9 DEF Finalize, FinalizeLost, TypeOK
    <2> QED
      BY <1>1, <2>1 DEF Underway, Working
  <1>10. ASSUME NEW c \in Run, FinalizeAckLost(c) \/ Return(c) \/ Fail(c)
         PROVE  Order(c)'
    <2>1. /\ job[c].pc # "new" /\ job'[c].pc \in {"done", "failed"}
          /\ job'[c].tries = job[c].tries /\ agentRuns' = agentRuns
      <3>1. /\ job[c].pc # "new" /\ agentRuns' = agentRuns
            /\ \E pc \in {"done", "failed"} : job'[c] = Ended(job[c], pc)
        BY <1>1, <1>10 DEF FinalizeAckLost, Return, Fail, TypeOK
      <3> QED
        BY <3>1, EndedJob
    <2> QED
      BY <1>1, <2>1 DEF Underway, Working
  <1>11. ASSUME NEW c \in Run, InsertAgentRuns(c)
         PROVE  Order(c)'
    <2>1. \A t \in 1 .. MaxTries :
            agentRuns'[c][t] \in {agentRuns[c][t], agentRuns[c][t] + 1}
      <3> DEFINE counted == [t \in 1 .. MaxTries |->
                   IF t \in job[c].sessions THEN agentRuns[c][t] + 1 ELSE agentRuns[c][t]]
      <3>1. agentRuns' \in {agentRuns, [agentRuns EXCEPT ![c] = counted]}
        BY <1>11 DEF InsertAgentRuns
      <3>2. \A t \in 1 .. MaxTries : counted[t] \in {agentRuns[c][t], agentRuns[c][t] + 1}
        OBVIOUS
      <3> HIDE DEF counted
      <3>3. DOMAIN agentRuns = Run
        BY <1>1 DEF TypeOK
      <3> QED
        BY <3>1, <3>2, <3>3
    <2>2. /\ job[c].pc = "agent_runs" /\ job'[c].pc = "return"
          /\ job'[c].tries = job[c].tries /\ job'[c].head = job[c].head
      BY <1>1, <1>11 DEF InsertAgentRuns, TypeOK
    <2>3. \A t \in 1 .. MaxTries : agentRuns[c][t] \in Nat /\ job[c].tries \in Nat
      BY <1>1, BoundsAssumption DEF TypeOK
    <2> QED
      BY <1>1, <2>1, <2>2, <2>3 DEF Underway, Working
  <1> HIDE DEF Order
  <1>12. CASE Push
    BY <1>4, <1>12 DEF Push
  <1>13. CASE UNCHANGED vars
    BY <1>4, <1>13 DEF vars
  <1> QED
    BY <1>5, <1>6, <1>7, <1>8, <1>9, <1>10, <1>11, <1>12, <1>13 DEF Next

\* More rounds leave less uncovered.
LEMMA ScopedGrows == ASSUME rounds \subseteq rounds'
                     PROVE  Scoped(Unhalted) \subseteq Scoped(Unhalted)'
  BY DEF Scoped

\* What one diff leaves out was reviewed with an earlier head.
LEMMA ChainStep == ASSUME Inv, [Next]_vars, TypeOK'
                   PROVE  Chained'
  <1> DEFINE Held(c) == c \in Completed =>
                          CommitsOf[rows[c].sha] \subseteq Scoped(Unhalted)
             Read(c) == job[c].pc \in {"review", "finalize"} =>
                          CommitsOf[job[c].head] \subseteq job[c].scope \cup Scoped(Unhalted)
  <1>1. /\ TypeOK /\ RowsInOrder /\ JobsInOrder
        /\ \A c \in Run : Held(c) /\ Read(c)
    BY DEF Inv, Chained
  <1>2. SUFFICES \A c \in Run : Held(c)' /\ Read(c)'
    BY DEF Chained, Completed
  <1>3. setting' = setting /\ rounds \subseteq rounds'
    BY DEF Next, vars, branch, Push, Start, FetchPrior, Decide, Finalize, UpsertCompleted,
       FinalizeAckLost, FinalizeLost, InsertAgentRuns, Return, Fail
  <1>4. CommitsOf' = CommitsOf /\ Scoped(Unhalted) \subseteq Scoped(Unhalted)'
    BY <1>3, ScopedGrows DEF CommitsOf
  <1>5. ASSUME NEW c \in Run, rows'[c] = rows[c]
        PROVE  Held(c)'
    <2> QED
      BY <1>1, <1>4, <1>5 DEF Completed
  <1>6. ASSUME NEW c \in Run, job'[c] = job[c]
        PROVE  Read(c)'
    BY <1>1, <1>4, <1>6
  <1>7. ASSUME NEW c \in Run, job'[c].pc \notin {"review", "finalize"}
        PROVE  Read(c)'
    BY <1>7
  <1>8. ASSUME NEW c \in Run, NEW d \in Run, c # d,
               \/ Start(c) \/ FetchPrior(c) \/ Decide(c)
               \/ Finalize(c) \/ FinalizeAckLost(c) \/ FinalizeLost(c)
               \/ InsertAgentRuns(c) \/ Return(c) \/ Fail(c)
        PROVE  Held(d)' /\ Read(d)'
    <2>1. rows'[d] = rows[d] /\ job'[d] = job[d]
      BY <1>1, <1>8 DEF Start, FetchPrior, Decide, Finalize, FinalizeAckLost,
         FinalizeLost, InsertAgentRuns, Return, Fail, UpsertRunning,
         UpsertCompleted, TypeOK
    <2> HIDE DEF Held, Read
    <2> QED
      BY <1>5, <1>6, <2>1
  <1>9. ASSUME NEW c \in Run, Start(c)
        PROVE  Held(c)' /\ Read(c)'
    <2>1. job'[c].pc = "fetch"
      BY <1>1, <1>9 DEF Start, TypeOK, IdleJob
    <2>2. CASE rows' = rows
      BY <1>5, <1>7, <2>1, <2>2
    <2>3. CASE UpsertRunning(c)
      <3>1. c \notin Completed'
        BY <1>1, <2>3, RowRunning
      <3> QED
        BY <1>7, <2>1, <3>1
    <2> QED
      BY <1>9, <2>2, <2>3 DEF Start
  <1>10. ASSUME NEW c \in Run, FetchPrior(c)
         PROVE  Held(c)' /\ Read(c)'
    <2>1. PICK priorSha \in {LatestCompleted.sha, None} :
            job' = [job EXCEPT ![c].scope = Scope(job[c].head, priorSha), ![c].pc = "review"]
      BY <1>10 DEF FetchPrior
    <2>2. job'[c].scope = Scope(job[c].head, priorSha) /\ job'[c].head = job[c].head
      BY <1>1, <2>1 DEF TypeOK
    <2>3. CASE priorSha = None \/ ~ IsAncestor(priorSha, job[c].head)
      <3>1. job'[c].scope = CommitsOf[job[c].head]
        BY <2>2, <2>3 DEF Scope
      <3> QED
        BY <1>4, <1>5, <1>10, <2>2, <3>1 DEF FetchPrior
    <2>4. CASE priorSha # None
      <3>1. Completed # {}
        BY <2>1, <2>4 DEF LatestCompleted, NoRow
      <3>2. PICK d \in Completed : LatestCompleted = rows[d]
        BY <1>1, <3>1, LatestIsCompleted
      <3>3. CommitsOf[priorSha] \subseteq Scoped(Unhalted)
        BY <1>1, <2>1, <2>4, <3>2 DEF Completed
      <3>4. CommitsOf[job[c].head] \subseteq Scope(job[c].head, priorSha) \cup CommitsOf[priorSha]
        BY DEF Scope
      <3> QED
        BY <1>4, <1>5, <1>10, <2>2, <3>3, <3>4 DEF FetchPrior
    <2> QED
      BY <2>3, <2>4
  <1>11. ASSUME NEW c \in Run, Decide(c)
         PROVE  Held(c)' /\ Read(c)'
    <2>1. /\ job[c].pc = "review" /\ rows' = rows
          /\ job'[c].head = job[c].head /\ job'[c].scope = job[c].scope
      BY <1>1, <1>11 DEF Decide, TypeOK
    <2> QED
      BY <1>1, <1>4, <1>5, <2>1
  <1>12. ASSUME NEW c \in Run, job[c].pc = "finalize", UpsertCompleted(c)
         PROVE  Held(c)'
    <2>1. /\ job[c].head \in Head /\ job[c].kind \in Kind
          /\ job[c].kind = "halt" <=> job[c].verdict = "NULL"
      BY <1>1, <1>12 DEF JobsInOrder, Underway, Working
    <2>2. rows'[c].verdict = job[c].verdict /\ rows'[c].sha = job[c].head
      BY <1>1, <1>12, <2>1, RowCompleted
    <2>3. CASE job[c].verdict = "NULL"
      BY <2>2, <2>3 DEF Completed
    <2>4. CASE job[c].verdict # "NULL"
      <3>1. job[c].kind \in Unhalted
        BY <2>1, <2>4 DEF Kind, Unhalted
      <3> DEFINE x == [kind |-> job[c].kind, scope |-> job[c].scope]
      <3>2. x \in rounds' /\ x.kind \in Unhalted /\ x.scope = job[c].scope
        BY <1>12, <3>1 DEF UpsertCompleted
      <3> HIDE DEF x
      <3>3. job[c].scope \subseteq Scoped(Unhalted)'
        BY <3>2 DEF Scoped
      <3>4. CommitsOf[job[c].head] \subseteq job[c].scope \cup Scoped(Unhalted)
        BY <1>1, <1>12
      <3> QED
        BY <1>4, <2>2, <3>3, <3>4
    <2> QED
      BY <2>3, <2>4
  <1>13. ASSUME NEW c \in Run, Finalize(c) \/ FinalizeLost(c)
         PROVE  Held(c)' /\ Read(c)'
    <2>1. job'[c].pc \in {"agent_runs", "return"}
      BY <1>1, <1>13 DEF Finalize, FinalizeLost, TypeOK
    <2>2. Held(c)'
      BY <1>5, <1>12, <1>13 DEF Finalize, FinalizeLost
    <2> QED
      BY <2>1, <2>2
  <1>14. ASSUME NEW c \in Run,
                FinalizeAckLost(c) \/ InsertAgentRuns(c) \/ Return(c) \/ Fail(c)
         PROVE  Held(c)' /\ Read(c)'
    <2>1. \/ job'[c].pc = "return"
          \/ \E pc \in {"done", "failed"} : job'[c] = Ended(job[c], pc)
      BY <1>1, <1>14 DEF FinalizeAckLost, InsertAgentRuns, Return, Fail, TypeOK
    <2>2. job'[c].pc \notin {"review", "finalize"}
      BY <2>1, EndedJob
    <2>3. Held(c)'
      BY <1>5, <1>12, <1>14 DEF FinalizeAckLost, InsertAgentRuns, Return, Fail
    <2> QED
      BY <2>2, <2>3
  <1> HIDE DEF Held, Read
  <1>15. CASE UNCHANGED <<rows, job>>
    BY <1>5, <1>6, <1>15
  <1>16. CASE Push
    BY <1>15, <1>16 DEF Push
  <1>17. CASE UNCHANGED vars
    BY <1>15, <1>17 DEF vars
  <1> QED
    BY <1>8, <1>9, <1>10, <1>11, <1>13, <1>14, <1>16, <1>17 DEF Next

LEMMA InvHolds == Spec => []Inv
  <1>1. Inv /\ [Next]_vars => Inv'
    BY TypeStep, JobsStep, ChainStep DEF Inv
  <1> QED
    BY InitInv, <1>1, PTL DEF Spec

-----------------------------------------------------------------------------
(* Serial rounds *)

StepOf(c) == \/ Start(c) \/ FetchPrior(c) \/ Decide(c)
             \/ Finalize(c) \/ FinalizeAckLost(c) \/ FinalizeLost(c)
             \/ InsertAgentRuns(c) \/ Return(c) \/ Fail(c)

\* A step of one run leaves the others and the branch alone.
LEMMA StepLeavesOthers ==
  ASSUME Inv, NEW c \in Run, StepOf(c)
  PROVE  /\ setting' = setting /\ prHead' = prHead
         /\ \A d \in Run \ {c} :
              rows'[d] = rows[d] /\ job'[d] = job[d] /\ agentRuns'[d] = agentRuns[d]
  BY DEF Inv, TypeOK, StepOf, branch, Start, FetchPrior, Decide, Finalize,
     FinalizeAckLost, FinalizeLost, InsertAgentRuns, Return, Fail, UpsertRunning,
     UpsertCompleted

\* A run starts from the PR's head, or goes on with its own; the steps that do not
\* write its row in code_reviews leave all rows.
LEMMA StepOfJob ==
  ASSUME Inv, NEW c \in Run, StepOf(c)
  PROVE  /\ Start(c) \/ job[c].pc \in Underway
         /\ Start(c) => job'[c].pc = "fetch" /\ job'[c].head = prHead
         /\ ~ Start(c) /\ job'[c].pc \in Underway => job'[c].head = job[c].head
         /\ ~ Start(c) /\ job'[c].pc \in Working => job[c].pc \in Working
         /\ \/ rows' = rows
            \/ Start(c) /\ UpsertRunning(c)
            \/ job[c].pc = "finalize" /\ UpsertCompleted(c) /\ job'[c].pc \notin Working
  <1>1. job \in [Run -> [pc : {"new", "fetch", "review", "finalize", "agent_runs",
                               "return", "done", "failed"},
                         tries : 0 .. MaxTries, head : Head \cup {None},
                         scope : SUBSET Commits, kind : Kind \cup {"none"},
                         verdict : {"NULL", "APPROVE", "BLOCKING"},
                         sessions : SUBSET (1 .. MaxTries)]]
    BY DEF Inv, TypeOK
  <1>2. CASE Start(c)
    BY <1>1, <1>2 DEF Start, IdleJob
  <1>3. CASE FetchPrior(c) \/ Decide(c)
    <2>1. job[c].pc \in {"fetch", "review"} /\ rows' = rows
      BY <1>3 DEF FetchPrior, Decide
    <2>2. CASE FetchPrior(c)
      BY <1>1, <2>1, <2>2 DEF FetchPrior, Start, MayStart, Underway, Working
    <2>3. CASE Decide(c)
      <3>1. job'[c].head = job[c].head
        BY <1>1, <2>3 DEF Decide
      <3> QED
        BY <2>1, <3>1 DEF Start, MayStart, Underway, Working
    <2> QED
      BY <1>3, <2>2, <2>3
  <1>4. CASE Finalize(c) \/ FinalizeLost(c) \/ InsertAgentRuns(c)
    <2>1. /\ job[c].pc \in {"finalize", "agent_runs"}
          /\ job'[c].pc \in {"agent_runs", "return"} /\ job'[c].head = job[c].head
      BY <1>1, <1>4 DEF Finalize, FinalizeLost, InsertAgentRuns
    <2>2. \/ rows' = rows
          \/ job[c].pc = "finalize" /\ UpsertCompleted(c)
      BY <1>4 DEF Finalize, FinalizeLost, InsertAgentRuns
    <2> QED
      BY <2>1, <2>2 DEF Start, MayStart, Underway, Working
  <1>5. CASE FinalizeAckLost(c) \/ Return(c) \/ Fail(c)
    <2>1. /\ job[c].pc \in Underway
          /\ \E pc \in {"done", "failed"} : job'[c] = Ended(job[c], pc)
      BY <1>1, <1>5 DEF FinalizeAckLost, Return, Fail, Underway, Working
    <2>2. job'[c].pc \in {"done", "failed"}
      BY <2>1, EndedJob
    <2>3. \/ rows' = rows
          \/ job[c].pc = "finalize" /\ UpsertCompleted(c)
      BY <1>5 DEF FinalizeAckLost, Return, Fail
    <2> QED
      BY <2>1, <2>2, <2>3 DEF Start, MayStart, Underway, Working
  <1> QED
    BY <1>2, <1>3, <1>4, <1>5 DEF StepOf

\* A row keeps its place; one that is new goes last.
LEMMA StepOfRow ==
  ASSUME Inv, NEW c \in Run, StepOf(c)
  PROVE  /\ rows[c].born # 0 => rows'[c].born = rows[c].born
         /\ rows[c].born = 0 /\ rows'[c].born # 0 =>
              \A d \in Run \ {c} : rows[d].born < rows'[c].born
         /\ c \in Completed' => \/ c \in Completed /\ rows'[c] = rows[c]
                                \/ /\ job[c].pc = "finalize" /\ job'[c].pc \notin Working
                                   /\ rows'[c].sha = job[c].head
  <1>1. TypeOK /\ RowsInOrder /\ JobsInOrder
    BY DEF Inv
  <1>2. CASE rows' = rows
    BY <1>2 DEF Completed
  <1>3. CASE UpsertRunning(c)
    BY <1>1, <1>3, RowRunning
  <1>4. CASE job[c].pc = "finalize" /\ UpsertCompleted(c) /\ job'[c].pc \notin Working
    <2>1. job[c].head \in Head /\ job[c].kind \in Kind
      BY <1>1, <1>4 DEF JobsInOrder, Underway, Working
    <2> QED
      BY <1>1, <1>4, <2>1, RowCompleted
  <1> QED
    BY <1>2, <1>3, <1>4, StepOfJob

\* With no overlap, no other run is active when one steps.
LEMMA StepsAlone ==
  ASSUME Inv, ~ setting.overlap, \A x, y \in Run : Active(x) /\ Active(y) => x = y,
         NEW c \in Run, StepOf(c), NEW d \in Run, d # c
  PROVE  ~ Active(d) /\ ~ Active(d)'
  <1>1. ~ Active(d)
    <2>1. CASE Start(c)
      BY <2>1 DEF Start, MayStart, Active
    <2>2. CASE job[c].pc \in Underway
      BY <2>2 DEF Active, Over, Underway, Working
    <2> QED
      BY <2>1, <2>2, StepOfJob
  <1>2. job'[d] = job[d]
    BY StepLeavesOthers
  <1> QED
    BY <1>1, <1>2 DEF Active, Over

LEMMA OneAtATimeStep ==
  ASSUME Inv, ~ setting.overlap, OneAtATime, NEW c \in Run, StepOf(c)
  PROVE  OneAtATime'
  <1>1. \A d \in Run : d # c => ~ Active(d) /\ ~ Active(d)'
    BY StepsAlone DEF OneAtATime
  <1>2. ASSUME NEW d \in Run, d # c, rows'[c].born # 0
        PROVE  rows'[d].born < rows'[c].born
    <2>1. rows'[d] = rows[d]
      BY <1>2, StepLeavesOthers
    <2>2. CASE rows[c].born = 0
      BY <1>2, <2>1, <2>2, StepOfRow
    <2>3. CASE rows[c].born # 0
      <3>1. Active(c)
        <4>1. job[c].pc # "new"
          BY <2>3 DEF Inv, JobsInOrder, NoRow
        <4>2. ~ Over(c)
          <5>1. CASE Start(c)
            <6>1. job[c].tries \in Int /\ MaxTries \in Int
              BY BoundsAssumption DEF Inv, TypeOK
            <6> QED
              BY <4>1, <5>1, <6>1, RunsAssumption DEF Start, MayStart, Over
          <5>2. CASE job[c].pc \in Underway
            BY <5>2 DEF Over, Underway, Working
          <5> QED
            BY <5>1, <5>2, StepOfJob
        <4> QED
          BY <4>1, <4>2 DEF Active
      <3> QED
        BY <1>2, <2>1, <2>3, <3>1, StepOfRow DEF OneAtATime
    <2> QED
      BY <2>2, <2>3
  <1> QED
    BY <1>1, <1>2 DEF OneAtATime

\* The heads that are under review or completed follow the branch.
LEMMA HeadsStep ==
  ASSUME Inv, Growing, OneAtATime, HeadsInOrder, NEW c \in Run, StepOf(c)
  PROVE  HeadsInOrder'
  <1>1. /\ setting' = setting /\ prHead' = prHead
        /\ \A d \in Run \ {c} : rows'[d] = rows[d] /\ job'[d] = job[d]
    BY StepLeavesOthers
  <1>2. \A g, h : IsAncestor(g, h)' = IsAncestor(g, h)
    BY <1>1 DEF IsAncestor, CommitsOf
  <1>3. \A d \in Completed' : d # c => d \in Completed /\ rows'[d] = rows[d]
    BY <1>1 DEF Completed
  <1>4. \A d \in Run : d # c => ~ Active(d) /\ ~ Active(d)'
    BY StepsAlone DEF OneAtATime, Growing
  <1>5. \A d \in Run : job'[d].pc \in Underway => d = c
    BY <1>4 DEF Active, Over, Underway, Working
  <1>6. job'[c].pc \in Underway => IsAncestor(job'[c].head, prHead)
    <2>1. Start(c) => job'[c].head = prHead
      BY StepOfJob
    <2>2. ~ Start(c) /\ job'[c].pc \in Underway =>
            job'[c].head = job[c].head /\ job[c].pc \in Underway
      BY StepOfJob
    <2> QED
      BY <2>1, <2>2 DEF HeadsInOrder, IsAncestor
  <1>7. \A d \in Completed : d # c /\ job'[c].pc \in Working =>
          IsAncestor(rows[d].sha, job'[c].head)
    <2>1. Start(c) => job'[c].head = prHead
      BY StepOfJob
    <2>2. ~ Start(c) /\ job'[c].pc \in Working =>
            job'[c].head = job[c].head /\ job[c].pc \in Working
      BY StepOfJob DEF Underway
    <2> QED
      BY <2>1, <2>2 DEF HeadsInOrder
  <1>8. CASE c \in Completed' => c \in Completed /\ rows'[c] = rows[c]
    <2>1. \A d \in Completed' : d \in Completed /\ rows'[d] = rows[d]
      BY <1>3, <1>8
    <2> QED
      BY <1>1, <1>2, <1>5, <1>6, <1>7, <2>1 DEF HeadsInOrder, Underway, Completed
  <1>9. CASE /\ c \in Completed' /\ job[c].pc = "finalize" /\ job'[c].pc \notin Working
             /\ rows'[c].sha = job[c].head
    <2>1. /\ IsAncestor(rows'[c].sha, prHead)
          /\ \A d \in Completed : d # c => IsAncestor(rows[d].sha, rows'[c].sha)
      BY <1>9 DEF HeadsInOrder, Underway, Working
    <2>2. \A d \in Run : d # c => rows'[d].born < rows'[c].born
      <3>1. OneAtATime'
        BY OneAtATimeStep DEF Growing
      <3>2. rows'[c].born # 0
        <4>1. TypeOK' /\ rows'[c].verdict # "NULL"
          BY <1>9, TypeStep DEF Completed, Next, StepOf
        <4> QED
          BY <4>1 DEF TypeOK, Row, NoRow
      <3>3. CASE rows[c].born = 0
        BY <1>1, <3>2, <3>3, StepOfRow
      <3>4. CASE rows[c].born # 0
        <4>1. Active(c)
          BY <1>9 DEF Active, Over
        <4> QED
          BY <1>1, <3>4, <4>1, StepOfRow DEF OneAtATime
      <3> QED
        BY <3>3, <3>4
    <2>3. \A d \in Run : d # c => ~ (rows'[c].born < rows'[d].born)
      <3>1. \A d \in Run : rows'[d].born \in Int
        BY TypeStep DEF TypeOK, Row, NoRow, Next, StepOf
      <3> QED
        BY <2>2, <3>1
    <2>4. ~ (rows'[c].born < rows'[c].born)
      BY TypeStep DEF TypeOK, Row, NoRow, Next, StepOf
    <2>5. \A d \in Completed' : d \in Run
      BY DEF Completed
    <2>6. \A d \in Completed' : IsAncestor(rows'[d].sha, prHead)
      BY <1>3, <2>1 DEF HeadsInOrder
    <2>7. \A d, e \in Completed' : rows'[d].born < rows'[e].born =>
            IsAncestor(rows'[d].sha, rows'[e].sha)
      BY <1>3, <2>1, <2>3, <2>4, <2>5 DEF HeadsInOrder
    <2>8. \A d \in Run : job'[d].pc \notin Working
      BY <1>5, <1>9 DEF Underway
    <2> QED
      BY <1>1, <1>2, <1>5, <1>6, <2>6, <2>7, <2>8 DEF HeadsInOrder
  <1> QED
    BY <1>8, <1>9, StepOfRow

LEMMA SerialStep == ASSUME Inv, Serial, [Next]_vars
                    PROVE  Serial'
  <1>1. setting' = setting
    BY StepLeavesOthers DEF Next, StepOf, Push, vars, branch
  <1>2. Growing' = Growing
    BY <1>1 DEF Growing, IsAncestor, CommitsOf
  <1>3. SUFFICES ASSUME Growing
                 PROVE  OneAtATime' /\ HeadsInOrder'
    BY <1>2 DEF Serial
  <1>4. OneAtATime /\ HeadsInOrder
    BY <1>3 DEF Serial
  <1>5. ASSUME NEW c \in Run, StepOf(c)
        PROVE  OneAtATime' /\ HeadsInOrder'
    BY <1>3, <1>4, <1>5, OneAtATimeStep, HeadsStep DEF Growing
  <1>6. CASE UNCHANGED <<rows, job>> /\ (prHead' = prHead \/ Push)
    <2>1. IsAncestor(prHead, prHead')
      BY <1>3, <1>6 DEF Push, Growing, IsAncestor, Inv, TypeOK
    <2>2. \A h : IsAncestor(h, prHead) => IsAncestor(h, prHead')
      BY <2>1 DEF IsAncestor
    <2>3. \A g, h : IsAncestor(g, h)' = IsAncestor(g', h')
      BY <1>1 DEF IsAncestor, CommitsOf
    <2>4. Completed' = Completed /\ \A c : Active(c)' = Active(c)
      BY <1>6 DEF Completed, Active, Over
    <2>5. OneAtATime'
      BY <1>4, <1>6, <2>4 DEF OneAtATime
    <2>6. HeadsInOrder'
      BY <1>1, <1>4, <1>6, <2>2, <2>4 DEF HeadsInOrder, IsAncestor, CommitsOf
    <2> QED
      BY <2>5, <2>6
  <1> QED
    BY <1>5, <1>6 DEF Next, StepOf, Push, vars, branch

-----------------------------------------------------------------------------
(* Withdrawn verdicts, and the sessions of one attempt *)

LEMMA WithdrawnStep == ASSUME Inv, Withdrawn, [Next]_vars
                       PROVE  Withdrawn'
  <1>1. ASSUME ~ setting.upsertFails, NEW c \in Run, StepOf(c)
        PROVE  Withdrawn'
    <2>1. /\ setting' = setting
          /\ \A d \in Run \ {c} : rows'[d] = rows[d] /\ job'[d] = job[d]
      BY <1>1, StepLeavesOthers
    <2>2. job'[c].pc \in Working => rows'[c].verdict = "NULL"
      <3>1. CASE Start(c) /\ UpsertRunning(c)
        BY <3>1, RowRunning DEF Inv
      <3>2. CASE Start(c) /\ c \in Local
        <4>1. rows'[c] = NoRow
          BY <1>1, <3>2, RunsAssumption DEF Inv, JobsInOrder, Start, MayStart
        <4> QED
          BY <4>1 DEF NoRow
      <3>3. CASE ~ Start(c) /\ job'[c].pc \in Working
        BY <1>1, <3>3, StepOfJob DEF Withdrawn
      <3> QED
        BY <1>1, <3>1, <3>2, <3>3 DEF Start
    <2> QED
      BY <1>1, <2>1, <2>2 DEF Withdrawn
  <1>2. CASE UNCHANGED <<setting, rows, job>>
    BY <1>2 DEF Withdrawn
  <1>3. setting' = setting
    BY StepLeavesOthers DEF Next, StepOf, Push, vars, branch
  <1> QED
    BY <1>1, <1>2, <1>3 DEF Next, StepOf, Push, vars, branch, Withdrawn

\* A halt that is stored leaves the completed rows as they were, and the latest of
\* them is the same, for no two rows are of the same age.
LEMMA HaltStep == ASSUME Inv, Withdrawn, [Next]_vars, ~ setting.upsertFails,
                         NEW c \in Run, rows'[c] # rows[c], rows'[c].kind = "halt"
                  PROVE  /\ LatestCompleted'.sha = LatestCompleted.sha
                         /\ Cardinality(Completed') = Cardinality(Completed)
  <1>1. PICK d \in Run : StepOf(d)
    BY DEF Next, StepOf, Push, vars, branch
  <1>2. d = c /\ \A e \in Run \ {c} : rows'[e] = rows[e]
    BY <1>1, StepLeavesOthers
  <1>3. job[c].pc = "finalize" /\ UpsertCompleted(c)
    <2>1. CASE UpsertRunning(c)
      BY <2>1, RowRunning DEF Inv
    <2> QED
      BY <1>1, <1>2, <2>1, StepOfJob
  <1>4. job[c].verdict = "NULL" /\ Completed' = Completed \ {c}
    <2>1. /\ job[c].head \in Head /\ job[c].kind \in Kind
          /\ job[c].kind = "halt" <=> job[c].verdict = "NULL"
      BY <1>3 DEF Inv, JobsInOrder, Underway, Working
    <2> QED
      BY <1>3, <2>1, RowCompleted DEF Inv
  <1>5. Completed' = Completed /\ \A e \in Completed : rows'[e] = rows[e]
    BY <1>2, <1>3, <1>4 DEF Withdrawn, Working, Completed
  <1>6. CASE Completed = {}
    BY <1>5, <1>6 DEF LatestCompleted
  <1>7. CASE Completed # {}
    <2> DEFINE last == CHOOSE e \in Completed' :
                         \A f \in Completed' : rows'[f].born <= rows'[e].born
    <2>1. PICK e \in Completed : /\ LatestCompleted = rows[e]
                                 /\ \A f \in Completed : rows[f].born <= rows[e].born
      BY <1>7, LatestIsCompleted DEF Inv
    <2>2. \A f \in Completed' : rows'[f].born <= rows'[e].born
      BY <1>5, <2>1
    <2>3. /\ last \in Completed'
          /\ \A f \in Completed' : rows'[f].born <= rows'[last].born
      BY <1>5, <2>1, <2>2
    <2>4. LatestCompleted' = rows'[last]
      BY <1>5, <1>7 DEF LatestCompleted
    <2> HIDE DEF last
    <2>5. rows[e].born <= rows[last].born /\ rows[last].born <= rows[e].born
      BY <1>5, <2>1, <2>3
    <2>6. rows[e] \in Row /\ rows[last] \in Row
      BY <1>5, <2>1, <2>3 DEF Inv, TypeOK, Completed, NoRow
    <2>7. rows[e].born = rows[last].born /\ rows[e].born # 0
      BY <2>5, <2>6 DEF Row
    <2>8. e = last
      BY <1>5, <2>1, <2>3, <2>7 DEF Inv, RowsInOrder, Completed
    <2> QED
      BY <1>5, <2>1, <2>3, <2>4, <2>8
  <1> QED
    BY <1>5, <1>6, <1>7

LEMMA OwnSessionsStep == ASSUME Inv, OwnSessions, [Next]_vars
                         PROVE  OwnSessions'
  <1> DEFINE Own(c) ==
               /\ job[c].sessions \subseteq 1 .. job[c].tries
               /\ job[c].pc \in Underway => job[c].sessions \subseteq MayHold(c)
               /\ \A t \in 1 .. MaxTries :
                    /\ agentRuns[c][t] <= AttemptsHolding(c, t)
                    /\ job[c].pc \in Working \cup {"agent_runs"} /\ t \in MayHold(c)
                         => agentRuns[c][t] < AttemptsHolding(c, t)
  <1>1. SUFFICES ASSUME NEW d \in Run
                 PROVE  Own(d)'
    BY DEF OwnSessions
  <1>2. \A c \in Run : Own(c)
    BY DEF OwnSessions
  <1>3. ASSUME job'[d] = job[d], agentRuns'[d] = agentRuns[d]
        PROVE  Own(d)'
    BY <1>2, <1>3 DEF MayHold, AttemptsHolding
  <1>4. /\ job \in [Run -> [pc : {"new", "fetch", "review", "finalize", "agent_runs",
                                  "return", "done", "failed"},
                            tries : 0 .. MaxTries, head : Head \cup {None},
                            scope : SUBSET Commits, kind : Kind \cup {"none"},
                            verdict : {"NULL", "APPROVE", "BLOCKING"},
                            sessions : SUBSET (1 .. MaxTries)]]
        /\ agentRuns \in [Run -> [1 .. MaxTries -> 0 .. MaxTries]]
        /\ job[d].tries \in Nat /\ \A t \in 1 .. MaxTries : agentRuns[d][t] \in Nat
    BY BoundsAssumption DEF Inv, TypeOK
  <1>5. CASE Start(d)
    <2>1. /\ job'[d].pc = "fetch" /\ job'[d].tries = job[d].tries + 1
          /\ job'[d].sessions = SessionsAtStart(d) /\ agentRuns' = agentRuns
      BY <1>4, <1>5 DEF Start, IdleJob
    <2>2. /\ job'[d].sessions \subseteq 1 .. job'[d].tries
          /\ job'[d].sessions \subseteq MayHold(d)'
      BY <1>2, <1>4, <2>1 DEF SessionsAtStart, MayHold
    <2>3. ASSUME NEW t \in 1 .. MaxTries
          PROVE  /\ agentRuns'[d][t] <= AttemptsHolding(d, t)'
                 /\ t \in MayHold(d)' => agentRuns'[d][t] < AttemptsHolding(d, t)'
      <3>1. agentRuns[d][t] <= AttemptsHolding(d, t) /\ agentRuns[d][t] \in Nat
        BY <1>2, <1>4
      <3>2. t \in Nat \ {0}
        BY BoundsAssumption
      <3> QED
        BY <1>4, <2>1, <3>1, <3>2 DEF AttemptsHolding, MayHold
    <2> QED
      BY <2>2, <2>3
  <1>6. CASE FetchPrior(d) \/ Finalize(d) \/ FinalizeLost(d)
    <2>1. /\ job[d].pc \in Working
          /\ job'[d].tries = job[d].tries /\ job'[d].sessions = job[d].sessions
          /\ agentRuns' = agentRuns
      BY <1>4, <1>6 DEF FetchPrior, Finalize, FinalizeLost, Working
    <2> QED
      BY <1>2, <2>1 DEF Underway, MayHold, AttemptsHolding
  <1>7. CASE Decide(d)
    <2>1. /\ job[d].pc \in Working
          /\ job'[d].tries = job[d].tries /\ agentRuns' = agentRuns
      BY <1>4, <1>7 DEF Decide, Working
    <2>2. job'[d].sessions \subseteq job[d].sessions \cup {job[d].tries}
      BY <1>4, <1>7 DEF Decide
    <2>3. job[d].tries > 0
      BY <2>1 DEF Inv, JobsInOrder, Working
    <2>4. job'[d].sessions \subseteq 1 .. job[d].tries /\ job'[d].sessions \subseteq MayHold(d)
      BY <1>2, <1>4, <2>1, <2>2, <2>3 DEF Underway, MayHold
    <2> QED
      BY <1>2, <2>1, <2>4 DEF Underway, MayHold, AttemptsHolding
  <1>8. CASE FinalizeAckLost(d) \/ Return(d) \/ Fail(d)
    <2>1. /\ agentRuns' = agentRuns
          /\ \E pc \in {"done", "failed"} : job'[d] = Ended(job[d], pc)
      BY <1>4, <1>8 DEF FinalizeAckLost, Return, Fail
    <2>2. job'[d].pc \in {"done", "failed"} /\ job'[d].tries = job[d].tries
      BY <2>1, EndedJob
    <2>3. job'[d].sessions = job[d].sessions
      BY <2>1, EndedJob
    <2> QED
      BY <1>2, <2>1, <2>2, <2>3 DEF Underway, Working, AttemptsHolding
  <1>9. CASE InsertAgentRuns(d)
    <2> DEFINE counted == [t \in 1 .. MaxTries |->
                 IF t \in job[d].sessions THEN agentRuns[d][t] + 1 ELSE agentRuns[d][t]]
    <2>1. job[d].pc = "agent_runs" /\ job[d].sessions \subseteq MayHold(d)
      BY <1>2, <1>9 DEF InsertAgentRuns, Underway
    <2>2. ASSUME NEW t \in 1 .. MaxTries
          PROVE  counted[t] <= AttemptsHolding(d, t)
      <3>1. /\ agentRuns[d][t] <= AttemptsHolding(d, t)
            /\ t \in MayHold(d) => agentRuns[d][t] < AttemptsHolding(d, t)
            /\ agentRuns[d][t] \in Nat /\ t \in Nat
        BY <1>2, <1>4, <2>1, BoundsAssumption
      <3>2. AttemptsHolding(d, t) \in Int
        BY <1>4, <3>1 DEF AttemptsHolding
      <3> QED
        BY <2>1, <3>1, <3>2
    <2>3. agentRuns'[d] \in {agentRuns[d], counted}
      BY <1>4, <1>9 DEF InsertAgentRuns
    <2> HIDE DEF counted
    <2>4. job'[d].pc = "return" /\ job'[d].tries = job[d].tries
          /\ job'[d].sessions = job[d].sessions
      BY <1>4, <1>9 DEF InsertAgentRuns
    <2> QED
      BY <1>2, <2>1, <2>2, <2>3, <2>4 DEF Working, MayHold, AttemptsHolding
  <1> HIDE DEF Own
  <1>10. CASE \E c \in Run \ {d} : StepOf(c)
    BY <1>3, <1>10, StepLeavesOthers
  <1>11. CASE UNCHANGED <<job, agentRuns>>
    BY <1>3, <1>11
  <1> QED
    BY <1>5, <1>6, <1>7, <1>8, <1>9, <1>10, <1>11 DEF Next, StepOf, Push, vars

-----------------------------------------------------------------------------
(* Theorems *)

\* Rows and processes keep their shape.
THEOREM TypeCorrect == Spec => []TypeOK
  BY InvHolds, PTL DEF Inv

\* A round reads what came after the last completed one, and still every commit
\* of an approved head was in the diff of a round that was not halted.
THEOREM ApprovedWasRead == Spec => []ChainUnbroken
  <1>1. Inv => ChainUnbroken
    BY DEF Inv, Chained, ChainUnbroken, Approved, Completed, Unhalted
  <1> QED
    BY InvHolds, <1>1, PTL

\* The latest completed round is of the newest head, when rounds do not overlap
\* and the branch only grows: what a CI gate reads is not a verdict overtaken.
THEOREM LatestIsNewest == Spec => []LatestIsOfNewestHead
  <1>1. Init => Serial
    BY DEF Init, Serial, OneAtATime, HeadsInOrder, Active, Completed, NoRow, IdleJob,
       Underway, Working
  <1>2. Inv /\ Serial => LatestIsOfNewestHead
    <2> SUFFICES ASSUME Inv, Serial, Growing, NEW c \in Completed,
                        IsAncestor(LatestCompleted.sha, rows[c].sha)
                 PROVE  LatestCompleted.sha = rows[c].sha
      BY DEF LatestIsOfNewestHead, Growing
    <2>1. PICK d \in Completed : /\ LatestCompleted = rows[d]
                                 /\ rows[c].born <= rows[d].born
      BY LatestIsCompleted DEF Inv
    <2>2. /\ rows[c] \in Row /\ rows[d] \in Row
          /\ rows[c].sha \in Head /\ rows[d].sha \in Head
      BY DEF Inv, TypeOK, Completed, RowsInOrder, NoRow
    <2>3. CASE c = d
      BY <2>1, <2>3
    <2>4. CASE rows[c].born < rows[d].born
      <3>1. IsAncestor(rows[c].sha, rows[d].sha)
        BY <2>4 DEF Serial, HeadsInOrder
      <3>2. CommitsOf[rows[c].sha] = CommitsOf[rows[d].sha]
        BY <2>1, <3>1 DEF IsAncestor
      <3> QED
        BY <2>1, <2>2, <3>2, SettingsAssumption DEF Inv, TypeOK, CommitsOf
    <2>5. rows[c].born = rows[d].born => c = d
      BY <2>2 DEF Inv, RowsInOrder, Row, Completed
    <2> QED
      BY <2>1, <2>2, <2>3, <2>4, <2>5 DEF Row
  <1> QED
    BY <1>1, <1>2, InvHolds, SerialStep, PTL DEF Spec

\* A halt moves neither the last reviewed head nor the round count, so long as no
\* running upsert is lost.
THEOREM HaltsMoveNothing == Spec => HaltMovesNothing
  <1>1. Init => Withdrawn
    BY DEF Init, Withdrawn, IdleJob, Working
  <1>2. Spec => []Withdrawn
    BY <1>1, InvHolds, WithdrawnStep, PTL DEF Spec
  <1>3. Inv /\ Withdrawn /\ [Next]_vars =>
          [~ setting.upsertFails => \A c \in Run :
             rows'[c] # rows[c] /\ rows'[c].kind = "halt" =>
               /\ LatestCompleted'.sha = LatestCompleted.sha
               /\ Cardinality(Completed') = Cardinality(Completed)]_vars
    BY HaltStep
  <1> QED
    BY <1>2, <1>3, InvHolds, PTL DEF Spec, HaltMovesNothing

\* Over crashes, lost answers and retries, with either checkpointer, a session is
\* in agent_runs no oftener than attempts held it in their channel.
THEOREM StoredOnce == Spec => []StoredOncePerAttempt
  <1>1. Init => OwnSessions
    BY BoundsAssumption DEF Init, OwnSessions, IdleJob, Underway, Working, AttemptsHolding
  <1>2. OwnSessions => StoredOncePerAttempt
    BY DEF OwnSessions, StoredOncePerAttempt
  <1> QED
    BY <1>1, <1>2, InvHolds, OwnSessionsStep, PTL DEF Spec

=============================================================================
