-------------------------- MODULE GitHubClientProofs -----------------------
(***************************************************************************)
(* Any number of runs, commits, files and comments, pages of any size and  *)
(* any movement of the head: a success is never set on a commit that was   *)
(* not reviewed and approved, the bench configuration guard sees the whole *)
(* list of files or fails closed, and there is one comment of Argus.       *)
(***************************************************************************)
EXTENDS GitHubClient, SequenceTheorems, FiniteSetTheorems, TLAPS

\* The part of the state the status depends on keeps its shape.
Shapes ==
  /\ prHead \in Commit
  /\ place \in [Run -> {"idle", "compare", "list", "judge", "post", "find", "update",
                        "create", "status", "exited"}]
  /\ head \in [Run -> Commit \cup {None}]
  /\ verdict \in [Run -> {"none", "APPROVE", "BLOCKING"}]
  /\ status \in [Commit -> [state : {"none", "success", "failure"},
                            by : Run \cup {None}]]

\* A run has its head from the pin on, no verdict before it judged and no status
\* before that, and an approval only with a scope.
Judging ==
  \A r \in Run :
    /\ place[r] # "idle" => head[r] \in Commit
    /\ verdict[r] = "APPROVE" => r \in scoped
    /\ place[r] \in {"idle", "compare", "list", "judge"} =>
         verdict[r] = "none" /\ \A h \in Commit : status[h].by # r

Inv == Shapes /\ Judging /\ ApprovalIsReviewed

\* None is neither a commit nor a run.
LEMMA NoneIsNoRun == None \notin Commit \cup Run
  BY ClientAssumption

\* What setting a status does: nothing, or one commit has it from this run.
LEMMA StatusSet ==
  ASSUME NEW r \in Run, SetStatus(r), Shapes, Judging
  PROVE  /\ place[r] = "status" /\ place' = [place EXCEPT ![r] = "exited"]
         /\ UNCHANGED <<prHead, head, verdict, scoped>>
         /\ \/ UNCHANGED status
            \/ \E h \in Commit, s \in {"success", "failure"} :
                 status' = [status EXCEPT ![h] = [state |-> s, by |-> r]]
  <1>1. StatusSha(r) \in Commit
    BY DEF StatusSha, SetStatus, Shapes, Judging
  <1>2. (IF verdict[r] = "APPROVE" THEN "success" ELSE "failure")
          \in {"success", "failure"}
    OBVIOUS
  <1> QED
    BY <1>1, <1>2 DEF SetStatus, Exit, Goto, reading, said

\* Every action keeps the shapes.
LEMMA ShapesStep == Inv /\ [Next]_vars => Shapes'
  <1> SUFFICES ASSUME Inv, [Next]_vars PROVE Shapes'
    OBVIOUS
  <1> USE NoneIsNoRun DEF Inv
  <1>1. ASSUME NEW r \in Run, Pin(r) PROVE Shapes'
    BY <1>1 DEF Pin, Shapes, Judging, github, said, seen, Goto
  <1>2. ASSUME NEW r \in Run, CompareFiles(r) PROVE Shapes'
    BY <1>2 DEF CompareFiles, Shapes, Judging, github, said, seen, Goto
  <1>3. ASSUME NEW r \in Run, CompareFails(r) PROVE Shapes'
    BY <1>3 DEF CompareFails, Shapes, Judging, github, said, seen, Goto
  <1>4. ASSUME NEW r \in Run, ListPage(r) PROVE Shapes'
    BY <1>4 DEF ListPage, Shapes, Judging, github, said, seen, Goto
  <1>5. ASSUME NEW r \in Run, ListFails(r) PROVE Shapes'
    BY <1>5 DEF ListFails, Shapes, Judging, github, said, seen, Goto
  <1>6. ASSUME NEW r \in Run, Judge(r) PROVE Shapes'
    BY <1>6 DEF Judge, Shapes, Judging, github, seen, Goto
  <1>7. ASSUME NEW r \in Run, ForWrites(r) PROVE Shapes'
    BY <1>7 DEF ForWrites, Shapes, Judging, github, said, Goto, Exit
  <1>8. ASSUME NEW r \in Run, FindPage(r) PROVE Shapes'
    BY <1>8 DEF FindPage, Shapes, Judging, github, seen, Goto
  <1>9. ASSUME NEW r \in Run, UpdateComment(r) PROVE Shapes'
    BY <1>9 DEF UpdateComment, Shapes, Judging, reading, AfterPost, Goto, Exit
  <1>10. ASSUME NEW r \in Run, CreateComment(r) PROVE Shapes'
    BY <1>10 DEF CreateComment, Shapes, Judging, reading, said, AfterPost,
           Goto, Exit
  <1>11. ASSUME NEW r \in Run, SetStatus(r) PROVE Shapes'
    <2>1. /\ place[r] = "status" /\ place' = [place EXCEPT ![r] = "exited"]
          /\ UNCHANGED <<prHead, head, verdict, scoped>>
      BY <1>11, StatusSet
    <2>2. CASE UNCHANGED status
      BY <2>1, <2>2 DEF Shapes, Judging
    <2>3. ASSUME NEW h \in Commit, NEW s \in {"success", "failure"},
                 status' = [status EXCEPT ![h] = [state |-> s, by |-> r]]
          PROVE  Shapes'
      BY <2>1, <2>3 DEF Shapes, Judging
    <2> QED
      BY <1>11, <2>2, <2>3, StatusSet
  <1>12. ASSUME NEW h \in Commit, Push(h) PROVE Shapes'
    BY <1>12 DEF Push, Shapes, Judging, reading, said
  <1>13. CASE OthersComment
    BY <1>13 DEF OthersComment, Shapes, Judging, reading, said, seen
  <1>14. ASSUME NEW i \in DOMAIN comments, OthersDelete(i) PROVE Shapes'
    BY <1>14 DEF OthersDelete, Shapes, Judging, reading, said
  <1>15. CASE UNCHANGED vars
    BY <1>15 DEF vars, github, reading, said, Shapes, Judging
  <1> QED
    BY <1>1, <1>2, <1>3, <1>4, <1>5, <1>6, <1>7, <1>8, <1>9, <1>10, <1>11,
       <1>12, <1>13, <1>14, <1>15 DEF Next

\* Every action keeps heads, verdicts and statuses in their order.
LEMMA JudgingStep == Inv /\ [Next]_vars => Judging'
  <1> SUFFICES ASSUME Inv, [Next]_vars PROVE Judging'
    OBVIOUS
  <1> USE NoneIsNoRun DEF Inv
  <1>1. ASSUME NEW r \in Run, Pin(r) PROVE Judging'
    BY <1>1 DEF Pin, Shapes, Judging, github, said, seen, Goto
  <1>2. ASSUME NEW r \in Run, CompareFiles(r) PROVE Judging'
    BY <1>2 DEF CompareFiles, Shapes, Judging, github, said, seen, Goto
  <1>3. ASSUME NEW r \in Run, CompareFails(r) PROVE Judging'
    BY <1>3 DEF CompareFails, Shapes, Judging, github, said, seen, Goto
  <1>4. ASSUME NEW r \in Run, ListPage(r) PROVE Judging'
    BY <1>4 DEF ListPage, Shapes, Judging, github, said, seen, Goto
  <1>5. ASSUME NEW r \in Run, ListFails(r) PROVE Judging'
    BY <1>5 DEF ListFails, Shapes, Judging, github, said, seen, Goto
  <1>6. ASSUME NEW r \in Run, Judge(r) PROVE Judging'
    BY <1>6 DEF Judge, Shapes, Judging, github, seen, Goto
  <1>7. ASSUME NEW r \in Run, ForWrites(r) PROVE Judging'
    BY <1>7 DEF ForWrites, Shapes, Judging, github, said, Goto, Exit
  <1>8. ASSUME NEW r \in Run, FindPage(r) PROVE Judging'
    BY <1>8 DEF FindPage, Shapes, Judging, github, seen, Goto
  <1>9. ASSUME NEW r \in Run, UpdateComment(r) PROVE Judging'
    BY <1>9 DEF UpdateComment, Shapes, Judging, reading, AfterPost, Goto, Exit
  <1>10. ASSUME NEW r \in Run, CreateComment(r) PROVE Judging'
    BY <1>10 DEF CreateComment, Shapes, Judging, reading, said, AfterPost,
           Goto, Exit
  <1>11. ASSUME NEW r \in Run, SetStatus(r) PROVE Judging'
    <2>1. /\ place[r] = "status" /\ place' = [place EXCEPT ![r] = "exited"]
          /\ UNCHANGED <<prHead, head, verdict, scoped>>
      BY <1>11, StatusSet
    <2>2. CASE UNCHANGED status
      BY <2>1, <2>2 DEF Shapes, Judging
    <2>3. ASSUME NEW h \in Commit, NEW s \in {"success", "failure"},
                 status' = [status EXCEPT ![h] = [state |-> s, by |-> r]]
          PROVE  Judging'
      BY <2>1, <2>3 DEF Shapes, Judging
    <2> QED
      BY <1>11, <2>2, <2>3, StatusSet
  <1>12. ASSUME NEW h \in Commit, Push(h) PROVE Judging'
    BY <1>12 DEF Push, Shapes, Judging, reading, said
  <1>13. CASE OthersComment
    BY <1>13 DEF OthersComment, Shapes, Judging, reading, said, seen
  <1>14. ASSUME NEW i \in DOMAIN comments, OthersDelete(i) PROVE Judging'
    BY <1>14 DEF OthersDelete, Shapes, Judging, reading, said
  <1>15. CASE UNCHANGED vars
    BY <1>15 DEF vars, github, reading, said, Shapes, Judging
  <1> QED
    BY <1>1, <1>2, <1>3, <1>4, <1>5, <1>6, <1>7, <1>8, <1>9, <1>10, <1>11,
       <1>12, <1>13, <1>14, <1>15 DEF Next

\* A status that is a success has its head and its verdict for good.
LEMMA ApprovalStep == Inv /\ [Next]_vars => ApprovalIsReviewed'
  <1> SUFFICES ASSUME Inv, [Next]_vars PROVE ApprovalIsReviewed'
    OBVIOUS
  <1> USE NoneIsNoRun DEF Inv
  <1>1. ASSUME NEW r \in Run, Pin(r) PROVE ApprovalIsReviewed'
    BY <1>1 DEF Pin, Shapes, Judging, ApprovalIsReviewed, github, said, seen,
           Goto
  <1>2. ASSUME NEW r \in Run, CompareFiles(r) PROVE ApprovalIsReviewed'
    BY <1>2 DEF CompareFiles, Shapes, Judging, ApprovalIsReviewed, github,
           said, seen, Goto
  <1>3. ASSUME NEW r \in Run, CompareFails(r) PROVE ApprovalIsReviewed'
    BY <1>3 DEF CompareFails, Shapes, Judging, ApprovalIsReviewed, github,
           said, seen, Goto
  <1>4. ASSUME NEW r \in Run, ListPage(r) PROVE ApprovalIsReviewed'
    BY <1>4 DEF ListPage, Shapes, Judging, ApprovalIsReviewed, github, said,
           seen, Goto
  <1>5. ASSUME NEW r \in Run, ListFails(r) PROVE ApprovalIsReviewed'
    BY <1>5 DEF ListFails, Shapes, Judging, ApprovalIsReviewed, github, said,
           seen, Goto
  <1>6. ASSUME NEW r \in Run, Judge(r) PROVE ApprovalIsReviewed'
    BY <1>6 DEF Judge, Shapes, Judging, ApprovalIsReviewed, github, seen, Goto
  <1>7. ASSUME NEW r \in Run, ForWrites(r) PROVE ApprovalIsReviewed'
    BY <1>7 DEF ForWrites, Shapes, Judging, ApprovalIsReviewed, github, said,
           Goto, Exit
  <1>8. ASSUME NEW r \in Run, FindPage(r) PROVE ApprovalIsReviewed'
    BY <1>8 DEF FindPage, Shapes, Judging, ApprovalIsReviewed, github, seen,
           Goto
  <1>9. ASSUME NEW r \in Run, UpdateComment(r) PROVE ApprovalIsReviewed'
    BY <1>9 DEF UpdateComment, Shapes, Judging, ApprovalIsReviewed, reading,
           AfterPost, Goto, Exit
  <1>10. ASSUME NEW r \in Run, CreateComment(r) PROVE ApprovalIsReviewed'
    BY <1>10 DEF CreateComment, Shapes, Judging, ApprovalIsReviewed, reading,
           said, AfterPost, Goto, Exit
  <1>11. ASSUME NEW r \in Run, SetStatus(r) PROVE ApprovalIsReviewed'
    BY <1>11 DEF SetStatus, Shapes, Judging, ApprovalIsReviewed, reading,
           said, seen, Exit, StatusSha, Goto
  <1>12. ASSUME NEW h \in Commit, Push(h) PROVE ApprovalIsReviewed'
    BY <1>12 DEF Push, Shapes, Judging, ApprovalIsReviewed, reading, said
  <1>13. CASE OthersComment
    BY <1>13 DEF OthersComment, Shapes, Judging, ApprovalIsReviewed, reading,
           said, seen
  <1>14. ASSUME NEW i \in DOMAIN comments, OthersDelete(i) PROVE ApprovalIsReviewed'
    BY <1>14 DEF OthersDelete, Shapes, Judging, ApprovalIsReviewed, reading,
           said
  <1>15. CASE UNCHANGED vars
    BY <1>15 DEF vars, github, reading, said, Shapes, Judging,
           ApprovalIsReviewed
  <1> QED
    BY <1>1, <1>2, <1>3, <1>4, <1>5, <1>6, <1>7, <1>8, <1>9, <1>10, <1>11,
       <1>12, <1>13, <1>14, <1>15 DEF Next

-----------------------------------------------------------------------------
\* Every reachable state satisfies the invariant.
THEOREM InvHolds == Spec => []Inv
  <1>1. Init => Inv
    BY ClientAssumption DEF Init, Inv, Shapes, Judging, ApprovalIsReviewed
  <1>2. Inv /\ [Next]_vars => Inv'
    BY ShapesStep, JudgingStep, ApprovalStep DEF Inv
  <1> QED
    BY <1>1, <1>2, PTL DEF Spec

\* cli.py, "a re-read head could approve an unreviewed commit": wherever the head
\* of the pull request is when the status is set, a success is on the head its
\* run reviewed and approved.
THEOREM ApprovalsAreReviewed == Spec => []ApprovalIsReviewed
  <1>1. Inv => ApprovalIsReviewed
    BY DEF Inv
  <1> QED
    BY <1>1, InvHolds, PTL

-----------------------------------------------------------------------------
(* The lists a run reads, and its search for the comment: the invariant *)

\* The lists a run reads, the ids of the comments, and how runs exit keep their
\* shape too; a compare call that failed twice is not repeated.
ListShapes ==
  /\ got \in [Run -> Seq(File)] /\ page \in [Run -> Nat] /\ tries \in [Run -> 0 .. 2]
  /\ \A r \in Run :
       /\ place[r] = "idle" => got[r] = <<>> /\ tries[r] = 0
       /\ place[r] = "compare" => tries[r] < 2
       /\ place[r] \in {"list", "find"} => page[r] > 0
  /\ unconfirmed \cup scoped \cup moved \subseteq Run
  /\ exit \in [Run -> {"none", "ok", "failed"}]

\* The pages before the n-th.
Before(n) == (n - 1) * PerPage

\* What a run has of the list of the head it pinned, while the head stays: a
\* beginning, the pages before the one it reads next, and in the end the whole
\* list, or it is unconfirmed; a head it approves has no bench configuration.
Listed(r) ==
  LET changed == ChangedOf[head[r]] IN
  /\ place[r] \in {"compare", "list"} => head[r] = prHead
  /\ \E n \in 0 .. Len(changed) : got[r] = SubSeq(changed, 1, n)
  /\ place[r] = "list" /\ page[r] # 1 =>
       /\ Before(page[r]) <= Len(changed) /\ Before(page[r]) < MaxFiles
       /\ got[r] = SubSeq(changed, 1, Before(page[r]))
  /\ place[r] = "judge" => r \in unconfirmed \/ got[r] = changed
  /\ verdict[r] = "APPROVE" => Elems(changed) \cap Bench = {}

Lists == \A r \in Run \ moved : place[r] # "idle" => Listed(r)

\* The comments have ids of their own, given out in order.
CommentShapes ==
  /\ nextId \in Nat \ {0} /\ raced \in BOOLEAN /\ DOMAIN target = Run
  /\ comments \in Seq([id : Nat, by : Run \cup {None}])
  /\ \A i \in DOMAIN comments : comments[i].id < nextId
  /\ \A i, j \in DOMAIN comments : comments[i].id = comments[j].id => i = j

Posting == {"find", "create", "update"}
OfArgus == { i \in DOMAIN comments : comments[i].by # None }

\* A run between its search and its write is alone; it has not passed over the
\* comment of Argus, creates one when there is none, and updates the one there is.
Looked ==
  /\ \A r, q \in Run : place[r] \in Posting /\ place[q] \in Posting => r = q
  /\ \A i, j \in OfArgus : i = j
  /\ \A r \in Run :
       /\ place[r] = "find" => \A i \in OfArgus : i > Before(page[r])
       /\ place[r] = "create" => OfArgus = {}
       /\ place[r] = "update" => \E i \in OfArgus : comments[i].id = target[r]

Writes == CommentShapes /\ (~raced => Looked)

-----------------------------------------------------------------------------
(* Pages and beginnings of a list *)

\* (n - 1) pages and one more are n pages.
LEMMA PageArithmetic ==
  ASSUME NEW n \in Nat \ {0}
  PROVE  /\ Before(n) \in Nat /\ n * PerPage = Before(n) + PerPage
         /\ Before(n + 1) = Before(n) + PerPage
         /\ Before(1) = 0
  <1>1. PerPage \in Nat \ {0}
    BY ClientAssumption
  <1>2. Before(1) = 0 /\ Before(n + 1) = n * PerPage
    BY <1>1 DEF Before
  <1>3. n * PerPage = Before(n) + PerPage
    BY <1>1 DEF Before
  <1>4. Before(n) \in Nat
    BY <1>1 DEF Before
  <1> QED
    BY <1>2, <1>3, <1>4

\* A beginning of a list: its length, its elements, and what it is a beginning of.
LEMMA BeginningOf ==
  ASSUME NEW S, NEW s \in Seq(S), NEW n \in 0 .. Len(s)
  PROVE  /\ SubSeq(s, 1, n) \in Seq(S) /\ Len(SubSeq(s, 1, n)) = n
         /\ DOMAIN SubSeq(s, 1, n) = 1 .. n
         /\ \A i \in 1 .. n : SubSeq(s, 1, n)[i] = s[i]
         /\ n = Len(s) => SubSeq(s, 1, n) = s
         /\ n = 0 => SubSeq(s, 1, n) = <<>>
  <1>1. Len(s) \in Nat /\ \A i \in 1 .. n : s[i] \in S
    BY ElementOfSeq, LenProperties
  <1>2. /\ SubSeq(s, 1, n) \in Seq(S) /\ Len(SubSeq(s, 1, n)) = n
        /\ \A i \in 1 .. n : SubSeq(s, 1, n)[i] = s[i]
    BY <1>1, SubSeqProperties
  <1>3. DOMAIN SubSeq(s, 1, n) = 1 .. n
    BY <1>2, LenProperties
  <1> QED
    BY <1>1, <1>2, <1>3, SubSeqFull, SubSeqEmpty

\* FirstOf cuts a beginning of a list off.
LEMMA FirstOfBeginning ==
  ASSUME NEW S, NEW s \in Seq(S), NEW n \in 0 .. Len(s), NEW cap \in Nat
  PROVE  FirstOf(SubSeq(s, 1, n), cap) = SubSeq(s, 1, IF n < cap THEN n ELSE cap)
  <1> DEFINE t == SubSeq(s, 1, n)
             m == IF n < cap THEN n ELSE cap
  <1>1. /\ t \in Seq(S) /\ Len(t) = n
        /\ \A i \in 1 .. n : t[i] = s[i]
    BY BeginningOf
  <1>2. m \in 0 .. n /\ m \in 0 .. Len(s) /\ FirstOf(t, cap) = SubSeq(t, 1, m)
    BY <1>1, LenProperties DEF FirstOf
  <1> HIDE DEF t, m
  <1>3. /\ SubSeq(t, 1, m) \in Seq(S) /\ Len(SubSeq(t, 1, m)) = m
        /\ \A i \in 1 .. m : SubSeq(t, 1, m)[i] = t[i]
    BY <1>1, <1>2, BeginningOf
  <1>4. /\ SubSeq(s, 1, m) \in Seq(S) /\ Len(SubSeq(s, 1, m)) = m
        /\ \A i \in 1 .. m : SubSeq(s, 1, m)[i] = s[i]
    BY <1>2, BeginningOf
  <1>5. SubSeq(t, 1, m) = SubSeq(s, 1, m)
    BY <1>1, <1>2, <1>3, <1>4, SeqEqual
  <1> QED
    BY <1>2, <1>5 DEF t, m

\* FirstOf gives a list of the same elements back.
LEMMA FirstOfType ==
  ASSUME NEW S, NEW s \in Seq(S), NEW cap \in Nat
  PROVE  FirstOf(s, cap) \in Seq(S)
  <1>1. (IF Len(s) < cap THEN Len(s) ELSE cap) \in 0 .. Len(s)
    BY LenProperties
  <1> QED
    BY <1>1, BeginningOf DEF FirstOf

\* A page has the elements of the list that come after the pages before it, and
\* is full unless the list ends in it.
LEMMA PageElements ==
  ASSUME NEW S, NEW s \in Seq(S), NEW n \in Nat \ {0}
  PROVE  LET items == PageOf(s, n) IN
         /\ items \in Seq(S)
         /\ \A i \in 1 .. Len(items) : /\ Before(n) + i \in 1 .. Len(s)
                                       /\ items[i] = s[Before(n) + i]
         /\ Len(items) <= PerPage
         /\ LastPage(items) <=> Len(s) < n * PerPage
         /\ \A j \in 1 .. Len(s) :
              Before(n) < j /\ j <= n * PerPage =>
                j - Before(n) \in 1 .. Len(items) /\ items[j - Before(n)] = s[j]
  <1> DEFINE k == Before(n)
             m == IF Len(s) < k + PerPage THEN Len(s) ELSE k + PerPage
             items == PageOf(s, n)
  <1>1. k \in Nat /\ n * PerPage = k + PerPage /\ PerPage \in Nat \ {0} /\ Len(s) \in Nat
    BY PageArithmetic, ClientAssumption, LenProperties
  <1>2. items = SubSeq(s, k + 1, m)
    BY <1>1 DEF PageOf, Before
  <1> HIDE DEF k
  <1>3. m \in Nat /\ m <= Len(s) /\ m <= k + PerPage
    BY <1>1
  <1>4. \A i \in k + 1 .. m : s[i] \in S
    BY <1>1, <1>3, ElementOfSeq
  <1>5. \/ m = Len(s) /\ Len(s) < k + PerPage
        \/ m = k + PerPage /\ k + PerPage <= Len(s)
    BY <1>1
  <1> HIDE DEF m, items
  <1>6. /\ items \in Seq(S) /\ Len(items) = IF k + 1 <= m THEN m - k ELSE 0
        /\ \A i \in 1 .. m - k : items[i] = s[k + i]
    <2>1. k + 1 \in Int /\ m \in Int
      BY <1>1, <1>3
    <2>2. /\ items \in Seq(S)
          /\ Len(items) = IF k + 1 <= m THEN m - (k + 1) + 1 ELSE 0
          /\ \A i \in 1 .. m - (k + 1) + 1 : items[i] = s[(k + 1) + i - 1]
      BY <1>2, <1>4, <2>1, SubSeqProperties
    <2> QED
      BY <1>1, <1>3, <2>2
  <1>7. \A i \in 1 .. Len(items) : k + i \in 1 .. Len(s) /\ items[i] = s[k + i]
    BY <1>1, <1>3, <1>6
  <1>8. Len(items) <= PerPage /\ (LastPage(items) <=> Len(s) < n * PerPage)
    BY <1>1, <1>3, <1>5, <1>6 DEF LastPage
  <1>9. \A j \in 1 .. Len(s) :
          k < j /\ j <= n * PerPage =>
            j - k \in 1 .. Len(items) /\ items[j - k] = s[j]
    BY <1>1, <1>3, <1>5, <1>6
  <1> QED
    BY <1>6, <1>7, <1>8, <1>9 DEF k, items

\* The pages before it and one more page are a beginning of the list again.
LEMMA PageIsAdded ==
  ASSUME NEW S, NEW s \in Seq(S), NEW n \in Nat \ {0}, Before(n) <= Len(s)
  PROVE  SubSeq(s, 1, Before(n)) \o PageOf(s, n)
           = SubSeq(s, 1, IF Len(s) < n * PerPage THEN Len(s) ELSE n * PerPage)
  <1> DEFINE k == Before(n)
             m == IF Len(s) < n * PerPage THEN Len(s) ELSE n * PerPage
  <1>1. k \in Nat /\ n * PerPage = k + PerPage /\ PerPage \in Nat \ {0} /\ Len(s) \in Nat
    BY PageArithmetic, ClientAssumption, LenProperties
  <1>2. PageOf(s, n) = SubSeq(s, k + 1, m)
    BY DEF PageOf, Before
  <1>3. 1 \in 1 .. Len(s) + 1 /\ k \in 1 - 1 .. Len(s) /\ m \in k .. Len(s)
    BY <1>1
  <1> HIDE DEF k, m
  <1> QED
    BY <1>2, <1>3, ConcatAdjacentSubSeq DEF k, m

-----------------------------------------------------------------------------
(* The lists *)

\* A step of a run.
RunStep(r) ==
  \/ Pin(r) \/ CompareFiles(r) \/ CompareFails(r) \/ ListPage(r) \/ ListFails(r)
  \/ Judge(r) \/ ForWrites(r) \/ FindPage(r)
  \/ UpdateComment(r) \/ CreateComment(r) \/ SetStatus(r)

\* It leaves the head of the pull request and what the other runs have alone.
LEMMA OthersKept ==
  ASSUME NEW r \in Run, NEW t \in Run \ {r}, RunStep(r), Shapes, ListShapes
  PROVE  /\ UNCHANGED <<prHead, moved>>
         /\ place'[t] = place[t] /\ head'[t] = head[t]
         /\ got'[t] = got[t] /\ page'[t] = page[t] /\ tries'[t] = tries[t]
         /\ t \in unconfirmed' <=> t \in unconfirmed
         /\ verdict'[t] = verdict[t]
  <1>1. UNCHANGED <<prHead, moved>>
    BY DEF RunStep, Pin, CompareFiles, CompareFails, ListPage, ListFails, Judge, ForWrites,
       FindPage, UpdateComment, CreateComment, SetStatus, github, seen
  <1>2. place'[t] = place[t]
    BY DEF RunStep, Pin, CompareFiles, CompareFails, ListPage, ListFails, Judge, ForWrites,
       FindPage, UpdateComment, CreateComment, SetStatus, AfterPost, Exit, Goto, Shapes
  <1>3. head'[t] = head[t]
    BY DEF RunStep, Pin, CompareFiles, CompareFails, ListPage, ListFails, Judge, ForWrites,
       FindPage, UpdateComment, CreateComment, SetStatus, reading, Shapes, ListShapes
  <1>4. got'[t] = got[t] /\ tries'[t] = tries[t]
    BY DEF RunStep, Pin, CompareFiles, CompareFails, ListPage, ListFails, Judge, ForWrites,
       FindPage, UpdateComment, CreateComment, SetStatus, reading, Shapes, ListShapes
  <1>5. page'[t] = page[t]
    BY DEF RunStep, Pin, CompareFiles, CompareFails, ListPage, ListFails, Judge, ForWrites,
       FindPage, UpdateComment, CreateComment, SetStatus, reading, Shapes, ListShapes
  <1>6. t \in unconfirmed' <=> t \in unconfirmed
    BY DEF RunStep, Pin, CompareFiles, CompareFails, ListPage, ListFails, Judge, ForWrites,
       FindPage, UpdateComment, CreateComment, SetStatus, reading, Shapes, ListShapes
  <1>7. verdict'[t] = verdict[t]
    BY DEF RunStep, Pin, CompareFiles, CompareFails, ListPage, ListFails, Judge, ForWrites,
       FindPage, UpdateComment, CreateComment, SetStatus, said, Shapes
  <1> QED
    BY <1>1, <1>2, <1>3, <1>4, <1>5, <1>6, <1>7

\* What Listed says of a run depends on nothing else.
LEMMA ListedKept ==
  ASSUME NEW t \in Run, Listed(t), prHead' = prHead,
         place'[t] = place[t], head'[t] = head[t], got'[t] = got[t], page'[t] = page[t],
         t \in unconfirmed' <=> t \in unconfirmed, verdict'[t] = verdict[t]
  PROVE  Listed(t)'
  BY DEF Listed, Before, Elems

\* A run that has judged keeps its head and its verdict.
LEMMA ListedAfter ==
  ASSUME NEW t \in Run, Listed(t), place'[t] \notin {"compare", "list", "judge"},
         head'[t] = head[t], got'[t] = got[t], verdict'[t] = verdict[t]
  PROVE  Listed(t)'
  BY DEF Listed, Before, Elems

\* The list of a head is a list of files.
LEMMA ChangedType ==
  ASSUME NEW h \in Commit
  PROVE  /\ ChangedOf[h] \in Seq(File) /\ Len(ChangedOf[h]) \in Nat
         /\ \A n \in 0 .. Len(ChangedOf[h]) : SubSeq(ChangedOf[h], 1, n) \in Seq(File)
         /\ SubSeq(ChangedOf[h], 1, 0) = <<>>
  <1>1. ChangedOf[h] \in Seq(File)
    BY ClientAssumption
  <1> QED
    BY <1>1, LenProperties, BeginningOf, SubSeqEmpty

\* FirstOf of a whole list.
LEMMA FirstOfChanged ==
  ASSUME NEW h \in Commit, NEW cap \in Nat
  PROVE  LET n == IF Len(ChangedOf[h]) < cap THEN Len(ChangedOf[h]) ELSE cap IN
         /\ n \in 0 .. Len(ChangedOf[h])
         /\ FirstOf(ChangedOf[h], cap) = SubSeq(ChangedOf[h], 1, n)
         /\ Len(ChangedOf[h]) < cap => FirstOf(ChangedOf[h], cap) = ChangedOf[h]
  BY ChangedType, SubSeqFull DEF FirstOf

\* What the steps of a run leave in its list are files.
LEMMA GotType ==
  ASSUME NEW r \in Run, RunStep(r), Inv, ListShapes
  PROVE  got' \in [Run -> Seq(File)]
  <1> USE DEF Inv
  <1>1. got \in [Run -> Seq(File)] /\ got[r] \in Seq(File) /\ page[r] \in Nat
    BY DEF ListShapes
  <1>2. ASSUME NEW files \in Seq(File), got' = [got EXCEPT ![r] = files]
        PROVE  got' \in [Run -> Seq(File)]
    BY <1>1, <1>2
  <1>3. CASE CompareFiles(r) \/ ListFails(r)
    <2>1. head[r] \in Commit
      BY <1>3 DEF CompareFiles, ListFails, Judging
    <2>2. FirstOf(ChangedOf[head[r]], CompareCap) \in Seq(File)
      BY <2>1, ChangedType, FirstOfType, ClientAssumption
    <2> QED
      BY <1>2, <1>3, <2>2 DEF CompareFiles, ListFails
  <1>4. CASE CompareFails(r)
    <2>1. head[r] \in Commit
      BY <1>4 DEF CompareFails, Judging
    <2>2. CASE got' = got
      BY <1>1, <2>2
    <2>3. ASSUME NEW n \in 0 .. Len(ChangedOf[head[r]]),
                 got' = [got EXCEPT ![r] = SubSeq(ChangedOf[head[r]], 1, n)]
          PROVE  got' \in [Run -> Seq(File)]
      BY <1>2, <2>1, <2>3, ChangedType
    <2> QED
      BY <1>4, <2>2, <2>3 DEF CompareFails
  <1>5. CASE ListPage(r)
    <2>1. page[r] \in Nat \ {0} /\ prHead \in Commit
      BY <1>1, <1>5 DEF ListPage, ListShapes, Shapes
    <2>2. PageOf(ChangedOf[prHead], page[r]) \in Seq(File)
      BY <2>1, ChangedType, PageElements
    <2>3. BeforePage(r) \in Seq(File)
      BY <1>1, EmptySeq DEF BeforePage
    <2>4. FirstOf(BeforePage(r) \o PageOf(ChangedOf[prHead], page[r]), MaxFiles) \in Seq(File)
      BY <2>2, <2>3, ConcatProperties, FirstOfType, ClientAssumption
    <2> QED
      BY <1>2, <1>5, <2>4 DEF ListPage
  <1>6. CASE Judge(r)
    BY <1>2, <1>6, EmptySeq DEF Judge
  <1>7. CASE got' = got
    BY <1>1, <1>7
  <1> QED
    BY <1>3, <1>4, <1>5, <1>6, <1>7
    DEF RunStep, Pin, ForWrites, FindPage, UpdateComment, CreateComment, SetStatus, reading

LEMMA ListShapesStep == Inv /\ ListShapes /\ [Next]_vars => ListShapes'
  <1> SUFFICES ASSUME Inv, ListShapes, [Next]_vars
               PROVE  ListShapes'
    OBVIOUS
  <1> USE DEF Inv
  <1>1. ASSUME NEW r \in Run, RunStep(r)
        PROVE  ListShapes'
    <2>1. got' \in [Run -> Seq(File)]
      BY <1>1, GotType
    <2>2. /\ page[r] \in Nat /\ tries[r] \in 0 .. 2
          /\ page \in [Run -> Nat] /\ tries \in [Run -> 0 .. 2]
      BY DEF ListShapes
    <2>3. \E n \in {0, 1, page[r], page[r] + 1} : page' = [page EXCEPT ![r] = n]
      BY <1>1, <2>2
      DEF RunStep, Pin, CompareFiles, CompareFails, ListPage, ListFails, Judge, ForWrites,
          FindPage, UpdateComment, CreateComment, SetStatus, reading
    <2>4. tries' \in [Run -> 0 .. 2]
      <3>1. CASE CompareFails(r)
        BY <2>2, <3>1 DEF CompareFails, ListShapes
      <3>2. CASE Judge(r)
        BY <2>2, <3>2 DEF Judge
      <3>3. CASE tries' = tries
        BY <2>2, <3>3
      <3> QED
        BY <1>1, <3>1, <3>2, <3>3
        DEF RunStep, Pin, CompareFiles, ListPage, ListFails, ForWrites,
            FindPage, UpdateComment, CreateComment, SetStatus, reading
    <2>5. page' \in [Run -> Nat]
      BY <2>2, <2>3
    <2>6. unconfirmed' \subseteq Run /\ scoped' \subseteq Run /\ moved' \subseteq Run
      BY <1>1
      DEF RunStep, Pin, CompareFiles, CompareFails, ListPage, ListFails, Judge, ForWrites,
          FindPage, UpdateComment, CreateComment, SetStatus, reading, said, seen, ListShapes
    <2>7. exit' \in [Run -> {"none", "ok", "failed"}]
      BY <1>1
      DEF RunStep, Pin, CompareFiles, CompareFails, ListPage, ListFails, Judge, ForWrites,
          FindPage, UpdateComment, CreateComment, SetStatus, AfterPost, Exit, ListShapes
    <2>8. ASSUME NEW t \in Run
          PROVE  /\ place'[t] = "idle" => got'[t] = <<>> /\ tries'[t] = 0
                 /\ place'[t] = "compare" => tries'[t] < 2
                 /\ place'[t] \in {"list", "find"} => page'[t] > 0
      <3>1. CASE t # r
        BY <1>1, <3>1, OthersKept DEF ListShapes
      <3>2. CASE Pin(r) /\ t = r
        BY <3>2 DEF Pin, Goto, Shapes, ListShapes
      <3>3. CASE CompareFiles(r) /\ t = r
        BY <2>2, <3>3 DEF CompareFiles, Goto, Shapes
      <3>4. CASE CompareFails(r) /\ t = r
        BY <2>2, <3>4 DEF CompareFails, Goto, Shapes
      <3>5. CASE ListPage(r) /\ t = r
        <4>1. place[r] = "list" /\ page[r] > 0
          BY <3>5 DEF ListPage, ListShapes
        <4>2. \/ place' = [place EXCEPT ![r] = "judge"]
              \/ place' = place /\ page' = [page EXCEPT ![r] = page[r] + 1]
          BY <3>5 DEF ListPage, Goto
        <4> QED
          BY <2>2, <3>5, <4>1, <4>2 DEF Shapes
      <3>6. CASE ListFails(r) /\ t = r
        BY <3>6 DEF ListFails, Goto, Shapes
      <3>7. CASE Judge(r) /\ t = r
        BY <3>7 DEF Judge, Goto, Shapes
      <3>8. CASE ForWrites(r) /\ t = r
        BY <2>2, <3>8 DEF ForWrites, Exit, Goto, Shapes
      <3>9. CASE FindPage(r) /\ t = r
        <4>1. place[r] = "find" /\ page[r] > 0
          BY <3>9 DEF FindPage, ListShapes
        <4>2. \/ place' = [place EXCEPT ![r] = "update"]
              \/ place' = [place EXCEPT ![r] = "create"]
              \/ place' = place /\ page' = [page EXCEPT ![r] = page[r] + 1]
          BY <3>9 DEF FindPage, Goto
        <4> QED
          BY <2>2, <3>9, <4>1, <4>2 DEF Shapes
      <3>10. CASE (UpdateComment(r) \/ CreateComment(r) \/ SetStatus(r)) /\ t = r
        BY <3>10 DEF UpdateComment, CreateComment, SetStatus, AfterPost, Exit, Goto, Shapes
      <3> QED
        BY <1>1, <3>1, <3>2, <3>3, <3>4, <3>5, <3>6, <3>7, <3>8, <3>9, <3>10 DEF RunStep
    <2> QED
      BY <2>1, <2>4, <2>5, <2>6, <2>7, <2>8 DEF ListShapes
  <1>2. ASSUME NEW h \in Commit, Push(h)
        PROVE  ListShapes'
    BY <1>2 DEF Push, ListShapes, reading, said
  <1>3. ASSUME OthersComment \/ \E i \in DOMAIN comments : OthersDelete(i)
        PROVE  ListShapes'
    BY <1>3 DEF OthersComment, OthersDelete, ListShapes, reading, said, seen
  <1>4. CASE UNCHANGED vars
    BY <1>4 DEF vars, github, reading, said, seen, ListShapes
  <1> QED
    BY <1>1, <1>2, <1>3, <1>4 DEF Next, RunStep

\* ListPage, while the head stays: the next page follows what the run has, and when
\* it is the last one the list is complete or known to be cut off.
LEMMA PageListed ==
  ASSUME NEW r \in Run, ListPage(r), Inv, ListShapes, Listed(r)
  PROVE  Listed(r)'
  <1> DEFINE s == ChangedOf[head[r]]
             n == page[r]
             items == PageOf(s, n)
             most == IF Len(s) < n * PerPage THEN Len(s) ELSE n * PerPage
             size == IF most < MaxFiles THEN most ELSE MaxFiles
             files == FirstOf(BeforePage(r) \o items, MaxFiles)
  <1>1. /\ place[r] = "list" /\ head[r] = prHead /\ n \in Nat \ {0} /\ head[r] \in Commit
        /\ head' = head /\ verdict' = verdict /\ prHead' = prHead
        /\ verdict[r] # "APPROVE" /\ got \in [Run -> Seq(File)] /\ page \in [Run -> Nat]
        /\ place \in [Run -> {"idle", "compare", "list", "judge", "post", "find", "update",
                              "create", "status", "exited"}]
    BY DEF ListPage, Listed, ListShapes, Inv, Shapes, Judging, github, said
  <1>2. /\ s \in Seq(File) /\ Len(s) \in Nat /\ SubSeq(s, 1, 0) = <<>>
        /\ PerPage \in Nat \ {0} /\ MaxFiles \in Nat
    BY <1>1, ChangedType, ClientAssumption
  <1>3. /\ Before(n) \in Nat /\ n * PerPage = Before(n) + PerPage
        /\ Before(n + 1) = n * PerPage /\ Before(1) = 0
    BY <1>1, PageArithmetic
  <1>4. Before(n) <= Len(s) /\ BeforePage(r) = SubSeq(s, 1, Before(n))
    <2>1. CASE n = 1
      BY <1>2, <1>3, <2>1 DEF BeforePage
    <2>2. CASE n # 1
      BY <1>1, <2>2 DEF BeforePage, Listed
    <2> QED
      BY <2>1, <2>2
  <1>5. /\ got' = [got EXCEPT ![r] = files]
        /\ IF LastPage(items) \/ Len(files) = MaxFiles
           THEN /\ place' = [place EXCEPT ![r] = "judge"] /\ page' = page
                /\ unconfirmed' = IF ListedAll(files) THEN unconfirmed ELSE unconfirmed \cup {r}
           ELSE /\ page' = [page EXCEPT ![r] = n + 1]
                /\ place' = place /\ unconfirmed' = unconfirmed
    BY <1>1 DEF ListPage, Goto
  <1> HIDE DEF s, n
  <1>6. LastPage(items) <=> Len(s) < n * PerPage
    BY <1>1, <1>2, PageElements
  <1>7. BeforePage(r) \o items = SubSeq(s, 1, most)
    BY <1>1, <1>2, <1>4, PageIsAdded
  <1>8. most \in 0 .. Len(s) /\ size \in 0 .. Len(s) /\ size <= MaxFiles /\ most \in Nat
    BY <1>2, <1>3
  <1>9. files = SubSeq(s, 1, size)
    BY <1>2, <1>7, <1>8, FirstOfBeginning
  <1>10. Len(files) = size /\ (size = Len(s) => files = s)
    BY <1>2, <1>8, <1>9, BeginningOf
  <1>11. got'[r] = files /\ head'[r] = head[r]
    BY <1>1, <1>5
  <1> HIDE DEF files, items
  <1>12. CASE LastPage(items) \/ size = MaxFiles
    <2>1. place'[r] = "judge"
      BY <1>1, <1>5, <1>10, <1>12
    <2>2. r \in unconfirmed' \/ size < MaxFiles
      BY <1>5, <1>8, <1>10, <1>12 DEF ListedAll
    <2>3. size < MaxFiles => files = s
      BY <1>2, <1>3, <1>6, <1>8, <1>10, <1>12
    <2> QED
      BY <1>1, <1>8, <1>9, <1>11, <2>1, <2>2, <2>3 DEF Listed, s
  <1>13. CASE ~ (LastPage(items) \/ size = MaxFiles)
    <2>1. /\ place'[r] = "list" /\ page'[r] = n + 1
      BY <1>1, <1>5, <1>10, <1>13
    <2>2. size = n * PerPage /\ size < MaxFiles /\ size <= Len(s)
      BY <1>2, <1>3, <1>6, <1>8, <1>13
    <2> QED
      BY <1>1, <1>3, <1>8, <1>9, <1>11, <2>1, <2>2 DEF Listed, Before, s
  <1> QED
    BY <1>12, <1>13

LEMMA ListsStep == Inv /\ ListShapes /\ Lists /\ [Next]_vars => Lists'
  <1> SUFFICES ASSUME Inv, ListShapes, Lists, [Next]_vars,
                      NEW t \in Run, t \notin moved', place'[t] # "idle"
               PROVE  Listed(t)'
    BY DEF Lists
  <1> USE DEF Inv
  <1>1. ASSUME NEW r \in Run, RunStep(r), t # r
        PROVE  Listed(t)'
    <2>1. Listed(t)
      BY <1>1, OthersKept DEF Lists
    <2> QED
      BY <1>1, <2>1, OthersKept, ListedKept
  <1>2. CASE Pin(t)
    <2>1. /\ place'[t] = "compare" /\ got'[t] = <<>> /\ head'[t] = prHead /\ prHead' = prHead
          /\ prHead \in Commit /\ verdict'[t] = "none"
      BY <1>2 DEF Pin, Goto, Shapes, Judging, ListShapes, github, said
    <2>2. \E n \in 0 .. Len(ChangedOf[prHead]) : <<>> = SubSeq(ChangedOf[prHead], 1, n)
      BY <2>1, ChangedType
    <2> QED
      BY <2>1, <2>2 DEF Listed
  <1>3. ASSUME RunStep(t), ~ Pin(t)
        PROVE  Listed(t)
    BY <1>3
    DEF RunStep, Lists, CompareFiles, CompareFails, ListPage, ListFails, Judge, ForWrites,
        FindPage, UpdateComment, CreateComment, SetStatus, seen
  <1>4. CASE CompareFiles(t)
    <2> DEFINE changed == ChangedOf[head[t]]
               n == IF Len(changed) < CompareCap THEN Len(changed) ELSE CompareCap
    <2>1. head[t] \in Commit /\ head'[t] = head[t] /\ prHead' = prHead
          /\ verdict'[t] = "none" /\ head[t] = prHead /\ CompareCap \in Nat
      BY <1>3, <1>4, ClientAssumption
      DEF CompareFiles, RunStep, Pin, Judging, Listed, github, said
    <2>2. /\ n \in 0 .. Len(changed) /\ FirstOf(changed, CompareCap) = SubSeq(changed, 1, n)
          /\ Len(changed) < CompareCap => FirstOf(changed, CompareCap) = changed
          /\ Len(changed) \in Nat
      BY <2>1, FirstOfChanged, ChangedType
    <2>3. /\ got'[t] = FirstOf(changed, CompareCap)
          /\ \/ place'[t] = "list" /\ page'[t] = 1
             \/ place'[t] = "judge" /\ Len(changed) < CompareCap
      BY <1>4, <2>1, <2>2 DEF CompareFiles, Goto, Shapes, ListShapes
    <2> QED
      BY <2>1, <2>2, <2>3 DEF Listed
  <1>5. CASE CompareFails(t)
    <2>1. head[t] \in Commit /\ head'[t] = head[t] /\ prHead' = prHead
          /\ verdict'[t] = "none" /\ place[t] = "compare"
      BY <1>5 DEF CompareFails, Judging, github, said
    <2>2. CASE UNCHANGED <<place, got, unconfirmed>>
      BY <1>3, <1>5, <2>1, <2>2, ListedKept DEF CompareFails, RunStep, Pin, said
    <2>3. CASE ~ UNCHANGED <<place, got, unconfirmed>>
      <3>1. /\ \E n \in 0 .. Len(ChangedOf[head[t]]) :
                 got' = [got EXCEPT ![t] = SubSeq(ChangedOf[head[t]], 1, n)]
            /\ t \in unconfirmed' /\ place'[t] = "judge"
        BY <1>5, <2>3 DEF CompareFails, Goto, Shapes
      <3> QED
        BY <2>1, <3>1 DEF Listed, ListShapes
    <2> QED
      BY <2>2, <2>3
  <1>6. CASE ListPage(t)
    BY <1>3, <1>6, PageListed DEF ListPage, RunStep, Pin
  <1>7. CASE ListFails(t)
    <2>1. head[t] \in Commit /\ head'[t] = head[t] /\ verdict'[t] = "none" /\ CompareCap \in Nat
      BY <1>7, ClientAssumption DEF ListFails, Judging, said
    <2>2. /\ got'[t] = FirstOf(ChangedOf[head[t]], CompareCap)
          /\ t \in unconfirmed' /\ place'[t] = "judge"
      BY <1>7 DEF ListFails, Goto, Shapes, ListShapes
    <2>3. \E n \in 0 .. Len(ChangedOf[head[t]]) :
            got'[t] = SubSeq(ChangedOf[head[t]], 1, n)
      BY <2>1, <2>2, FirstOfChanged
    <2> QED
      BY <2>1, <2>2, <2>3 DEF Listed
  <1>8. CASE Judge(t)
    <2>1. /\ place[t] = "judge" /\ place'[t] = "post" /\ got'[t] = <<>>
          /\ head[t] \in Commit /\ head'[t] = head[t]
          /\ verdict'[t] = "APPROVE" => t \notin unconfirmed /\ Elems(got[t]) \cap Bench = {}
      BY <1>8 DEF Judge, Goto, Shapes, Judging, ListShapes
    <2>2. verdict'[t] = "APPROVE" => Elems(ChangedOf[head[t]]) \cap Bench = {}
      BY <1>3, <1>8, <2>1 DEF Judge, RunStep, Pin, Listed
    <2>3. \E n \in 0 .. Len(ChangedOf[head[t]]) : <<>> = SubSeq(ChangedOf[head[t]], 1, n)
      BY <2>1, ChangedType
    <2> QED
      BY <2>1, <2>2, <2>3 DEF Listed, Elems
  <1>9. CASE ForWrites(t) \/ FindPage(t) \/ UpdateComment(t) \/ CreateComment(t) \/ SetStatus(t)
    <2>1. /\ place'[t] \notin {"compare", "list", "judge"}
          /\ head'[t] = head[t] /\ got'[t] = got[t] /\ verdict'[t] = verdict[t]
      BY <1>9
      DEF ForWrites, FindPage, UpdateComment, CreateComment, SetStatus, AfterPost, Exit, Goto,
          Shapes, reading, said
    <2>2. Listed(t)
      BY <1>3, <1>9
      DEF RunStep, Pin, ForWrites, FindPage, UpdateComment, CreateComment, SetStatus
    <2> QED
      BY <2>1, <2>2, ListedAfter
  <1>10. ASSUME NEW h \in Commit, Push(h)
         PROVE  Listed(t)'
    <2>1. /\ t \notin moved /\ place[t] \notin {"compare", "list"} /\ UNCHANGED <<place, reading, verdict>>
      BY <1>10 DEF Push, said
    <2> QED
      BY <2>1 DEF Lists, Listed, Elems, reading
  <1>11. CASE OthersComment \/ \E i \in DOMAIN comments : OthersDelete(i)
    BY <1>11, ListedKept DEF OthersComment, OthersDelete, Lists, reading, said, seen
  <1>12. CASE UNCHANGED vars
    BY <1>12, ListedKept DEF vars, github, reading, said, seen, Lists
  <1> QED
    BY <1>1, <1>2, <1>4, <1>5, <1>6, <1>7, <1>8, <1>9, <1>10, <1>11, <1>12 DEF Next, RunStep

-----------------------------------------------------------------------------
(* The comment *)

Comment == [id : Nat, by : Run \cup {None}]

\* A new comment is behind the others and has an id of its own.
LEMMA Appended ==
  ASSUME NEW b \in Run \cup {None}, CommentShapes,
         comments' = Append(comments, [id |-> nextId, by |-> b]), nextId' = nextId + 1,
         raced' = raced, target' = target
  PROVE  /\ CommentShapes'
         /\ DOMAIN comments' = DOMAIN comments \cup {Len(comments) + 1}
         /\ \A i \in DOMAIN comments : comments'[i] = comments[i]
         /\ comments'[Len(comments) + 1].by = b
         /\ OfArgus' = IF b = None THEN OfArgus ELSE OfArgus \cup {Len(comments) + 1}
  <1> DEFINE c == [id |-> nextId, by |-> b]
             n == Len(comments)
  <1>1. /\ comments \in Seq(Comment) /\ nextId \in Nat /\ c \in Comment
        /\ c.id = nextId /\ c.by = b
    BY DEF CommentShapes, Comment
  <1>2. /\ n \in Nat /\ DOMAIN comments = 1 .. n
    BY <1>1, LenProperties
  <1>3. /\ comments' \in Seq(Comment) /\ Len(comments') = n + 1
        /\ \A i \in 1 .. n : comments'[i] = comments[i]
        /\ comments'[n + 1] = c
    BY <1>1, AppendProperties
  <1>4. DOMAIN comments' = 1 .. n + 1
    BY <1>3, LenProperties
  <1> HIDE DEF c, n
  <1>5. /\ DOMAIN comments' = DOMAIN comments \cup {n + 1}
        /\ \A i \in DOMAIN comments : comments'[i] = comments[i] /\ i # n + 1
    BY <1>2, <1>3, <1>4
  <1>6. \A i \in DOMAIN comments : comments[i].id < nextId /\ comments[i].id \in Nat
    <2>1. \A i \in DOMAIN comments : comments[i] \in Comment
      BY <1>1, <1>2, ElementOfSeq
    <2> QED
      BY <2>1 DEF CommentShapes, Comment
  <1>7. \A i \in DOMAIN comments' : comments'[i].id < nextId'
    BY <1>1, <1>3, <1>5, <1>6
  <1>8. \A i, j \in DOMAIN comments' : comments'[i].id = comments'[j].id => i = j
    BY <1>1, <1>3, <1>5, <1>6 DEF CommentShapes
  <1>9. OfArgus' = IF b = None THEN OfArgus ELSE OfArgus \cup {n + 1}
    BY <1>1, <1>3, <1>5 DEF OfArgus
  <1> QED
    BY <1>1, <1>3, <1>5, <1>7, <1>8, <1>9 DEF CommentShapes, Comment, n

\* Of the comments that are left when one is deleted each was there, and no two
\* are the same one.
LEMMA Deleted ==
  ASSUME NEW i \in DOMAIN comments, OthersDelete(i), CommentShapes
  PROVE  /\ CommentShapes'
         /\ (\A k, l \in OfArgus : k = l) => (\A k, l \in OfArgus' : k = l)
  <1> DEFINE n == Len(comments)
             was == [k \in 1 .. n - 1 |-> IF k < i THEN k ELSE k + 1]
             front == SubSeq(comments, 1, i - 1)
             rest == SubSeq(comments, i + 1, n)
  <1>1. /\ comments \in Seq(Comment) /\ n \in Nat /\ DOMAIN comments = 1 .. n
        /\ i \in 1 .. n /\ comments' = front \o rest
    BY LenProperties DEF CommentShapes, Comment, OthersDelete
  <1>2. \A k \in 1 .. n : comments[k] \in Comment
    BY <1>1, ElementOfSeq
  <1>3. /\ front \in Seq(Comment) /\ Len(front) = i - 1
        /\ \A k \in 1 .. i - 1 : front[k] = comments[k]
    <2>1. i - 1 \in 0 .. Len(comments)
      BY <1>1
    <2> QED
      BY <1>1, <2>1, BeginningOf
  <1>4. /\ rest \in Seq(Comment) /\ Len(rest) = n - i
        /\ \A k \in 1 .. n - i : rest[k] = comments[i + k]
    <2>1. i + 1 \in Int /\ n \in Int /\ \A k \in i + 1 .. n : comments[k] \in Comment
      BY <1>1, <1>2
    <2>2. /\ rest \in Seq(Comment)
          /\ Len(rest) = IF i + 1 <= n THEN n - (i + 1) + 1 ELSE 0
          /\ \A k \in 1 .. n - (i + 1) + 1 : rest[k] = comments[(i + 1) + k - 1]
      BY <2>1, SubSeqProperties
    <2>3. n - (i + 1) + 1 = n - i /\ \A k \in 1 .. n - i : (i + 1) + k - 1 = i + k
      BY <1>1
    <2> HIDE DEF n, rest
    <2> QED
      BY <1>1, <2>2, <2>3
  <1> HIDE DEF n, front, rest
  <1>5. /\ comments' \in Seq(Comment) /\ Len(comments') = n - 1
        /\ \A k \in 1 .. n - 1 : comments'[k] = IF k <= i - 1 THEN front[k] ELSE rest[k - (i - 1)]
    BY <1>1, <1>3, <1>4, ConcatProperties
  <1>6. \A k \in 1 .. n - 1 : was[k] = IF k < i THEN k ELSE k + 1
    OBVIOUS
  <1> HIDE DEF was
  <1>7. \A k \in 1 .. n - 1 : was[k] \in 1 .. n /\ comments'[k] = comments[was[k]]
    <2> SUFFICES ASSUME NEW k \in 1 .. n - 1
                 PROVE  was[k] \in 1 .. n /\ comments'[k] = comments[was[k]]
      OBVIOUS
    <2>1. CASE k < i
      BY <1>1, <1>3, <1>5, <1>6, <2>1
    <2>2. CASE ~ (k < i)
      <3>1. /\ k - (i - 1) \in 1 .. n - i /\ i + (k - (i - 1)) = k + 1
            /\ was[k] = k + 1 /\ k + 1 \in 1 .. n
        BY <1>1, <1>6, <2>2
      <3>2. comments'[k] = rest[k - (i - 1)]
        BY <1>1, <1>5, <2>2
      <3> QED
        BY <1>4, <3>1, <3>2
    <2> QED
      BY <2>1, <2>2
  <1>8. DOMAIN comments' = 1 .. n - 1
    BY <1>5, LenProperties
  <1>9. nextId' = nextId /\ target' = target /\ raced' \in BOOLEAN
    BY DEF OthersDelete, said, CommentShapes
  <1>10. \A k \in DOMAIN comments' :
           was[k] \in DOMAIN comments /\ comments'[k] = comments[was[k]]
    BY <1>1, <1>7, <1>8
  <1>11. \A k \in DOMAIN comments' : comments'[k].id < nextId'
    BY <1>9, <1>10 DEF CommentShapes
  <1>12. ASSUME NEW k \in DOMAIN comments', NEW l \in DOMAIN comments', was[k] = was[l]
         PROVE  k = l
    BY <1>1, <1>6, <1>8, <1>12
  <1>13. \A k, l \in DOMAIN comments' : comments'[k].id = comments'[l].id => k = l
    <2> SUFFICES ASSUME NEW k \in DOMAIN comments', NEW l \in DOMAIN comments',
                        comments'[k].id = comments'[l].id
                 PROVE  k = l
      OBVIOUS
    <2>1. was[k] = was[l]
      BY <1>10 DEF CommentShapes
    <2> QED
      BY <1>12, <2>1
  <1>14. \A k \in OfArgus' : k \in DOMAIN comments' /\ was[k] \in OfArgus
    <2> SUFFICES ASSUME NEW k \in DOMAIN comments', comments'[k].by # None
                 PROVE  was[k] \in OfArgus
      BY DEF OfArgus
    <2> QED
      BY <1>10 DEF OfArgus
  <1>15. (\A k, l \in OfArgus : k = l) => (\A k, l \in OfArgus' : k = l)
    BY <1>12, <1>14
  <1> QED
    BY <1>5, <1>9, <1>11, <1>13, <1>15 DEF CommentShapes, Comment

\* An update changes who wrote a comment and nothing else.
LEMMA Updated ==
  ASSUME NEW r \in Run, UpdateComment(r), CommentShapes
  PROVE  /\ CommentShapes'
         /\ DOMAIN comments' = DOMAIN comments
         /\ \A i \in DOMAIN comments :
              /\ comments'[i].id = comments[i].id
              /\ comments'[i].by # comments[i].by => comments[i].id = target[r]
  <1> DEFINE at == { i \in DOMAIN comments : comments[i].id = target[r] }
             updated == [i \in DOMAIN comments |->
                           IF i \in at THEN [comments[i] EXCEPT !.by = r] ELSE comments[i]]
             n == Len(comments)
  <1>1. /\ comments \in Seq(Comment) /\ n \in Nat /\ DOMAIN comments = 1 .. n
        /\ nextId' = nextId /\ raced' = raced /\ DOMAIN target' = DOMAIN target
    BY LenProperties DEF CommentShapes, Comment, UpdateComment
  <1>2. \A k \in 1 .. n : comments[k] \in Comment
    BY <1>1, ElementOfSeq
  <1>3. comments' = updated \/ comments' = comments
    BY DEF UpdateComment
  <1>4. \A k \in 1 .. n : [comments[k] EXCEPT !.by = r] \in Comment
    BY <1>2 DEF Comment
  <1>5. \A k \in 1 .. n : /\ [comments[k] EXCEPT !.by = r].id = comments[k].id
    BY <1>2 DEF Comment
  <1>6. CASE comments' = comments
    BY <1>1, <1>6 DEF CommentShapes
  <1>7. CASE comments' = updated
    <2>1. updated \in [1 .. n -> Comment]
      BY <1>1, <1>2, <1>4
    <2>2. updated \in Seq(Comment)
      BY <1>1, <2>1, SeqDef
    <2>3. /\ DOMAIN comments' = DOMAIN comments
          /\ \A i \in DOMAIN comments :
               /\ comments'[i].id = comments[i].id
               /\ comments'[i].by # comments[i].by => comments[i].id = target[r]
      BY <1>1, <1>5, <1>7
    <2> QED
      BY <1>1, <1>7, <2>2, <2>3 DEF CommentShapes, Comment
  <1> QED
    BY <1>3, <1>6, <1>7

LEMMA CommentShapesStep == CommentShapes /\ [Next]_vars => CommentShapes'
  <1> SUFFICES ASSUME CommentShapes, [Next]_vars
               PROVE  CommentShapes'
    OBVIOUS
  <1>1. ASSUME NEW r \in Run, UpdateComment(r)
        PROVE  CommentShapes'
    BY <1>1, Updated
  <1>2. ASSUME NEW r \in Run, CreateComment(r)
        PROVE  CommentShapes'
    <2>1. raced' = raced /\ target' = target
      BY <1>2 DEF CreateComment, said
    <2>2. CASE UNCHANGED <<comments, nextId>>
      BY <2>1, <2>2 DEF CommentShapes
    <2>3. CASE ~ UNCHANGED <<comments, nextId>>
      BY <1>2, <2>1, <2>3, Appended DEF CreateComment
    <2> QED
      BY <2>2, <2>3
  <1>3. CASE OthersComment
    BY <1>3, Appended DEF OthersComment, said, seen
  <1>4. ASSUME NEW i \in DOMAIN comments, OthersDelete(i)
        PROVE  CommentShapes'
    BY <1>4, Deleted
  <1>5. ASSUME NEW r \in Run, ForWrites(r)
        PROVE  CommentShapes'
    BY <1>5 DEF ForWrites, github, said, CommentShapes
  <1>6. ASSUME NEW r \in Run, FindPage(r)
        PROVE  CommentShapes'
    BY <1>6 DEF FindPage, github, seen, CommentShapes
  <1>7. ASSUME NEW r \in Run,
               \/ Pin(r) \/ CompareFiles(r) \/ CompareFails(r) \/ ListPage(r) \/ ListFails(r)
               \/ Judge(r) \/ SetStatus(r)
        PROVE  CommentShapes'
    BY <1>7 DEF Pin, CompareFiles, CompareFails, ListPage, ListFails, Judge, SetStatus,
       github, said, seen, CommentShapes
  <1>8. ASSUME NEW h \in Commit, Push(h)
        PROVE  CommentShapes'
    BY <1>8 DEF Push, said, CommentShapes
  <1>9. CASE UNCHANGED vars
    BY <1>9 DEF vars, github, said, seen, CommentShapes
  <1> QED
    BY <1>1, <1>2, <1>3, <1>4, <1>5, <1>6, <1>7, <1>8, <1>9 DEF Next

\* What Looked says depends on the comments and on the runs that post.
LEMMA LookedKept ==
  ASSUME Looked, OfArgus' = OfArgus,
         \A i \in OfArgus : comments'[i].id = comments[i].id,
         \A t \in Run : place'[t] \in Posting =>
           place'[t] = place[t] /\ page'[t] = page[t] /\ target'[t] = target[t]
  PROVE  Looked'
  <1>1. \A r, q \in Run : place'[r] \in Posting /\ place'[q] \in Posting => r = q
    BY DEF Looked
  <1>2. \A i, j \in OfArgus' : i = j
    BY DEF Looked
  <1>3. ASSUME NEW r \in Run, place'[r] \in Posting
        PROVE  /\ place'[r] = "find" => \A i \in OfArgus : i > Before(page'[r])
               /\ place'[r] = "create" => OfArgus = {}
               /\ place'[r] = "update" => \E i \in OfArgus : comments'[i].id = target'[r]
    BY <1>3 DEF Looked
  <1> QED
    BY <1>1, <1>2, <1>3 DEF Looked, Posting, Before

\* A run that posts alone: what its step must leave for Looked to hold.
LEMMA LookedAlone ==
  ASSUME NEW r \in Run, \A t \in Run \ {r} : place'[t] \notin Posting,
         \A i, j \in OfArgus' : i = j,
         place'[r] = "find" => \A i \in OfArgus' : i > Before(page'[r]),
         place'[r] = "create" => OfArgus' = {},
         place'[r] = "update" => \E i \in OfArgus' : comments'[i].id = target'[r]
  PROVE  Looked'
  <1>1. \A t \in Run : place'[t] \in Posting => t = r
    OBVIOUS
  <1> QED
    BY <1>1 DEF Looked, Posting, Before

\* FindPage: a page without a comment of Argus is passed over, the last one ends
\* the search, and the comment of Argus is the one that is found.
LEMMA PageSearched ==
  ASSUME NEW r \in Run, FindPage(r), Inv, ListShapes, CommentShapes, Looked
  PROVE  /\ place'[r] = "find" => \A i \in OfArgus : i > Before(page'[r])
         /\ place'[r] = "create" => OfArgus = {}
         /\ place'[r] = "update" => \E i \in OfArgus : comments[i].id = target'[r]
  <1> DEFINE n == page[r]
             items == PageOf(comments, n)
             mine == { i \in DOMAIN items : items[i].by # None }
  <1>1. /\ place[r] = "find" /\ n \in Nat \ {0} /\ page \in [Run -> Nat]
        /\ place \in [Run -> {"idle", "compare", "list", "judge", "post", "find", "update",
                              "create", "status", "exited"}]
        /\ DOMAIN target = Run /\ comments \in Seq(Comment)
    BY DEF FindPage, ListShapes, Inv, Shapes, CommentShapes, Comment
  <1>2. /\ Before(n) \in Nat /\ n * PerPage = Before(n) + PerPage
        /\ Before(n + 1) = n * PerPage /\ PerPage \in Nat \ {0}
    BY <1>1, PageArithmetic, ClientAssumption
  <1>3. /\ items \in Seq(Comment)
        /\ \A i \in 1 .. Len(items) : /\ Before(n) + i \in 1 .. Len(comments)
                                      /\ items[i] = comments[Before(n) + i]
        /\ LastPage(items) <=> Len(comments) < n * PerPage
        /\ \A j \in 1 .. Len(comments) :
             Before(n) < j /\ j <= n * PerPage =>
               j - Before(n) \in 1 .. Len(items) /\ items[j - Before(n)] = comments[j]
    BY <1>1, PageElements
  <1>4. DOMAIN items = 1 .. Len(items) /\ DOMAIN comments = 1 .. Len(comments)
        /\ Len(comments) \in Nat
    BY <1>1, <1>3, LenProperties
  <1>5. \A i \in OfArgus : i \in 1 .. Len(comments) /\ i > Before(n) /\ comments[i].by # None
    BY <1>1, <1>4 DEF Looked, OfArgus
  <1>6. \/ /\ mine # {}
           /\ target'[r] = items[CHOOSE i \in mine : \A j \in mine : i <= j].id
           /\ place'[r] = "update"
        \/ mine = {} /\ LastPage(items) /\ place'[r] = "create"
        \/ mine = {} /\ ~LastPage(items) /\ place'[r] = "find" /\ page'[r] = n + 1
    BY <1>1 DEF FindPage, Goto
  <1>7. \A i \in OfArgus : i <= n * PerPage => i - Before(n) \in mine
    BY <1>3, <1>4, <1>5
  <1>8. \A i \in mine : Before(n) + i \in OfArgus /\ items[i] = comments[Before(n) + i]
    BY <1>3, <1>4 DEF OfArgus
  <1>9. mine \subseteq Nat
    BY <1>4
  <1> HIDE DEF mine, items, n
  <1>10. CASE mine # {}
    <2>1. PICK k \in mine : TRUE
      BY <1>10
    <2>2. \A i \in mine : i = k
      BY <1>2, <1>8, <1>9 DEF Looked
    <2>3. (CHOOSE i \in mine : \A j \in mine : i <= j) = k
      <3>1. k <= k
        BY <1>9, <2>1
      <3>2. \A i : (i \in mine /\ \A j \in mine : i <= j) => i = k
        BY <2>2
      <3>3. k \in mine /\ \A j \in mine : k <= j
        BY <2>1, <2>2, <3>1
      <3> QED
        BY <3>2, <3>3, Zenon
    <2>4. target'[r] = comments[Before(n) + k].id /\ place'[r] = "update"
      BY <1>6, <1>8, <1>10, <2>3
    <2> QED
      BY <1>8, <2>4
  <1>11. CASE mine = {} /\ LastPage(items)
    <2>1. OfArgus = {}
      BY <1>2, <1>3, <1>5, <1>7, <1>11
    <2> QED
      BY <1>6, <1>11, <2>1
  <1>12. CASE mine = {} /\ ~LastPage(items)
    <2>1. \A i \in OfArgus : i > Before(page'[r])
      BY <1>2, <1>5, <1>6, <1>7, <1>12
    <2> QED
      BY <1>6, <1>12, <2>1
  <1> QED
    BY <1>10, <1>11, <1>12

LEMMA LookedStep == Inv /\ ListShapes /\ Writes /\ [Next]_vars => (~raced' => Looked')
  <1> SUFFICES ASSUME Inv, ListShapes, Writes, [Next]_vars, ~raced'
               PROVE  Looked'
    OBVIOUS
  <1>1. ~raced
    BY DEF Next, Push, Pin, CompareFiles, CompareFails, ListPage, ListFails, Judge, ForWrites,
       FindPage, UpdateComment, CreateComment, SetStatus, OthersComment, OthersDelete, seen, vars
  <1>2. CommentShapes /\ Looked /\ Shapes
    BY <1>1 DEF Writes, Inv
  <1>3. ASSUME NEW r \in Run, RunStep(r), place[r] \in Posting
        PROVE  \A t \in Run \ {r} : place'[t] \notin Posting
    BY <1>2, <1>3, OthersKept DEF Looked
  <1>4. ASSUME NEW r \in Run,
               \/ Pin(r) \/ CompareFiles(r) \/ CompareFails(r) \/ ListPage(r) \/ ListFails(r)
               \/ Judge(r) \/ SetStatus(r)
        PROVE  Looked'
    <2>1. /\ UNCHANGED <<comments, target>> /\ place'[r] \notin Posting
      BY <1>2, <1>4
      DEF Pin, CompareFiles, CompareFails, ListPage, ListFails, Judge, SetStatus, Exit, Goto,
          Shapes, Posting, github, said
    <2>2. \A t \in Run \ {r} : place'[t] = place[t] /\ page'[t] = page[t]
      BY <1>2, <1>4, OthersKept DEF RunStep
    <2>3. OfArgus' = OfArgus
      BY <2>1 DEF OfArgus
    <2> QED
      BY <1>2, <2>1, <2>2, <2>3, LookedKept
  <1>5. ASSUME NEW r \in Run, ForWrites(r)
        PROVE  Looked'
    <2>1. UNCHANGED <<comments, target>>
      BY <1>5 DEF ForWrites, github, said
    <2>2. OfArgus' = OfArgus
      BY <2>1 DEF OfArgus
    <2>3. \A t \in Run \ {r} : place'[t] = place[t] /\ page'[t] = page[t]
      BY <1>2, <1>5, OthersKept DEF RunStep
    <2>4. CASE place'[r] = "exited"
      BY <1>2, <2>1, <2>2, <2>3, <2>4, LookedKept DEF Posting
    <2>5. CASE place'[r] # "exited"
      <3>1. /\ place'[r] = "find" /\ page'[r] = 1
            /\ \A q \in Run : place[q] \notin Posting
        BY <1>2, <1>5, <2>5 DEF ForWrites, Exit, Goto, Shapes, ListShapes, Posting
      <3>2. \A i \in OfArgus : i > Before(1)
        <4>1. DOMAIN comments = 1 .. Len(comments) /\ Len(comments) \in Nat
          BY <1>2, LenProperties DEF CommentShapes
        <4> QED
          BY <4>1, PageArithmetic DEF OfArgus
      <3> QED
        BY <1>2, <2>2, <2>3, <3>1, <3>2, LookedAlone DEF Looked
    <2> QED
      BY <2>4, <2>5
  <1>6. ASSUME NEW r \in Run, FindPage(r)
        PROVE  Looked'
    <2>1. comments' = comments /\ place[r] \in Posting
      BY <1>6 DEF FindPage, github, Posting
    <2>2. OfArgus' = OfArgus
      BY <2>1 DEF OfArgus
    <2>3. /\ place'[r] = "find" => \A i \in OfArgus : i > Before(page'[r])
          /\ place'[r] = "create" => OfArgus = {}
          /\ place'[r] = "update" => \E i \in OfArgus : comments[i].id = target'[r]
      BY <1>2, <1>6, PageSearched
    <2> QED
      BY <1>2, <1>3, <1>6, <2>1, <2>2, <2>3, LookedAlone DEF Looked, RunStep
  <1>7. ASSUME NEW r \in Run, UpdateComment(r)
        PROVE  Looked'
    <2>1. /\ place[r] = "update" /\ place'[r] \in {"status", "exited"}
      BY <1>2, <1>7 DEF UpdateComment, AfterPost, Exit, Goto, Shapes
    <2>2. /\ DOMAIN comments' = DOMAIN comments
          /\ \A i \in DOMAIN comments :
               comments'[i].by # comments[i].by => comments[i].id = target[r]
      BY <1>2, <1>7, Updated
    <2>3. \E i \in OfArgus : comments[i].id = target[r]
      BY <1>2, <2>1 DEF Looked
    <2>4. \A i \in DOMAIN comments : comments'[i].by # comments[i].by => i \in OfArgus
      BY <1>2, <2>2, <2>3 DEF CommentShapes, OfArgus
    <2>5. OfArgus' \subseteq OfArgus
      <3> SUFFICES ASSUME NEW i \in DOMAIN comments', comments'[i].by # None
                   PROVE  i \in OfArgus
        BY DEF OfArgus
      <3> QED
        BY <2>2, <2>4 DEF OfArgus
    <2>6. \A i, j \in OfArgus' : i = j
      BY <1>2, <2>5 DEF Looked
    <2> QED
      BY <1>3, <1>7, <2>1, <2>6, LookedAlone DEF RunStep, Posting
  <1>8. ASSUME NEW r \in Run, CreateComment(r)
        PROVE  Looked'
    <2>1. /\ place[r] = "create" /\ place'[r] \in {"status", "exited"}
          /\ raced' = raced /\ target' = target
      BY <1>2, <1>8 DEF CreateComment, AfterPost, Exit, Goto, Shapes, said
    <2>2. OfArgus = {}
      BY <1>2, <2>1 DEF Looked
    <2>3. \A i, j \in OfArgus' : i = j
      <3>1. OfArgus' \in {{}, {Len(comments) + 1}}
        <4>1. CASE comments' = comments
          BY <2>2, <4>1 DEF OfArgus
        <4>2. CASE comments' # comments
          <5>1. comments' = Append(comments, [id |-> nextId, by |-> r]) /\ nextId' = nextId + 1
            BY <1>8, <4>2 DEF CreateComment
          <5> QED
            BY <1>2, <2>1, <2>2, <5>1, Appended
        <4> QED
          BY <4>1, <4>2
      <3> QED
        BY <3>1
    <2> QED
      BY <1>3, <1>8, <2>1, <2>3, LookedAlone DEF RunStep, Posting
  <1>9. CASE OthersComment
    <2>1. /\ comments' = Append(comments, [id |-> nextId, by |-> None]) /\ nextId' = nextId + 1
          /\ raced' = raced /\ UNCHANGED <<target, place, page>>
      BY <1>9 DEF OthersComment, said, seen, reading
    <2>2. OfArgus' = OfArgus /\ \A i \in DOMAIN comments : comments'[i] = comments[i]
      BY <1>2, <2>1, Appended
    <2> QED
      BY <1>2, <2>1, <2>2, LookedKept DEF OfArgus
  <1>10. ASSUME NEW i \in DOMAIN comments, OthersDelete(i)
         PROVE  Looked'
    <2>1. \A q \in Run : place'[q] \notin Posting
      BY <1>10 DEF OthersDelete, Looking, Posting
    <2>2. \A k, l \in OfArgus' : k = l
      BY <1>2, <1>10, Deleted DEF Looked
    <2> QED
      BY <2>1, <2>2 DEF Looked, Posting
  <1>11. ASSUME NEW h \in Commit, Push(h)
         PROVE  Looked'
    <2>1. UNCHANGED <<comments, place, page, target>>
      BY <1>11 DEF Push, reading, said
    <2>2. OfArgus' = OfArgus
      BY <2>1 DEF OfArgus
    <2> QED
      BY <1>2, <2>1, <2>2, LookedKept
  <1>12. CASE UNCHANGED vars
    <2>1. UNCHANGED <<comments, place, page, target>>
      BY <1>12 DEF vars, github, reading, said
    <2>2. OfArgus' = OfArgus
      BY <2>1 DEF OfArgus
    <2> QED
      BY <1>2, <2>1, <2>2, LookedKept
  <1> QED
    BY <1>4, <1>5, <1>6, <1>7, <1>8, <1>9, <1>10, <1>11, <1>12 DEF Next

-----------------------------------------------------------------------------
\* Every reachable state satisfies the invariants of the lists and the comment too.
LEMMA ListsAndWritesHold == Spec => [](Inv /\ ListShapes /\ Lists /\ Writes)
  <1>1. Init => ListShapes /\ Lists /\ Writes
    <2> SUFFICES ASSUME Init
                 PROVE  ListShapes /\ Lists /\ Writes
      OBVIOUS
    <2>1. ListShapes
      BY EmptySeq DEF Init, ListShapes
    <2>2. Lists
      BY DEF Init, Lists
    <2>3. CommentShapes
      <3>1. <<>> \in Seq([id : Nat, by : Run \cup {None}]) /\ DOMAIN <<>> = {}
        BY EmptySeq
      <3>2. comments = <<>>
        BY DEF Init
      <3>3. comments \in Seq([id : Nat, by : Run \cup {None}]) /\ DOMAIN comments = {}
        BY <3>1, <3>2
      <3>4. nextId = 1 /\ raced = FALSE /\ target = [r \in Run |-> 0]
        BY DEF Init
      <3>5. nextId \in Nat \ {0} /\ DOMAIN target = Run
        BY <3>4
      <3>6. raced \in BOOLEAN
        BY <3>4
      <3> QED
        BY <3>3, <3>5, <3>6 DEF CommentShapes
    <2>4. OfArgus = {} /\ \A r \in Run : place[r] = "idle"
      BY DEF Init, OfArgus
    <2> QED
      BY <2>1, <2>2, <2>3, <2>4 DEF Writes, Looked, Posting
  <1>2. Inv /\ ListShapes /\ Lists /\ Writes /\ [Next]_vars =>
          (ListShapes /\ Lists /\ Writes)'
    BY ListShapesStep, ListsStep, CommentShapesStep, LookedStep DEF Writes
  <1> QED
    BY <1>1, <1>2, InvHolds, PTL DEF Spec

\* Every variable keeps its shape; no two comments have the same id, and a list
\* that was read while the head stayed names no file twice.
THEOREM TypeCorrect == Spec => []TypeOK
  <1>1. Inv /\ ListShapes /\ Lists /\ Writes => TypeOK
    <2> SUFFICES ASSUME Inv, ListShapes, Lists, Writes
                 PROVE  TypeOK
      OBVIOUS
    <2>1. \A i \in DOMAIN comments : comments[i].by \in Run \cup {None} /\ comments[i].id < nextId
      <3>1. comments \in Seq(Comment) /\ DOMAIN comments = 1 .. Len(comments)
        BY LenProperties DEF Writes, CommentShapes, Comment
      <3>2. \A i \in DOMAIN comments : comments[i] \in Comment
        BY <3>1, ElementOfSeq
      <3> QED
        BY <3>2 DEF Writes, CommentShapes, Comment
    <2>2. \A r \in Run : Elems(got[r]) \subseteq File /\ tries[r] \in 0 .. 2
      <3> SUFFICES ASSUME NEW r \in Run
                   PROVE  Elems(got[r]) \subseteq File /\ tries[r] \in 0 .. 2
        OBVIOUS
      <3>1. got[r] \in Seq(File) /\ tries[r] \in 0 .. 2
        BY DEF ListShapes
      <3>2. \A i \in DOMAIN got[r] : got[r][i] \in File
        BY <3>1, LenProperties, ElementOfSeq
      <3> QED
        BY <3>1, <3>2 DEF Elems
    <2>3. ASSUME NEW r \in Run \ moved, NEW i \in DOMAIN got[r], NEW j \in DOMAIN got[r],
                 got[r][i] = got[r][j]
          PROVE  i = j
      <3>1. place[r] # "idle"
        BY <2>3 DEF ListShapes
      <3>2. Listed(r) /\ head[r] \in Commit
        BY <3>1 DEF Lists, Inv, Judging
      <3>3. PICK n \in 0 .. Len(ChangedOf[head[r]]) :
              got[r] = SubSeq(ChangedOf[head[r]], 1, n)
        BY <3>2 DEF Listed
      <3>4. /\ DOMAIN got[r] = 1 .. n /\ \A k \in 1 .. n : got[r][k] = ChangedOf[head[r]][k]
            /\ 1 .. n \subseteq DOMAIN ChangedOf[head[r]]
        BY <3>2, <3>3, ChangedType, BeginningOf, LenProperties
      <3>5. \A k, l \in DOMAIN ChangedOf[head[r]] :
              ChangedOf[head[r]][k] = ChangedOf[head[r]][l] => k = l
        BY <3>2, ClientAssumption
      <3> QED
        BY <2>3, <3>4, <3>5
    <2>4. /\ prHead \in Commit /\ verdict \in [Run -> {"none", "APPROVE", "BLOCKING"}]
          /\ place \in [Run -> {"idle", "compare", "list", "judge", "post", "find", "update",
                                "create", "status", "exited"}]
          /\ \A r \in Run : head[r] \in Commit \/ place[r] = "idle"
      BY DEF Inv, Shapes, Judging
    <2>5. /\ raced \in BOOLEAN
          /\ \A i, j \in DOMAIN comments : comments[i].id = comments[j].id => i = j
      BY DEF Writes, CommentShapes
    <2>6. /\ unconfirmed \cup scoped \cup moved \subseteq Run
          /\ exit \in [Run -> {"none", "ok", "failed"}]
      BY DEF ListShapes
    <2> QED
      BY <2>1, <2>2, <2>3, <2>4, <2>5, <2>6 DEF TypeOK
  <1> QED
    BY <1>1, ListsAndWritesHold, PTL

\* _fetch_full_pr_changed_files "fails CLOSED": with lists of any length, caps and
\* pages of any size and calls that fail at any point, a head that changes the
\* bench configuration is not approved, if the head stays while it is listed.
THEOREM GuardHolds == Spec => []BenchGuardHolds
  <1>1. Inv /\ ListShapes /\ Lists /\ Writes => BenchGuardHolds
    BY DEF Inv, Judging, Lists, Listed, BenchGuardHolds
  <1> QED
    BY <1>1, ListsAndWritesHold, PTL

\* upsert_pr_comment: any number of runs over any number of comments keep one
\* comment of Argus, lost answers included, unless two posted at a time or a
\* comment was deleted while one was looking.
THEOREM CommentIsOne == Spec => []OneComment
  <1>1. Inv /\ ListShapes /\ Lists /\ Writes => OneComment
    <2> SUFFICES ASSUME Writes, ~raced
                 PROVE  Cardinality(OfArgus) <= 1
      BY DEF OneComment, OfArgus
    <2>1. \A i, j \in OfArgus : i = j
      BY DEF Writes, Looked
    <2>2. CASE OfArgus = {}
      BY <2>2, FS_EmptySet
    <2>3. ASSUME NEW k \in OfArgus
          PROVE  Cardinality(OfArgus) <= 1
      <3>1. OfArgus = {k}
        BY <2>1, <2>3
      <3> QED
        BY <3>1, FS_Singleton
    <2> QED
      BY <2>2, <2>3
  <1> QED
    BY <1>1, ListsAndWritesHold, PTL

=============================================================================
