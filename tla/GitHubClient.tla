----------------------------- MODULE GitHubClient ---------------------------
(***************************************************************************)
(* argus/github_client.py with the callers of its reads and writes:        *)
(* _fetch_full_pr_changed_files of argus/graph.py, _run_review and         *)
(* _post_review of argus/cli.py.                                           *)
(*                                                                         *)
(* Runs of the CLI review heads of one pull request.  Each pins a head,    *)
(* lists the changed files, comes to a verdict, and posts it: as the one   *)
(* comment that carries the hidden marker, and as a status of the commit.  *)
(* Lists come in pages, and GitHub's state moves between any two calls.    *)
(***************************************************************************)
EXTENDS Integers, Sequences, FiniteSets

CONSTANTS
  Run, Commit,
  File, Bench,    \* paths, and those the bench configuration guard watches
  ChangedOf,      \* the list of files each head changes
  CompareCap,     \* files the compare endpoint returns at most: 300
  MaxFiles,       \* files the other endpoint lists at most: 3000
  PerPage,        \* 100
  Token,          \* "write", "read_only" or "none"
  MaxOthers,      \* bound: others comment among the first comments only
  None

ASSUME ClientAssumption ==
  /\ CompareCap \in Nat \ {0} /\ PerPage \in Nat \ {0}
  /\ MaxFiles \in Nat /\ MaxFiles % PerPage = 0 /\ MaxOthers \in Nat
  /\ ChangedOf \in [Commit -> Seq(File)]
  /\ \A h \in Commit : \A i, j \in DOMAIN ChangedOf[h] : ChangedOf[h][i] = ChangedOf[h][j] => i = j
  /\ Token \in {"write", "read_only", "none"}
  /\ None \notin Commit \cup Run

VARIABLES
  prHead,      \* head of the pull request
  comments,    \* its comments: an id, and the run that wrote it last, or None
  nextId,
  status,      \* argus/review of each commit: the state, and the run that set it
  place,       \* where each run stands
  head,        \* the head it pinned
  tries,       \* compare calls that failed
  page,        \* of the list it is reading
  got,         \* files it has
  unconfirmed, \* runs whose list could not be verified
  verdict,
  scoped,      \* runs about to post whose response carries a scope receipt or a halt
  target,      \* id of the comment to update
  moved,       \* runs that saw the head move while they read
  raced,       \* a comment came or went while a run was looking for its own
  exit

github == <<prHead, comments, nextId, status>>
reading == <<head, tries, page, got, unconfirmed>>
said == <<verdict, scoped, target>>
seen == <<moved, raced>>
vars == <<github, place, reading, said, seen, exit>>

Goto(r, p) == place' = [place EXCEPT ![r] = p]
Elems(s) == { s[i] : i \in DOMAIN s }
FirstOf(s, n) == SubSeq(s, 1, IF Len(s) < n THEN Len(s) ELSE n)

\* One page of a list.
PageOf(s, n) == SubSeq(s, (n - 1) * PerPage + 1,
                       IF Len(s) < n * PerPage THEN Len(s) ELSE n * PerPage)

\* Mutant: a full page is taken for the last one.
LastPageShort(items) == Len(items) <= PerPage

\* _paginate, find_argus_comment: an empty or a short page ends the list.
LastPage(items) == Len(items) < PerPage

Exit(r, code) ==
  /\ Goto(r, "exited")
  /\ exit' = [exit EXCEPT ![r] = code]

-----------------------------------------------------------------------------
(* Reads *)

Push(h) ==
  /\ h # prHead
  /\ prHead' = h
  /\ moved' = moved \cup { r \in Run : place[r] \in {"compare", "list"} }
  /\ UNCHANGED <<comments, nextId, status, place, reading, said, raced, exit>>

\* get_pull_request: the head this run reviews.
Pin(r) ==
  /\ place[r] = "idle"
  /\ head' = [head EXCEPT ![r] = prHead]
  /\ Goto(r, "compare")
  /\ UNCHANGED <<github, tries, page, got, unconfirmed, said, seen, exit>>

\* get_compare_files of the base and the pinned head; a list at the cap may be
\* cut off, and the pull request's own list is read instead.
CompareFiles(r) ==
  LET changed == ChangedOf[head[r]] IN
  /\ place[r] = "compare"
  /\ got' = [got EXCEPT ![r] = FirstOf(changed, CompareCap)]
  /\ IF Len(changed) >= CompareCap
     THEN Goto(r, "list") /\ page' = [page EXCEPT ![r] = 1]
     ELSE Goto(r, "judge") /\ UNCHANGED page
  /\ UNCHANGED <<github, head, tries, unconfirmed, said, seen, exit>>

\* Twice, then the files of the round's diff, as far as it goes, unconfirmed.
CompareFails(r) ==
  /\ place[r] = "compare"
  /\ tries' = [tries EXCEPT ![r] = @ + 1]
  /\ IF tries[r] = 0
     THEN UNCHANGED <<place, got, unconfirmed>>
     ELSE /\ \E n \in 0 .. Len(ChangedOf[head[r]]) :
               got' = [got EXCEPT ![r] = SubSeq(ChangedOf[head[r]], 1, n)]
          /\ unconfirmed' = unconfirmed \cup {r}
          /\ Goto(r, "judge")
  /\ UNCHANGED <<github, head, page, said, seen, exit>>

\* Mutant: what the pages were cut off at is not told.
ListedAllOf(files) == TRUE

\* is_truncated of get_pr_files
ListedAll(files) == Len(files) < MaxFiles

\* Mutant: the pages are added to the list of the compare endpoint.
BeforePageAll(r) == got[r]

BeforePage(r) == IF page[r] = 1 THEN <<>> ELSE got[r]

\* get_pr_files lists the pull request as it is now; the list replaces the
\* one of the compare endpoint when it is complete.
ListPage(r) ==
  LET items == PageOf(ChangedOf[prHead], page[r])
      files == FirstOf(BeforePage(r) \o items, MaxFiles) IN
  /\ place[r] = "list"
  /\ got' = [got EXCEPT ![r] = files]
  /\ IF LastPage(items) \/ Len(files) = MaxFiles
     THEN /\ Goto(r, "judge")
          /\ unconfirmed' = IF ListedAll(files) THEN unconfirmed ELSE unconfirmed \cup {r}
          /\ UNCHANGED page
     ELSE /\ page' = [page EXCEPT ![r] = @ + 1]
          /\ UNCHANGED <<place, unconfirmed>>
  /\ UNCHANGED <<github, head, tries, said, seen, exit>>

\* The list of the compare endpoint stays, and is known to be cut off.
ListFails(r) ==
  /\ place[r] = "list"
  /\ got' = [got EXCEPT ![r] = FirstOf(ChangedOf[head[r]], CompareCap)]
  /\ unconfirmed' = unconfirmed \cup {r}
  /\ Goto(r, "judge")
  /\ UNCHANGED <<github, head, tries, page, said, seen, exit>>

\* The verdict, with the bench configuration guard; an approval has its scope
\* receipt, and a rejection by a verified rule was made before there was one.
Judge(r) ==
  /\ place[r] = "judge"
  /\ \E v \in {"APPROVE", "BLOCKING"}, s \in BOOLEAN :
       /\ v = "APPROVE" => s
       /\ v = "APPROVE" => r \notin unconfirmed /\ Elems(got[r]) \cap Bench = {}
       /\ verdict' = [verdict EXCEPT ![r] = v]
       /\ scoped' = IF s THEN scoped \cup {r} ELSE scoped
  /\ got' = [got EXCEPT ![r] = <<>>]
  /\ tries' = [tries EXCEPT ![r] = 0]
  /\ page' = [page EXCEPT ![r] = 0]
  /\ unconfirmed' = unconfirmed \ {r}
  /\ Goto(r, "post")
  /\ UNCHANGED <<github, head, target, seen, exit>>

-----------------------------------------------------------------------------
(* Writes: --post --commit-status *)

\* for_writes: GITHUB_TOKEN, or GITHUB_TOKEN_RO.
ForWrites(r) ==
  /\ place[r] = "post"
  /\ IF Token = "none"
     THEN Exit(r, "failed") /\ UNCHANGED <<page, raced>>
     ELSE /\ Goto(r, "find")
          /\ page' = [page EXCEPT ![r] = 1]
          /\ raced' = (raced \/ \E q \in Run : place[q] \in {"find", "create", "update"})
          /\ UNCHANGED exit
  /\ UNCHANGED <<github, head, tries, got, unconfirmed, said, moved>>

\* find_argus_comment
FindPage(r) ==
  LET items == PageOf(comments, page[r])
      mine == { i \in DOMAIN items : items[i].by # None } IN
  /\ place[r] = "find"
  /\ \/ /\ mine # {}
        /\ LET first == CHOOSE i \in mine : \A j \in mine : i <= j IN
             target' = [target EXCEPT ![r] = items[first].id]
        /\ Goto(r, "update")
        /\ UNCHANGED page
     \/ /\ mine = {} /\ LastPage(items)
        /\ Goto(r, "create")
        /\ UNCHANGED <<target, page>>
     \/ /\ mine = {} /\ ~LastPage(items)
        /\ page' = [page EXCEPT ![r] = @ + 1]
        /\ UNCHANGED <<target, place>>
  /\ UNCHANGED <<github, head, tries, got, unconfirmed, verdict, scoped, seen, exit>>

\* _post_review leaves on any error.
AfterPost(r, ok) ==
  IF ok THEN Goto(r, "status") /\ exit' = exit ELSE Exit(r, "failed")

Taken == Token = "write"

\* upsert_pr_comment: PATCH.  What GitHub took may still look like an error.
UpdateComment(r) ==
  LET at == { i \in DOMAIN comments : comments[i].id = target[r] } IN
  /\ place[r] = "update"
  /\ \E ok \in BOOLEAN :
       /\ ok => at # {} /\ Taken
       /\ AfterPost(r, ok)
       /\ \/ /\ at # {} /\ Taken
             /\ comments' = [i \in DOMAIN comments |->
                               IF i \in at THEN [comments[i] EXCEPT !.by = r] ELSE comments[i]]
          \/ ~ok /\ UNCHANGED comments
  /\ target' = [target EXCEPT ![r] = 0]
  /\ UNCHANGED <<prHead, nextId, status, reading, verdict, scoped, moved, raced>>

\* upsert_pr_comment: POST.
CreateComment(r) ==
  /\ place[r] = "create"
  /\ \E ok \in BOOLEAN :
       /\ ok => Taken
       /\ AfterPost(r, ok)
       /\ \/ /\ Taken
             /\ comments' = Append(comments, [id |-> nextId, by |-> r])
             /\ nextId' = nextId + 1
          \/ ~ok /\ UNCHANGED <<comments, nextId>>
  /\ UNCHANGED <<prHead, status, reading, said, moved, raced>>

\* Mutant: the status goes to the head the pull request has by now.
StatusShaNow(r) == prHead

\* The pinned head of the scope or the halt; without one the head is read again.
StatusSha(r) == IF r \in scoped THEN head[r] ELSE prHead

SetStatus(r) ==
  /\ place[r] = "status"
  /\ \E ok \in BOOLEAN :
       /\ ok => Taken
       /\ Exit(r, IF ok THEN "ok" ELSE "failed")
       /\ \/ /\ Taken
             /\ status' = [status EXCEPT ![StatusSha(r)] =
                  [state |-> IF verdict[r] = "APPROVE" THEN "success" ELSE "failure", by |-> r]]
          \/ ~ok /\ UNCHANGED status
  /\ UNCHANGED <<prHead, comments, nextId, reading, said, seen>>

\* Somebody else comments, or deletes a comment.
Looking == \E r \in Run : place[r] \in {"find", "create", "update"}

OthersComment ==
  /\ nextId <= MaxOthers
  /\ comments' = Append(comments, [id |-> nextId, by |-> None])
  /\ nextId' = nextId + 1
  /\ UNCHANGED <<prHead, status, place, reading, said, seen, exit>>

OthersDelete(i) ==
  /\ comments' = SubSeq(comments, 1, i - 1) \o SubSeq(comments, i + 1, Len(comments))
  /\ raced' = (raced \/ Looking)
  /\ UNCHANGED <<prHead, nextId, status, place, reading, said, moved, exit>>

-----------------------------------------------------------------------------
Init ==
  /\ prHead \in Commit
  /\ comments = <<>> /\ nextId = 1
  /\ status = [h \in Commit |-> [state |-> "none", by |-> None]]
  /\ place = [r \in Run |-> "idle"]
  /\ head = [r \in Run |-> None]
  /\ tries = [r \in Run |-> 0]
  /\ page = [r \in Run |-> 0]
  /\ got = [r \in Run |-> <<>>]
  /\ unconfirmed = {} /\ scoped = {} /\ moved = {}
  /\ verdict = [r \in Run |-> "none"]
  /\ target = [r \in Run |-> 0]
  /\ raced = FALSE
  /\ exit = [r \in Run |-> "none"]

Next ==
  \/ \E h \in Commit : Push(h)
  \/ \E r \in Run :
       \/ Pin(r) \/ CompareFiles(r) \/ CompareFails(r) \/ ListPage(r) \/ ListFails(r)
       \/ Judge(r) \/ ForWrites(r) \/ FindPage(r)
       \/ UpdateComment(r) \/ CreateComment(r) \/ SetStatus(r)
  \/ OthersComment
  \/ \E i \in DOMAIN comments : OthersDelete(i)

Spec == Init /\ [][Next]_vars

-----------------------------------------------------------------------------
(* Properties *)

\* Every variable keeps its shape, no two comments have the same id, and a list
\* that was read while the head stayed names no file twice.
TypeOK ==
  /\ prHead \in Commit /\ raced \in BOOLEAN
  /\ \A i \in DOMAIN comments : comments[i].by \in Run \cup {None} /\ comments[i].id < nextId
  /\ \A i, j \in DOMAIN comments : comments[i].id = comments[j].id => i = j
  /\ place \in [Run -> {"idle", "compare", "list", "judge", "post", "find", "update", "create",
                        "status", "exited"}]
  /\ \A r \in Run : head[r] \in Commit \/ place[r] = "idle"
  /\ \A r \in Run : Elems(got[r]) \subseteq File /\ tries[r] \in 0 .. 2
  /\ \A r \in Run \ moved : \A i, j \in DOMAIN got[r] : got[r][i] = got[r][j] => i = j
  /\ unconfirmed \cup scoped \cup moved \subseteq Run
  /\ verdict \in [Run -> {"none", "APPROVE", "BLOCKING"}]
  /\ exit \in [Run -> {"none", "ok", "failed"}]

\* _fetch_full_pr_changed_files "fails CLOSED": no head that changes the bench
\* configuration is approved, however its list of files was cut off or failed,
\* as long as the head of the pull request stays while the list is read.
BenchGuardHolds ==
  \A r \in Run \ moved : verdict[r] = "APPROVE" => Elems(ChangedOf[head[r]]) \cap Bench = {}

\* "a re-read head could approve an unreviewed commit": a commit with a success
\* status was reviewed, and approved, by the run that set it.
ApprovalIsReviewed ==
  \A h \in Commit : status[h].state = "success" =>
    head[status[h].by] = h /\ verdict[status[h].by] = "APPROVE"

\* upsert_pr_comment, "rather than stacking a new one each round": there is one
\* comment of Argus, over lost responses and runs after runs, unless two runs
\* posted at a time or a comment was deleted while one was looking.
OneComment ==
  ~raced => Cardinality({ i \in DOMAIN comments : comments[i].by # None }) <= 1

\* "Post to the head that was reviewed": so is a failure status.
FailureIsReviewed ==
  \A h \in Commit : status[h].state = "failure" => head[status[h].by] = h

=============================================================================
