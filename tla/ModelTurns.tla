------------------------------ MODULE ModelTurns ----------------------------
(***************************************************************************)
(* argus/gemini_runner.py, argus/openai_runner.py, argus/gemini_cache.py:  *)
(* reviewer sessions of the Gemini and OpenAI platforms.                   *)
(*                                                                         *)
(* A session asks the model in turns; each reply holds tool calls, which   *)
(* are executed one by one, or none, which ends the session.  All Gemini   *)
(* sessions of one role, prompt and model share a cached prefix: a cache   *)
(* at the provider, and a record of its name on disk under a file lock,    *)
(* read and written by threads that a session's timeout does not stop.     *)
(***************************************************************************)
EXTENDS Naturals, Sequences

CONSTANTS
  Session,
  Benches,          \* the platforms the sessions may have, as one bench resolves them
  MaxTurns,         \* the turn budget of each: _MAX_TURNS_GEMINI, _MAX_TURNS_OPENAI
  MaxCaches,        \* bound: caches the provider ever makes
  None

Platform == {"gemini", "openai", "claude"}

ASSUME TurnsAssumption ==
  /\ MaxTurns \in [Session -> Nat \ {0}] /\ MaxCaches \in Nat
  /\ Benches \subseteq [Session -> Platform]
  /\ None \notin Nat /\ None \notin Session

VARIABLES
  platform,   \* of each session; those of the Claude platform are not here
  place,      \* where each session stands
  turn,       \* its turn, from 0
  retried,    \* sessions that were started over
  reply,      \* the tool calls of the session's last reply
  at,         \* how many of them were executed
  cached,     \* cached_content_name of each session
  progress,   \* replies and tool calls of each session, over both attempts
  sink,       \* findings in the sink of the session's attempt
  outcome,    \* the result a session returned
  reported,   \* findings its model ever reported to it
  job,        \* what a session's thread does with the cache record
  record,     \* the record on disk: the name of a cache, and whether it looks unexpired
  lock,       \* the session whose thread holds the lock of the record
  live,       \* caches the provider still has
  made,       \* number of caches it made
  lost        \* records that were removed, expired or never written

asking == <<platform, place, turn, retried, reply, at, progress, sink, outcome, reported>>
keeper == <<record, lock, live, made, lost>>
vars == <<asking, cached, job, keeper>>

\* Bound: the replies with tool calls.  A report_finding, a finish_review, and
\* either with an argument that makes it fail.
Replies == { <<"report", "finish">>, <<"bad_finish", "bad_report">> }

Gemini == { s \in Session : platform[s] = "gemini" }
OpenAI == { s \in Session : platform[s] = "openai" }

Failure == {"none", "timeout", "worker_crashed", "turn_budget_exhausted"}

NoResult == [failure |-> "none", found |-> 0, calls |-> 0, replies |-> 0]
Running(s) == place[s] \notin {"idle", "ended"}
Goto(s, p) == place' = [place EXCEPT ![s] = p]

\* _build_result; a failed Gemini session has no text but keeps its accounts.
ResultOf(s, failure) ==
  [failure |-> failure,
   found |-> IF s \in Gemini /\ failure \in {"timeout", "worker_crashed"} THEN 0 ELSE sink'[s],
   calls |-> progress'[s].calls, replies |-> progress'[s].replies]

End(s, failure) ==
  /\ Goto(s, "ended")
  /\ outcome' = [outcome EXCEPT ![s] = ResultOf(s, failure)]

-----------------------------------------------------------------------------
(* The cache record: GeminiCacheKeeper, run in a thread *)

\* is_expired compares the local clock; the provider's cache may be gone before.
RecordExpires ==
  /\ record.name # None /\ record.fresh
  /\ record' = [record EXCEPT !.fresh = FALSE]
  /\ lost' = lost + 1
  /\ UNCHANGED <<asking, cached, job, lock, live, made>>

\* Deleted by hand, or its time ran out.
CacheDies(c) ==
  /\ c \in live
  /\ live' = live \ {c}
  /\ UNCHANGED <<asking, cached, job, record, lock, made, lost>>

\* The session that waits for its thread goes on; one that timed out is gone.
HandOver(s, from, to, name) ==
  IF place[s] = from
  THEN Goto(s, to) /\ cached' = [cached EXCEPT ![s] = name]
  ELSE UNCHANGED <<place, cached>>

AskingKept == UNCHANGED <<platform, turn, retried, reply, at, progress, sink, outcome, reported>>

\* get_or_create: an unexpired record is handed out as it is.
UseRecord(s) ==
  /\ job[s] = "activate" /\ lock = None
  /\ record.name # None /\ record.fresh
  /\ HandOver(s, "activate", "request", record.name)
  /\ job' = [job EXCEPT ![s] = "none"]
  /\ AskingKept /\ UNCHANGED keeper

\* Mutant: the record is read before the lock is taken.
FindNoRecordUnlocked(s) ==
  /\ job[s] = "activate"
  /\ ~(record.name # None /\ record.fresh)
  /\ lock' = s
  /\ job' = [job EXCEPT ![s] = "create"]
  /\ UNCHANGED <<asking, cached, record, live, made, lost>>

\* get_or_create: no record, or an expired one; the lock is held from here on.
FindNoRecord(s) ==
  /\ job[s] = "activate" /\ lock = None
  /\ ~(record.name # None /\ record.fresh)
  /\ lock' = s
  /\ job' = [job EXCEPT ![s] = "create"]
  /\ UNCHANGED <<asking, cached, record, live, made, lost>>

\* caches.create, then _write_record: mkstemp and os.replace.
CreateCache(s) ==
  /\ job[s] = "create"
  /\ made < MaxCaches
  /\ made' = made + 1
  /\ live' = live \cup {made'}
  /\ \/ /\ record' = [name |-> made', fresh |-> TRUE]
        /\ lost' = lost
        /\ HandOver(s, "activate", "request", made')
     \/ /\ record' = record
        /\ lost' = lost + 1
        /\ HandOver(s, "activate", "request", None)
  /\ lock' = None
  /\ job' = [job EXCEPT ![s] = "none"]
  /\ AskingKept

\* Mutant: a refused creation returns without the unlock.
CreateFailsLocked(s) ==
  /\ job[s] = "create"
  /\ HandOver(s, "activate", "request", None)
  /\ job' = [job EXCEPT ![s] = "none"]
  /\ AskingKept /\ UNCHANGED <<record, lock, live, made, lost>>

\* _maybe_activate_cache never raises: the session goes on without a cache.
CreateFails(s) ==
  /\ job[s] = "create"
  /\ HandOver(s, "activate", "request", None)
  /\ lock' = None
  /\ job' = [job EXCEPT ![s] = "none"]
  /\ AskingKept /\ UNCHANGED <<record, live, made, lost>>

\* _invalidate_cache_record: whatever record is there is removed.
InvalidateRecord(s) ==
  /\ job[s] = "invalidate" /\ lock = None
  /\ record' = [name |-> None, fresh |-> FALSE]
  /\ lost' = IF record.name # None /\ record.fresh THEN lost + 1 ELSE lost
  /\ HandOver(s, "invalidate", "uncached", None)
  /\ job' = [job EXCEPT ![s] = "none"]
  /\ AskingKept /\ UNCHANGED <<lock, live, made>>

\* The lock file does not open, or the record cannot be read or removed: neither
\* function raises, and the record stays.
RecordUnreachable(s) ==
  /\ job[s] \in {"activate", "invalidate"}
  /\ HandOver(s, job[s], IF job[s] = "activate" THEN "request" ELSE "uncached", None)
  /\ job' = [job EXCEPT ![s] = "none"]
  /\ AskingKept /\ UNCHANGED keeper

-----------------------------------------------------------------------------
(* A session: run_session_gemini, run_session_openai *)

\* _run_turns up to the loop; the first attempt and the second.
Start(s) ==
  /\ place[s] \in {"idle", "cooldown"} /\ platform[s] # "claude"
  /\ turn' = [turn EXCEPT ![s] = 0]
  /\ sink' = [sink EXCEPT ![s] = 0]
  /\ IF s \in Gemini
     THEN Goto(s, "activate") /\ job' = [job EXCEPT ![s] = "activate"]
     ELSE Goto(s, "request") /\ job' = job
  /\ cached' = [cached EXCEPT ![s] = None]
  /\ UNCHANGED <<platform, retried, reply, at, progress, outcome, reported, keeper>>

CacheGone(s) == cached[s] # None /\ cached[s] \notin live

\* Mutant: started over although the model has replied.
RestartAnyway(s, e) == s \in Gemini /\ e = "transient" /\ s \notin retried

\* _run_turns_with_retry and _retry_decision: a 429 without a daily quota or a
\* broken connection, before any reply.
MayRestart(s, e) ==
  /\ s \in Gemini /\ e = "transient" /\ s \notin retried
  /\ progress[s].replies = 0

\* The handlers of run_session_gemini and of the OpenAI loop.
Raise(s, e) ==
  \/ /\ MayRestart(s, e)
     /\ retried' = retried \cup {s}
     /\ Goto(s, "cooldown")
     /\ UNCHANGED outcome
  \/ /\ End(s, IF e = "http_timeout" THEN "timeout" ELSE "worker_crashed")
     /\ UNCHANGED retried

\* Why a request can fail: quota or network, a definite refusal, 400 without a
\* field, the HTTP client's own timeout; a cache that is gone.
ErrorsOf(s) ==
  {"transient", "fatal", "bad_request", "http_timeout"}
    \cup (IF CacheGone(s) THEN {"cache_invalid"} ELSE {})

\* _is_cache_invalid_error
FallsBack(s, e) == e = "cache_invalid"

RequestFails(s) ==
  /\ place[s] = "request"
  /\ UNCHANGED <<platform, turn, reply, at, progress, sink, reported, cached, keeper>>
  /\ \E e \in ErrorsOf(s) :
       /\ \/ /\ FallsBack(s, e)
             /\ Goto(s, "invalidate")
             /\ job' = [job EXCEPT ![s] = "invalidate"]
             /\ UNCHANGED <<retried, outcome>>
          \/ /\ ~FallsBack(s, e) /\ e = "bad_request" /\ s \in Gemini
             /\ Goto(s, "again")
             /\ UNCHANGED <<retried, outcome, job>>
          \/ /\ ~FallsBack(s, e) /\ ~(e = "bad_request" /\ s \in Gemini)
             /\ Raise(s, e)
             /\ UNCHANGED job

\* The same request once more, after a 400 or without its cache: no third one.
SecondRequestFails(s) ==
  /\ place[s] \in {"again", "uncached"}
  /\ UNCHANGED <<platform, turn, reply, at, progress, sink, reported, cached, job, keeper>>
  /\ \E e \in ErrorsOf(s) :
       /\ Raise(s, e)

CountReply(s) == progress' = [progress EXCEPT ![s].replies = @ + 1]
Answered(s) == place[s] \in {"request", "again", "uncached"} /\ ~CacheGone(s)

\* function_calls of the reply.
ReplyWithCalls(s) ==
  /\ Answered(s)
  /\ \E calls \in Replies : reply' = [reply EXCEPT ![s] = calls]
  /\ at' = [at EXCEPT ![s] = 0]
  /\ CountReply(s)
  /\ Goto(s, "tools")
  /\ UNCHANGED <<platform, turn, retried, sink, outcome, reported, cached, job, keeper>>

\* No calls: _parse_text_findings recovers what the text holds, and the loop ends.
ReplyWithText(s) ==
  /\ Answered(s)
  /\ CountReply(s)
  /\ \E n \in 0 .. 1 :
       /\ sink' = [sink EXCEPT ![s] = @ + n]
       /\ reported' = [reported EXCEPT ![s] = @ + n]
  /\ reply' = [reply EXCEPT ![s] = <<>>]
  /\ End(s, "none")
  /\ UNCHANGED <<platform, turn, retried, at, cached, job, keeper>>

\* _detect_degraded_response: refused, incomplete or failed.
ReplyDegraded(s) ==
  /\ Answered(s) /\ s \in OpenAI
  /\ CountReply(s)
  /\ sink' = sink
  /\ End(s, "worker_crashed")
  /\ UNCHANGED <<platform, turn, retried, reply, at, reported, cached, job, keeper>>

\* The call is counted, and goes to a thread.
BeginCall(s) ==
  /\ place[s] = "tools"
  /\ progress' = [progress EXCEPT ![s].calls = @ + 1]
  /\ Goto(s, "tool")
  /\ UNCHANGED <<platform, turn, retried, reply, at, sink, outcome, reported, cached, job, keeper>>

\* Mutant: whatever finish_review returns, it ends the session.
FinishesAnyway(call) == call \in {"finish", "bad_finish"}

\* is_error of _execute_tool_call
Finishes(call) == call = "finish"

\* Mutant: one turn more than the budget.
BudgetOffByOne(s) == turn[s] = MaxTurns[s]

\* The for loop is used up.
BudgetSpent(s) == turn[s] + 1 = MaxTurns[s]

\* report_finding records before it formats: a description that is no text is
\* recorded and reported back as an error.
EndCall(s) ==
  LET call == reply[s][at[s] + 1]
      n == IF call \in {"report", "bad_report"} THEN 1 ELSE 0
      last == at[s] + 1 = Len(reply[s])
      finished == \E i \in DOMAIN reply[s] : Finishes(reply[s][i]) IN
  /\ place[s] = "tool"
  /\ sink' = [sink EXCEPT ![s] = @ + n]
  /\ reported' = [reported EXCEPT ![s] = @ + n]
  /\ at' = [at EXCEPT ![s] = @ + 1]
  /\ progress' = progress
  /\ \/ ~last /\ Goto(s, "tools") /\ UNCHANGED <<platform, turn, outcome>>
     \/ last /\ finished /\ End(s, "none") /\ UNCHANGED turn
     \/ /\ last /\ ~finished /\ BudgetSpent(s)
        /\ End(s, "turn_budget_exhausted")
        /\ UNCHANGED turn
     \/ /\ last /\ ~finished /\ ~BudgetSpent(s)
        /\ turn' = [turn EXCEPT ![s] = @ + 1]
        /\ Goto(s, "request")
        /\ UNCHANGED outcome
  /\ UNCHANGED <<platform, retried, reply, cached, job, keeper>>

\* wait_for, asyncio.timeout: wherever the session stands.  Its thread goes on.
Timeout(s) ==
  /\ Running(s)
  /\ UNCHANGED <<progress, sink>>
  /\ End(s, "timeout")
  /\ UNCHANGED <<platform, turn, retried, reply, at, reported, cached, job, keeper>>

-----------------------------------------------------------------------------
Init ==
  /\ platform \in Benches
  /\ place = [s \in Session |-> "idle"]
  /\ turn = [s \in Session |-> 0]
  /\ retried = {}
  /\ reply = [s \in Session |-> <<>>]
  /\ at = [s \in Session |-> 0]
  /\ cached = [s \in Session |-> None]
  /\ progress = [s \in Session |-> [replies |-> 0, calls |-> 0]]
  /\ sink = [s \in Session |-> 0]
  /\ reported = [s \in Session |-> 0]
  /\ outcome = [s \in Session |-> NoResult]
  /\ job = [s \in Session |-> "none"]
  /\ record = [name |-> None, fresh |-> FALSE]
  /\ lock = None /\ live = {} /\ made = 0 /\ lost = 0

ThreadStep(s) ==
  \/ UseRecord(s) \/ FindNoRecord(s) \/ CreateCache(s) \/ CreateFails(s)
  \/ InvalidateRecord(s)

Next ==
  \/ \E s \in Session :
       \/ Start(s) \/ RequestFails(s) \/ SecondRequestFails(s)
       \/ ReplyWithCalls(s) \/ ReplyWithText(s) \/ ReplyDegraded(s)
       \/ BeginCall(s) \/ EndCall(s) \/ Timeout(s) \/ ThreadStep(s)
       \/ RecordUnreachable(s)
  \/ RecordExpires
  \/ \E c \in live : CacheDies(c)

Spec == Init /\ [][Next]_vars

\* Threads run; the HTTP client's timeout ends a creation that hangs.  No disk has
\* to fail: RecordUnreachable is not what a thread may wait for.
FairSpec == Spec /\ \A s \in Session : WF_vars(ThreadStep(s))

-----------------------------------------------------------------------------
(* Properties *)

\* Every variable keeps its shape; a call that is executed is one of its reply, the
\* lock is held by the one session whose thread makes a cache, and a result is
\* there when the session has ended.
TypeOK ==
  /\ platform \in Benches
  /\ place \in [Session -> {"idle", "activate", "request", "again", "invalidate", "uncached",
                            "tools", "tool", "cooldown", "ended"}]
  /\ turn \in [Session -> Nat] /\ \A s \in Session : turn[s] < MaxTurns[s]
  /\ retried \subseteq Gemini
  /\ reply \in [Session -> Replies \cup {<<>>}] /\ at \in [Session -> Nat]
  /\ \A s \in Session : place[s] \in {"tools", "tool"} => at[s] < Len(reply[s])
  /\ progress \in [Session -> [replies : Nat, calls : Nat]]
  /\ sink \in [Session -> Nat] /\ reported \in [Session -> Nat]
  /\ outcome \in [Session -> [failure : Failure, found : Nat, calls : Nat, replies : Nat]]
  /\ \A s \in Session : place[s] = "ended" <=> outcome[s] # NoResult
  /\ cached \in [Session -> 1 .. made \cup {None}]
  /\ \A s \in OpenAI : job[s] = "none" /\ cached[s] = None
  /\ job \in [Session -> {"none", "activate", "create", "invalidate"}]
  /\ lock \in Session \cup {None} /\ \A s \in Session : job[s] = "create" <=> lock = s
  /\ record \in [name : 1 .. made \cup {None}, fresh : BOOLEAN]
  /\ live \subseteq 1 .. made /\ made \in Nat /\ lost \in Nat

\* What the model reported is in the result once, whether it was a tool call or
\* text, over the restart of a session too; on OpenAI whatever ended the session.
FindingsSurvive ==
  \A s \in Session :
    place[s] = "ended" /\ (s \in OpenAI \/ outcome[s].failure \in {"none", "turn_budget_exhausted"})
      => outcome[s].found = reported[s]

\* A session completes when its model had nothing more to call, or called
\* finish_review as it should be called, never because it failed to.
CompletionIsMeant ==
  \A s \in Session :
    place[s] = "ended" /\ outcome[s].failure = "none" =>
      /\ outcome[s].replies > 0
      /\ reply[s] = <<>> \/ \E i \in DOMAIN reply[s] : reply[s][i] = "finish"

\* No session gets more replies than its budget of turns, restarted or not, and
\* one that used them all up says so.
BudgetHolds ==
  \A s \in Session :
    /\ progress[s].replies <= MaxTurns[s]
    /\ outcome[s].failure = "turn_budget_exhausted" => outcome[s].replies = MaxTurns[s]

\* _locked, "can't both trigger a duplicate upstream creation": every cache
\* after the first was made because a record was lost.
OneCachePerLoss == made <= 1 + lost

\* A thread ends, and frees the record's lock, whatever became of its session.
ThreadsFinish == \A s \in Session : job[s] # "none" ~> job[s] = "none"

\* invalidate, "so it can't race a concurrent create": the record of a cache the
\* provider still has is not removed.
LiveRecordStays ==
  [][record.name \in live /\ record.fresh => record'.name # None]_vars

=============================================================================
