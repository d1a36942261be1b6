-------------------------- MODULE ModelTurnsProofs --------------------------
(***************************************************************************)
(* Theorems about the Gemini and OpenAI sessions, for any number of them,  *)
(* any budget of turns and any number of caches: what a session answers is *)
(* what its model reported and meant, within its budget, and the threads   *)
(* that share the cache record make no cache twice.                        *)
(***************************************************************************)
EXTENDS ModelTurns, TLAPS

\* A session counts one reply per turn, from none when it is started over; its
\* thread is at work only while it waits for it, or after its end.
InTurn(s) ==
  /\ place[s] \in {"idle", "cooldown", "activate"} => progress[s].replies = 0
  /\ place[s] = "activate" => turn[s] = 0
  /\ place[s] \in {"request", "again", "invalidate", "uncached"} =>
       progress[s].replies = turn[s]
  /\ place[s] \in {"tools", "tool"} => progress[s].replies = turn[s] + 1
  /\ progress[s].replies <= MaxTurns[s]
  /\ place[s] \in {"idle", "cooldown", "request", "again", "uncached", "tools", "tool"}
       => job[s] = "none"

\* What was reported is in the sink, and a session with no reply has reported
\* nothing: starting it over loses nothing.
InSink(s) ==
  /\ sink[s] = reported[s]
  /\ progress[s].replies = 0 => reported[s] = 0

\* What a result says of the attempt it ends.
Told(s) ==
  place[s] = "ended" =>
    /\ outcome[s].failure \in {"none", "turn_budget_exhausted"} \/ s \in OpenAI =>
         outcome[s].found = reported[s]
    /\ outcome[s].failure = "none" =>
         /\ outcome[s].replies > 0
         /\ reply[s] = <<>> \/ \E i \in DOMAIN reply[s] : reply[s][i] = "finish"
    /\ outcome[s].failure = "turn_budget_exhausted" => outcome[s].replies = MaxTurns[s]

\* A record that can be handed out.
Usable == record.name # None /\ record.fresh

\* A cache was made because there was no usable record, and whoever makes one
\* holds the lock, so nobody stores a record in between.
Accounted ==
  /\ Usable => made <= 1 + lost
  /\ ~ Usable => made <= lost
  /\ lock # None => ~ Usable

Inv == TypeOK /\ Accounted /\ \A s \in Session : InTurn(s) /\ InSink(s) /\ Told(s)

-----------------------------------------------------------------------------
(* Types *)

LEMMA ReplyLengths == /\ \A r \in Replies : Len(r) = 2 /\ DOMAIN r = 1 .. 2
                      /\ <<>> \notin Replies /\ Len(<<>>) = 0
  BY DEF Replies

LEMMA InitTypes == Init => TypeOK
  BY TurnsAssumption DEF Init, TypeOK, NoResult, Failure, Gemini, OpenAI

\* A result is no empty one: a failure has its name, a success has replies.
LEMMA ResultTyped ==
  ASSUME TypeOK, NEW s \in Session, NEW failure \in Failure,
         progress'[s] \in [replies : Nat, calls : Nat], sink'[s] \in Nat,
         failure = "none" => progress'[s].replies > 0
  PROVE  /\ ResultOf(s, failure) \in
              [failure : Failure, found : Nat, calls : Nat, replies : Nat]
         /\ ResultOf(s, failure) # NoResult
  <1> DEFINE r == ResultOf(s, failure)
  <1>1. r = [failure |-> failure,
             found |-> IF s \in Gemini /\ failure \in {"timeout", "worker_crashed"}
                       THEN 0 ELSE sink'[s],
             calls |-> progress'[s].calls, replies |-> progress'[s].replies]
    BY DEF ResultOf
  <1>2. r.failure = failure /\ r.replies = progress'[s].replies
    BY <1>1
  <1>3. NoResult.failure = "none" /\ NoResult.replies = 0
    BY DEF NoResult
  <1>4. r # NoResult
    BY <1>2, <1>3
  <1> QED
    BY <1>1, <1>4

\* The variables of the sessions.
AskingTyped ==
  /\ platform \in Benches
  /\ place \in [Session -> {"idle", "activate", "request", "again", "invalidate", "uncached",
                            "tools", "tool", "cooldown", "ended"}]
  /\ turn \in [Session -> Nat] /\ \A s \in Session : turn[s] < MaxTurns[s]
  /\ retried \subseteq Gemini
  /\ reply \in [Session -> Replies \cup {<<>>}] /\ at \in [Session -> Nat]
  /\ \A s \in Session : place[s] \in {"tools", "tool"} => at[s] < Len(reply[s])
  /\ progress \in [Session -> [replies : Nat, calls : Nat]]
  /\ sink \in [Session -> Nat] /\ reported \in [Session -> Nat]
  /\ outcome \in [Session -> [failure : Failure, found : Nat, calls : Nat, replies : Nat]]
  /\ \A s \in Session : place[s] = "ended" <=> outcome[s] # NoResult

\* Those of the threads and of the cache record.
KeepingTyped ==
  /\ cached \in [Session -> 1 .. made \cup {None}]
  /\ \A s \in OpenAI : job[s] = "none" /\ cached[s] = None
  /\ job \in [Session -> {"none", "activate", "create", "invalidate"}]
  /\ lock \in Session \cup {None} /\ \A s \in Session : job[s] = "create" <=> lock = s
  /\ record \in [name : 1 .. made \cup {None}, fresh : BOOLEAN]
  /\ live \subseteq 1 .. made /\ made \in Nat /\ lost \in Nat

LEMMA TypesSplit == TypeOK <=> AskingTyped /\ KeepingTyped
  BY DEF TypeOK, AskingTyped, KeepingTyped

\* What an end leaves of a session.
LEMMA EndTyped ==
  ASSUME TypeOK, NEW s \in Session, NEW failure \in Failure, End(s, failure),
         place[s] # "ended", progress' \in [Session -> [replies : Nat, calls : Nat]],
         sink' \in [Session -> Nat], failure = "none" => progress'[s].replies > 0
  PROVE  /\ place' \in [Session -> {"idle", "activate", "request", "again", "invalidate",
                                    "uncached", "tools", "tool", "cooldown", "ended"}]
         /\ outcome' \in [Session -> [failure : Failure, found : Nat, calls : Nat,
                                      replies : Nat]]
         /\ \A x \in Session : place'[x] = "ended" <=> outcome'[x] # NoResult
         /\ place' = [place EXCEPT ![s] = "ended"]
         /\ outcome'[s] = ResultOf(s, failure)
  <1>1. /\ ResultOf(s, failure) \in
             [failure : Failure, found : Nat, calls : Nat, replies : Nat]
        /\ ResultOf(s, failure) # NoResult
    BY ResultTyped
  <1>2. /\ place' = [place EXCEPT ![s] = "ended"]
        /\ outcome' = [outcome EXCEPT ![s] = ResultOf(s, failure)]
    BY DEF End, Goto
  <1> QED
    BY <1>1, <1>2 DEF TypeOK

\* A step of one session, or of its thread, that is not one of OpenAI unless it
\* leaves job and cached alone.
LEMMA KeepingKept ==
  ASSUME KeepingTyped, OpenAI' = OpenAI, NEW s \in Session,
         NEW j \in {"none", "activate", "create", "invalidate"},
         NEW name \in (1 .. made') \cup {None},
         job' = job \/ (s \notin OpenAI /\ job' = [job EXCEPT ![s] = j]),
         \/ cached' = cached
         \/ (s \notin OpenAI \/ name = None) /\ cached' = [cached EXCEPT ![s] = name],
         made' \in {made, made + 1}, lost' \in {lost, lost + 1}, live' \subseteq 1 .. made',
         record' \in [name : (1 .. made') \cup {None}, fresh : BOOLEAN],
         lock' \in Session \cup {None},
         \A x \in Session : job'[x] = "create" <=> lock' = x
  PROVE  KeepingTyped'
  <1>1. made' \in Nat /\ lost' \in Nat /\ 1 .. made \subseteq 1 .. made'
    BY DEF KeepingTyped
  <1>2. cached \in [Session -> (1 .. made') \cup {None}]
    <2>1. DOMAIN cached = Session /\ \A x \in Session : cached[x] \in (1 .. made') \cup {None}
      BY <1>1 DEF KeepingTyped
    <2>2. cached = [x \in Session |-> cached[x]]
      BY DEF KeepingTyped
    <2> QED
      BY <2>1, <2>2
  <1>3. cached' \in [Session -> (1 .. made') \cup {None}]
    BY <1>2
  <1>4. job' \in [Session -> {"none", "activate", "create", "invalidate"}]
    BY DEF KeepingTyped
  <1>5. \A x \in OpenAI : job'[x] = "none" /\ cached'[x] = None
    BY DEF KeepingTyped, OpenAI
  <1> QED
    BY <1>1, <1>3, <1>4, <1>5 DEF KeepingTyped

LEMMA KeepingStep == ASSUME Inv, [Next]_vars
                     PROVE  KeepingTyped'
  <1>1. KeepingTyped
    BY DEF Inv, TypeOK, KeepingTyped
  <1>2. platform' = platform
    BY DEF Next, vars, asking, keeper, AskingKept, Start, RequestFails, SecondRequestFails,
       ReplyWithCalls, ReplyWithText, ReplyDegraded, BeginCall, EndCall, Timeout,
       ThreadStep, UseRecord, FindNoRecord, CreateCache, CreateFails, InvalidateRecord, RecordUnreachable,
       RecordExpires, CacheDies
  <1>3. Gemini' = Gemini /\ OpenAI' = OpenAI
    BY <1>2 DEF Gemini, OpenAI
  <1>k. /\ lock \in Session \cup {None} /\ \A x \in Session : job[x] = "create" <=> lock = x
        /\ record \in [name : (1 .. made) \cup {None}, fresh : BOOLEAN]
        /\ live \subseteq 1 .. made /\ made \in Nat /\ lost \in Nat
        /\ job \in [Session -> {"none", "activate", "create", "invalidate"}]
    BY <1>1 DEF KeepingTyped
  <1>4. CASE UNCHANGED <<cached, job, keeper>>
    BY <1>1, <1>3, <1>4 DEF KeepingTyped, keeper
  <1>5. ASSUME NEW s \in Session, Start(s)
        PROVE  KeepingTyped'
    <2>1. job[s] = "none"
      BY <1>5 DEF Start, Inv, InTurn
    <2>2. /\ job' = job \/ (s \notin OpenAI /\ job' = [job EXCEPT ![s] = "activate"])
          /\ cached' = [cached EXCEPT ![s] = None] /\ UNCHANGED keeper
      BY <1>5 DEF Start, Gemini, OpenAI
    <2>3. \A x \in Session : job'[x] = "create" <=> lock' = x
      BY <1>k, <2>1, <2>2 DEF keeper
    <2> QED
      BY <1>1, <1>3, <1>k, <2>2, <2>3, KeepingKept DEF keeper
  <1>6. ASSUME NEW s \in Session, RequestFails(s)
        PROVE  KeepingTyped'
    <2>1. /\ job' = job \/ (s \notin OpenAI /\ job' = [job EXCEPT ![s] = "invalidate"])
          /\ cached' = cached /\ UNCHANGED keeper
      BY <1>1, <1>6 DEF RequestFails, ErrorsOf, CacheGone, FallsBack, KeepingTyped
    <2>2. job[s] = "none"
      BY <1>6 DEF RequestFails, Inv, InTurn
    <2>3. \A x \in Session : job'[x] = "create" <=> lock' = x
      BY <1>k, <2>1, <2>2 DEF keeper
    <2> QED
      BY <1>1, <1>3, <1>k, <2>1, <2>3, KeepingKept DEF keeper
  <1>7. ASSUME NEW s \in Session, ThreadStep(s)
        PROVE  KeepingTyped'
    <2>1. job[s] # "none" /\ s \notin OpenAI
      BY <1>1, <1>7 DEF ThreadStep, UseRecord, FindNoRecord, CreateCache, CreateFails,
         InvalidateRecord, RecordUnreachable, KeepingTyped
    <2>2. CASE UseRecord(s)
      <3>1. /\ cached' = cached \/ cached' = [cached EXCEPT ![s] = record.name]
            /\ job' = [job EXCEPT ![s] = "none"] /\ UNCHANGED keeper
        BY <2>2 DEF UseRecord, HandOver
      <3>2. record.name \in 1 .. made /\ job[s] = "activate"
        BY <1>k, <2>2 DEF UseRecord
      <3>3. \A x \in Session : job'[x] = "create" <=> lock' = x
        BY <1>k, <3>1, <3>2 DEF keeper
      <3> QED
        BY <1>1, <1>3, <1>k, <2>1, <3>1, <3>2, <3>3, KeepingKept DEF keeper
    <2>3. CASE FindNoRecord(s)
      <3>1. /\ cached' = cached /\ UNCHANGED <<record, live, made, lost>>
            /\ job' = [job EXCEPT ![s] = "create"] /\ lock = None /\ lock' = s
        BY <2>3 DEF FindNoRecord
      <3>2. \A x \in Session : job'[x] = "create" <=> lock' = x
        BY <1>k, <3>1, TurnsAssumption
      <3> QED
        BY <1>1, <1>3, <1>k, <2>1, <3>1, <3>2, KeepingKept
    <2>4. CASE CreateCache(s)
      <3>1. /\ made' = made + 1 /\ lost' \in {lost, lost + 1} /\ live' = live \cup {made'}
            /\ lock' = None /\ job' = [job EXCEPT ![s] = "none"] /\ job[s] = "create"
            /\ record' \in {record, [name |-> made', fresh |-> TRUE]}
            /\ \/ cached' = cached
               \/ \E name \in {made', None} : cached' = [cached EXCEPT ![s] = name]
        BY <2>4 DEF CreateCache, HandOver
      <3>2. 1 .. made \subseteq 1 .. made' /\ made' \in 1 .. made'
        BY <1>k, <3>1
      <3>3. record' \in [name : (1 .. made') \cup {None}, fresh : BOOLEAN]
        <4>1. CASE record' = record
          BY <1>k, <3>2, <4>1
        <4>2. CASE record' = [name |-> made', fresh |-> TRUE]
          BY <3>2, <4>2
        <4> QED
          BY <3>1, <4>1, <4>2
      <3>4. \A x \in Session : job'[x] = "create" <=> lock' = x
        BY <1>k, <3>1, TurnsAssumption
      <3>5. live' \subseteq 1 .. made'
        BY <1>k, <3>1, <3>2
      <3> QED
        BY <1>1, <1>3, <2>1, <3>1, <3>2, <3>3, <3>4, <3>5, KeepingKept
    <2>5. CASE CreateFails(s)
      <3>1. /\ cached' = cached \/ cached' = [cached EXCEPT ![s] = None]
            /\ job' = [job EXCEPT ![s] = "none"] /\ job[s] = "create" /\ lock' = None
            /\ UNCHANGED <<record, live, made, lost>>
        BY <2>5 DEF CreateFails, HandOver
      <3>2. \A x \in Session : job'[x] = "create" <=> lock' = x
        BY <1>k, <3>1, TurnsAssumption
      <3> QED
        BY <1>1, <1>3, <1>k, <2>1, <3>1, <3>2, KeepingKept
    <2>6. CASE InvalidateRecord(s)
      <3>1. /\ cached' = cached \/ cached' = [cached EXCEPT ![s] = None]
            /\ job' = [job EXCEPT ![s] = "none"] /\ job[s] = "invalidate"
            /\ record' = [name |-> None, fresh |-> FALSE] /\ lost' \in {lost, lost + 1}
            /\ UNCHANGED <<lock, live, made>>
        BY <2>6 DEF InvalidateRecord, HandOver
      <3>2. \A x \in Session : job'[x] = "create" <=> lock' = x
        BY <1>k, <3>1
      <3> QED
        BY <1>1, <1>3, <1>k, <2>1, <3>1, <3>2, KeepingKept
    <2> QED
      BY <1>7, <2>2, <2>3, <2>4, <2>5, <2>6 DEF ThreadStep
  <1>12. ASSUME NEW s \in Session, RecordUnreachable(s)
        PROVE  KeepingTyped'
    <2>1. /\ cached' = cached \/ cached' = [cached EXCEPT ![s] = None]
          /\ job' = [job EXCEPT ![s] = "none"] /\ job[s] \in {"activate", "invalidate"}
          /\ UNCHANGED keeper
      BY <1>12 DEF RecordUnreachable, HandOver
    <2>2. s \notin OpenAI
      BY <1>1, <2>1 DEF KeepingTyped
    <2>3. \A x \in Session : job'[x] = "create" <=> lock' = x
      BY <1>k, <2>1 DEF keeper
    <2> QED
      BY <1>1, <1>3, <1>k, <2>1, <2>2, <2>3, KeepingKept DEF keeper
  <1>8. CASE RecordExpires
    <2>1. record' \in [name : (1 .. made) \cup {None}, fresh : BOOLEAN]
      BY <1>k, <1>8 DEF RecordExpires
    <2> QED
      BY <1>1, <1>3, <1>8, <2>1 DEF RecordExpires, KeepingTyped, asking
  <1>9. CASE \E c \in live : CacheDies(c)
    BY <1>1, <1>3, <1>9 DEF CacheDies, KeepingTyped
  <1>10. ASSUME NEW s \in Session,
                \/ SecondRequestFails(s) \/ ReplyWithCalls(s) \/ ReplyWithText(s)
                \/ ReplyDegraded(s) \/ BeginCall(s) \/ EndCall(s) \/ Timeout(s)
         PROVE  KeepingTyped'
    BY <1>4, <1>10 DEF SecondRequestFails, ReplyWithCalls, ReplyWithText,
       ReplyDegraded, BeginCall, EndCall, Timeout
  <1>11. CASE UNCHANGED vars
    BY <1>4, <1>11 DEF vars
  <1> QED
    BY <1>5, <1>6, <1>7, <1>8, <1>9, <1>10, <1>11, <1>12 DEF Next

Places == {"idle", "activate", "request", "again", "invalidate", "uncached", "tools",
           "tool", "cooldown", "ended"}

\* A step that leaves a session under way.
LEMMA AskingGoesOn ==
  ASSUME AskingTyped, NEW s \in Session, NEW p \in Places \ {"ended"},
         place[s] # "ended", Goto(s, p), UNCHANGED <<platform, outcome>>,
         turn' \in [Session -> Nat], \A x \in Session : turn'[x] < MaxTurns[x],
         retried' \subseteq Gemini, reply' \in [Session -> Replies \cup {<<>>}],
         at' \in [Session -> Nat],
         \A x \in Session : x # s => reply'[x] = reply[x] /\ at'[x] = at[x],
         p \in {"tools", "tool"} => at'[s] < Len(reply'[s]),
         progress' \in [Session -> [replies : Nat, calls : Nat]],
         sink' \in [Session -> Nat], reported' \in [Session -> Nat]
  PROVE  AskingTyped'
  <1>1. place' = [place EXCEPT ![s] = p] /\ Gemini' = Gemini
    BY DEF Goto, Gemini
  <1>2. /\ place' \in [Session -> Places]
        /\ \A x \in Session : place'[x] = IF x = s THEN p ELSE place[x]
    BY <1>1 DEF AskingTyped, Places
  <1>3. \A x \in Session : place'[x] \in {"tools", "tool"} => at'[x] < Len(reply'[x])
    BY <1>2 DEF AskingTyped
  <1>4. \A x \in Session : place'[x] = "ended" <=> outcome'[x] # NoResult
    BY <1>2 DEF AskingTyped
  <1> QED
    BY <1>1, <1>2, <1>3, <1>4 DEF AskingTyped, Places

\* One that ends it.
LEMMA AskingEnds ==
  ASSUME TypeOK, NEW s \in Session, NEW failure \in Failure, End(s, failure),
         place[s] # "ended", platform' = platform,
         turn' \in [Session -> Nat], \A x \in Session : turn'[x] < MaxTurns[x],
         retried' \subseteq Gemini, reply' \in [Session -> Replies \cup {<<>>}],
         at' \in [Session -> Nat],
         \A x \in Session : x # s => reply'[x] = reply[x] /\ at'[x] = at[x],
         progress' \in [Session -> [replies : Nat, calls : Nat]],
         sink' \in [Session -> Nat], reported' \in [Session -> Nat],
         failure = "none" => progress'[s].replies > 0
  PROVE  AskingTyped'
  <1>1. /\ place' \in [Session -> Places]
        /\ outcome' \in [Session -> [failure : Failure, found : Nat, calls : Nat,
                                      replies : Nat]]
        /\ \A x \in Session : place'[x] = "ended" <=> outcome'[x] # NoResult
        /\ place' = [place EXCEPT ![s] = "ended"]
    BY EndTyped DEF Places
  <1>2. \A x \in Session : place'[x] \in {"tools", "tool"} => at'[x] < Len(reply'[x])
    BY <1>1 DEF TypeOK
  <1>3. Gemini' = Gemini
    BY DEF Gemini
  <1> QED
    BY <1>1, <1>2, <1>3 DEF AskingTyped, TypeOK, Places

LEMMA Counted ==
  ASSUME NEW r \in [replies : Nat, calls : Nat]
  PROVE  /\ [r EXCEPT !.replies = @ + 1] \in [replies : Nat, calls : Nat]
         /\ [r EXCEPT !.replies = @ + 1].replies = r.replies + 1
         /\ [r EXCEPT !.calls = @ + 1] \in [replies : Nat, calls : Nat]
         /\ [r EXCEPT !.calls = @ + 1].replies = r.replies
  OBVIOUS

\* CountReply counts one reply, and BeginCall none.
LEMMA ProgressCounted ==
  ASSUME progress \in [Session -> [replies : Nat, calls : Nat]], NEW s \in Session
  PROVE  /\ CountReply(s) =>
              /\ progress' \in [Session -> [replies : Nat, calls : Nat]]
              /\ progress'[s].replies = progress[s].replies + 1
              /\ \A x \in Session : x # s => progress'[x] = progress[x]
         /\ BeginCall(s) =>
              /\ progress' \in [Session -> [replies : Nat, calls : Nat]]
              /\ \A x \in Session : progress'[x].replies = progress[x].replies
  <1>1. progress[s] \in [replies : Nat, calls : Nat]
    OBVIOUS
  <1>2. ASSUME NEW r \in [replies : Nat, calls : Nat], progress' = [progress EXCEPT ![s] = r]
        PROVE  /\ progress' \in [Session -> [replies : Nat, calls : Nat]]
               /\ progress'[s] = r
               /\ \A x \in Session : x # s => progress'[x] = progress[x]
    BY <1>2
  <1>3. ASSUME CountReply(s)
        PROVE  /\ progress' \in [Session -> [replies : Nat, calls : Nat]]
               /\ progress'[s].replies = progress[s].replies + 1
               /\ \A x \in Session : x # s => progress'[x] = progress[x]
    <2>1. progress' = [progress EXCEPT ![s] = [progress[s] EXCEPT !.replies = @ + 1]]
      BY <1>3 DEF CountReply
    <2> QED
      BY <1>1, <1>2, <2>1, Counted
  <1>4. ASSUME BeginCall(s)
        PROVE  /\ progress' \in [Session -> [replies : Nat, calls : Nat]]
               /\ \A x \in Session : progress'[x].replies = progress[x].replies
    <2>1. progress' = [progress EXCEPT ![s] = [progress[s] EXCEPT !.calls = @ + 1]]
      BY <1>4 DEF BeginCall
    <2> QED
      BY <1>1, <1>2, <2>1, Counted
  <1> QED
    BY <1>3, <1>4

LEMMA AskingStep == ASSUME Inv, [Next]_vars
                    PROVE  AskingTyped'
  <1>1. AskingTyped /\ TypeOK
    BY TypesSplit DEF Inv
  <1>2. /\ turn \in [Session -> Nat] /\ \A x \in Session : turn[x] < MaxTurns[x]
        /\ retried \subseteq Gemini /\ reply \in [Session -> Replies \cup {<<>>}]
        /\ at \in [Session -> Nat] /\ progress \in [Session -> [replies : Nat, calls : Nat]]
        /\ sink \in [Session -> Nat] /\ reported \in [Session -> Nat]
        /\ MaxTurns \in [Session -> Nat \ {0}]
    BY <1>1, TurnsAssumption DEF AskingTyped
  <1>3. CASE UNCHANGED asking
    BY <1>1, <1>3 DEF asking, AskingTyped, Gemini
  <1>4. ASSUME NEW s \in Session, Start(s)
        PROVE  AskingTyped'
    <2>1. PICK p \in {"activate", "request"} : Goto(s, p)
      BY <1>4 DEF Start
    <2>2. turn' \in [Session -> Nat] /\ \A x \in Session : turn'[x] < MaxTurns[x]
      BY <1>2, <1>4 DEF Start
    <2>3. sink' \in [Session -> Nat]
      BY <1>2, <1>4 DEF Start
    <2> QED
      BY <1>1, <1>2, <1>4, <2>1, <2>2, <2>3, AskingGoesOn DEF Start, Places
  <1>5. ASSUME NEW s \in Session, place[s] # "ended", NEW e, Raise(s, e),
               UNCHANGED <<platform, turn, reply, at, progress, sink, reported>>
        PROVE  AskingTyped'
    <2>1. CASE MayRestart(s, e) /\ retried' = retried \cup {s} /\ Goto(s, "cooldown")
               /\ UNCHANGED outcome
      <3>1. retried' \subseteq Gemini
        BY <1>2, <2>1 DEF MayRestart
      <3> QED
        BY <1>1, <1>2, <1>5, <2>1, <3>1, AskingGoesOn DEF Places
    <2>2. CASE End(s, IF e = "http_timeout" THEN "timeout" ELSE "worker_crashed")
               /\ UNCHANGED retried
      <3>1. PICK failure \in {"timeout", "worker_crashed"} : End(s, failure)
        BY <2>2
      <3> QED
        BY <1>1, <1>2, <1>5, <2>2, <3>1, AskingEnds DEF Failure
    <2> QED
      BY <1>5, <2>1, <2>2 DEF Raise
  <1>6. ASSUME NEW s \in Session, RequestFails(s)
        PROVE  AskingTyped'
    <2>1. place[s] = "request" /\ UNCHANGED <<platform, turn, reply, at, progress, sink, reported>>
      BY <1>6 DEF RequestFails
    <2>2. CASE /\ \E p \in {"invalidate", "again"} : Goto(s, p)
               /\ UNCHANGED <<retried, outcome>>
      BY <1>1, <1>2, <2>1, <2>2, AskingGoesOn DEF Places
    <2>3. CASE \E e \in ErrorsOf(s) : Raise(s, e)
      BY <1>5, <2>1, <2>3
    <2> QED
      BY <1>6, <2>2, <2>3 DEF RequestFails
  <1>7. ASSUME NEW s \in Session, SecondRequestFails(s)
        PROVE  AskingTyped'
    BY <1>5, <1>7 DEF SecondRequestFails
  <1>8. ASSUME NEW s \in Session, CountReply(s)
        PROVE  /\ progress' \in [Session -> [replies : Nat, calls : Nat]]
               /\ progress'[s].replies > 0
    <2>1. progress[s].replies + 1 > 0
      BY <1>2
    <2> QED
      BY <1>2, <1>8, <2>1, ProgressCounted
  <1>9. ASSUME NEW s \in Session, ReplyWithCalls(s)
        PROVE  AskingTyped'
    <2>1. /\ reply' \in [Session -> Replies \cup {<<>>}] /\ reply'[s] \in Replies
          /\ at' \in [Session -> Nat] /\ at'[s] = 0
          /\ \A x \in Session : x # s => reply'[x] = reply[x] /\ at'[x] = at[x]
      BY <1>2, <1>9 DEF ReplyWithCalls
    <2>2. at'[s] < Len(reply'[s])
      BY <2>1, ReplyLengths
    <2>3. place[s] # "ended" /\ Goto(s, "tools")
      BY <1>9 DEF ReplyWithCalls, Answered
    <2> QED
      BY <1>1, <1>2, <1>8, <1>9, <2>1, <2>2, <2>3, AskingGoesOn DEF ReplyWithCalls, Places
  <1>10. ASSUME NEW s \in Session, ReplyWithText(s)
         PROVE  AskingTyped'
    <2>1. /\ reply' \in [Session -> Replies \cup {<<>>}]
          /\ \A x \in Session : x # s => reply'[x] = reply[x] /\ at'[x] = at[x]
      BY <1>2, <1>10 DEF ReplyWithText
    <2>2. sink' \in [Session -> Nat] /\ reported' \in [Session -> Nat]
      BY <1>2, <1>10 DEF ReplyWithText
    <2>3. place[s] # "ended" /\ End(s, "none")
      BY <1>10 DEF ReplyWithText, Answered
    <2>4. "none" \in Failure
      BY DEF Failure
    <2> QED
      BY <1>1, <1>2, <1>8, <1>10, <2>1, <2>2, <2>3, <2>4, AskingEnds DEF ReplyWithText
  <1>11. ASSUME NEW s \in Session, ReplyDegraded(s)
         PROVE  AskingTyped'
    BY <1>1, <1>2, <1>8, <1>11, AskingEnds DEF ReplyDegraded, Answered, Failure
  <1>12. ASSUME NEW s \in Session, BeginCall(s)
         PROVE  AskingTyped'
    <2>1. progress' \in [Session -> [replies : Nat, calls : Nat]]
      BY <1>2, <1>12, ProgressCounted
    <2>2. at[s] < Len(reply[s])
      BY <1>1, <1>12 DEF BeginCall, AskingTyped
    <2> QED
      BY <1>1, <1>2, <1>12, <2>1, <2>2, AskingGoesOn DEF BeginCall, Places
  <1>13. ASSUME NEW s \in Session, EndCall(s)
         PROVE  AskingTyped'
    <2>1. /\ place[s] = "tool" /\ at[s] < Len(reply[s]) /\ progress' = progress
          /\ UNCHANGED <<platform, retried, reply>>
      BY <1>1, <1>13 DEF EndCall, AskingTyped
    <2>2. sink' \in [Session -> Nat] /\ reported' \in [Session -> Nat]
      BY <1>2, <1>13 DEF EndCall
    <2>3. /\ at' \in [Session -> Nat] /\ at'[s] = at[s] + 1
          /\ \A x \in Session : x # s => at'[x] = at[x]
      BY <1>2, <1>13 DEF EndCall
    <2>4. progress[s].replies > 0
      BY <1>2, <2>1 DEF Inv, InTurn
    <2>5. CASE at[s] + 1 # Len(reply[s]) /\ Goto(s, "tools") /\ UNCHANGED <<turn, outcome>>
      <3>1. reply[s] \in Replies
        BY <1>2, <2>1, ReplyLengths
      <3>2. at'[s] < Len(reply'[s])
        BY <1>2, <2>1, <2>3, <2>5, <3>1, ReplyLengths
      <3> QED
        BY <1>1, <1>2, <2>1, <2>2, <2>3, <2>5, <3>2, AskingGoesOn DEF Places
    <2>6. CASE \E failure \in {"none", "turn_budget_exhausted"} : End(s, failure) /\ turn' = turn
      BY <1>1, <1>2, <2>1, <2>2, <2>3, <2>4, <2>6, AskingEnds DEF Failure
    <2>7. CASE /\ ~ BudgetSpent(s) /\ turn' = [turn EXCEPT ![s] = @ + 1]
               /\ Goto(s, "request") /\ UNCHANGED outcome
      <3>1. turn' \in [Session -> Nat] /\ \A x \in Session : turn'[x] < MaxTurns[x]
        BY <1>2, <2>7 DEF BudgetSpent
      <3> QED
        BY <1>1, <1>2, <2>1, <2>2, <2>3, <2>7, <3>1, AskingGoesOn DEF Places
    <2> QED
      BY <1>13, <2>5, <2>6, <2>7 DEF EndCall
  <1>14. ASSUME NEW s \in Session, Timeout(s)
         PROVE  AskingTyped'
    BY <1>1, <1>2, <1>14, AskingEnds DEF Timeout, Running, Failure
  <1>15. ASSUME NEW s \in Session, ThreadStep(s) \/ RecordUnreachable(s)
         PROVE  AskingTyped'
    <2>1. CASE UNCHANGED <<place, platform, turn, retried, reply, at, progress, sink,
                           outcome, reported>>
      BY <1>3, <2>1 DEF asking
    <2>2. CASE /\ \E p \in {"request", "uncached"} : Goto(s, p) /\ place[s] # "ended"
               /\ AskingKept
      BY <1>1, <1>2, <2>2, AskingGoesOn DEF AskingKept, Places
    <2> QED
      BY <1>15, <2>1, <2>2 DEF ThreadStep, UseRecord, FindNoRecord, CreateCache,
         CreateFails, InvalidateRecord, RecordUnreachable, HandOver, AskingKept, asking
  <1>16. CASE RecordExpires
    BY <1>3, <1>16 DEF RecordExpires
  <1>17. CASE \E c \in live : CacheDies(c)
    BY <1>3, <1>17 DEF CacheDies
  <1>18. CASE UNCHANGED vars
    BY <1>3, <1>18 DEF vars
  <1> QED
    BY <1>4, <1>6, <1>7, <1>9, <1>10, <1>11, <1>12, <1>13, <1>14, <1>15, <1>16,
       <1>17, <1>18 DEF Next

LEMMA TypeStep == ASSUME Inv, [Next]_vars
                  PROVE  TypeOK'
  <1>1. TypeOK' <=> AskingTyped' /\ KeepingTyped'
    BY DEF TypeOK, AskingTyped, KeepingTyped
  <1> QED
    BY <1>1, AskingStep, KeepingStep

-----------------------------------------------------------------------------
(* Sessions *)

StepOf(s) == \/ Start(s) \/ RequestFails(s) \/ SecondRequestFails(s)
             \/ ReplyWithCalls(s) \/ ReplyWithText(s) \/ ReplyDegraded(s)
             \/ BeginCall(s) \/ EndCall(s) \/ Timeout(s) \/ ThreadStep(s)
             \/ RecordUnreachable(s)

InOrder(s) == InTurn(s) /\ InSink(s) /\ Told(s)

\* What these are about.
Kept(s) ==
  /\ place'[s] = place[s] /\ turn'[s] = turn[s] /\ reply'[s] = reply[s]
  /\ progress'[s].replies = progress[s].replies
  /\ sink'[s] = sink[s] /\ reported'[s] = reported[s] /\ outcome'[s] = outcome[s]

LEMMA KeptInOrder == ASSUME NEW s \in Session, InOrder(s), Kept(s), OpenAI' = OpenAI,
                            job'[s] = job[s] \/ job'[s] = "none"
                     PROVE  InOrder(s)'
  BY DEF InOrder, InTurn, InSink, Told, Kept

LEMMA OthersKept ==
  ASSUME TypeOK, NEW s \in Session, StepOf(s), NEW x \in Session, x # s
  PROVE  Kept(x) /\ job'[x] = job[x]
  <1>1. /\ place \in [Session -> Places] /\ turn \in [Session -> Nat]
        /\ reply \in [Session -> Replies \cup {<<>>}]
        /\ progress \in [Session -> [replies : Nat, calls : Nat]]
        /\ sink \in [Session -> Nat] /\ reported \in [Session -> Nat]
        /\ outcome \in [Session -> [failure : Failure, found : Nat, calls : Nat,
                                    replies : Nat]]
        /\ job \in [Session -> {"none", "activate", "create", "invalidate"}]
    BY DEF TypeOK, Places
  <1>2. progress'[x] = progress[x]
    BY <1>1 DEF StepOf, Start, RequestFails, SecondRequestFails, ReplyWithCalls,
       ReplyWithText, ReplyDegraded, BeginCall, EndCall, Timeout, ThreadStep,
       UseRecord, FindNoRecord, CreateCache, CreateFails, InvalidateRecord, RecordUnreachable,
       CountReply, AskingKept, asking
  <1>3. place'[x] = place[x] /\ outcome'[x] = outcome[x]
    BY <1>1 DEF StepOf, Start, RequestFails, SecondRequestFails, ReplyWithCalls,
       ReplyWithText, ReplyDegraded, BeginCall, EndCall, Timeout, ThreadStep,
       UseRecord, FindNoRecord, CreateCache, CreateFails, InvalidateRecord, RecordUnreachable,
       AskingKept, asking, Goto, HandOver, End, Raise
  <1>4. turn'[x] = turn[x] /\ reply'[x] = reply[x]
    BY <1>1 DEF StepOf, Start, RequestFails, SecondRequestFails, ReplyWithCalls,
       ReplyWithText, ReplyDegraded, BeginCall, EndCall, Timeout, ThreadStep,
       UseRecord, FindNoRecord, CreateCache, CreateFails, InvalidateRecord, RecordUnreachable,
       AskingKept, asking
  <1>5. sink'[x] = sink[x] /\ reported'[x] = reported[x]
    BY <1>1 DEF StepOf, Start, RequestFails, SecondRequestFails, ReplyWithCalls,
       ReplyWithText, ReplyDegraded, BeginCall, EndCall, Timeout, ThreadStep,
       UseRecord, FindNoRecord, CreateCache, CreateFails, InvalidateRecord, RecordUnreachable,
       AskingKept, asking
  <1>6. job'[x] = job[x]
    BY <1>1 DEF StepOf, Start, RequestFails, SecondRequestFails, ReplyWithCalls,
       ReplyWithText, ReplyDegraded, BeginCall, EndCall, Timeout, ThreadStep,
       UseRecord, FindNoRecord, CreateCache, CreateFails, InvalidateRecord, RecordUnreachable
  <1> QED
    BY <1>2, <1>3, <1>4, <1>5, <1>6 DEF Kept

\* What an end tells, if it is fit to be told.
LEMMA EndTold ==
  ASSUME TypeOK, NEW s \in Session, NEW failure \in Failure, End(s, failure),
         sink'[s] = reported'[s], platform' = platform,
         failure = "none" =>
           /\ progress'[s].replies > 0
           /\ reply'[s] = <<>> \/ \E i \in DOMAIN reply'[s] : reply'[s][i] = "finish",
         failure = "turn_budget_exhausted" => progress'[s].replies = MaxTurns[s]
  PROVE  Told(s)' /\ place'[s] = "ended"
  <1>1. outcome'[s] = ResultOf(s, failure) /\ place'[s] = "ended"
    BY DEF End, Goto, TypeOK
  <1>2. /\ outcome'[s].failure = failure /\ outcome'[s].replies = progress'[s].replies
        /\ outcome'[s].found = IF s \in Gemini /\ failure \in {"timeout", "worker_crashed"}
                               THEN 0 ELSE sink'[s]
    BY <1>1 DEF ResultOf
  <1>3. s \in OpenAI' => s \notin Gemini
    BY DEF OpenAI, Gemini
  <1> QED
    BY <1>1, <1>2, <1>3 DEF Told

LEMMA SessionStep == ASSUME Inv, NEW s \in Session, StepOf(s)
                     PROVE  InOrder(s)'
  <1>1. /\ place \in [Session -> Places] /\ turn \in [Session -> Nat]
        /\ \A x \in Session : turn[x] < MaxTurns[x]
        /\ reply \in [Session -> Replies \cup {<<>>}]
        /\ progress \in [Session -> [replies : Nat, calls : Nat]]
        /\ sink \in [Session -> Nat] /\ reported \in [Session -> Nat]
        /\ job \in [Session -> {"none", "activate", "create", "invalidate"}]
        /\ MaxTurns \in [Session -> Nat \ {0}]
    BY TurnsAssumption DEF Inv, TypeOK, Places
  <1>2. InTurn(s) /\ InSink(s) /\ Told(s) /\ TypeOK
    BY DEF Inv
  <1>3. CASE Start(s)
    <2>1. /\ place[s] \in {"idle", "cooldown"} /\ place'[s] \in {"activate", "request"}
          /\ turn'[s] = 0 /\ sink'[s] = 0 /\ reported' = reported /\ progress' = progress
          /\ place'[s] = "request" => job' = job
      BY <1>1, <1>3 DEF Start, Goto
    <2> QED
      BY <1>1, <1>2, <2>1 DEF InOrder, InTurn, InSink, Told
  <1>4. ASSUME place[s] \in {"request", "again", "uncached"}, NEW e, Raise(s, e),
               UNCHANGED <<platform, turn, reply, at, progress, sink, reported, job>>
        PROVE  InOrder(s)'
    <2>1. CASE MayRestart(s, e) /\ Goto(s, "cooldown")
      <3>1. place'[s] = "cooldown" /\ progress[s].replies = 0
        BY <1>1, <2>1 DEF MayRestart, Goto
      <3> QED
        BY <1>2, <1>4, <3>1 DEF InOrder, InTurn, InSink, Told
    <2>2. CASE \E failure \in {"timeout", "worker_crashed"} : End(s, failure)
      <3>1. Told(s)' /\ place'[s] = "ended"
        BY <1>2, <1>4, <2>2, EndTold DEF InSink, Failure
      <3> QED
        BY <1>2, <1>4, <3>1 DEF InOrder, InTurn, InSink
    <2> QED
      BY <1>4, <2>1, <2>2 DEF Raise
  <1>5. CASE RequestFails(s)
    <2>1. place[s] = "request" /\ UNCHANGED <<platform, turn, reply, at, progress, sink, reported>>
      BY <1>5 DEF RequestFails
    <2>2. CASE \E p \in {"invalidate", "again"} :
                 Goto(s, p) /\ (job' = job \/ p = "invalidate")
      <3>1. place'[s] \in {"invalidate", "again"}
            /\ (job' = job \/ place'[s] = "invalidate")
        BY <1>1, <2>2 DEF Goto
      <3> QED
        BY <1>2, <2>1, <3>1 DEF InOrder, InTurn, InSink, Told
    <2>3. CASE \E e \in ErrorsOf(s) : Raise(s, e) /\ job' = job
      BY <1>4, <2>1, <2>3
    <2> QED
      BY <1>5, <2>2, <2>3 DEF RequestFails
  <1>6. CASE SecondRequestFails(s)
    BY <1>4, <1>6 DEF SecondRequestFails
  <1>7. ASSUME Answered(s), CountReply(s)
        PROVE  /\ progress[s].replies = turn[s]
               /\ progress'[s].replies = turn[s] + 1 /\ progress'[s].replies > 0
               /\ turn[s] + 1 <= MaxTurns[s] /\ job[s] = "none"
    <2>1. progress[s].replies = turn[s] /\ job[s] = "none"
      BY <1>2, <1>7 DEF Answered, InTurn
    <2>2. progress'[s].replies = progress[s].replies + 1
      BY <1>1, <1>7, ProgressCounted
    <2> QED
      BY <1>1, <2>1, <2>2
  <1>8. CASE ReplyWithCalls(s)
    <2>1. place'[s] = "tools" /\ UNCHANGED <<turn, sink, reported, job>>
      BY <1>1, <1>8 DEF ReplyWithCalls, Goto
    <2>2. Answered(s) /\ CountReply(s)
      BY <1>8 DEF ReplyWithCalls
    <2> QED
      BY <1>2, <1>7, <2>1, <2>2 DEF InOrder, InTurn, InSink, Told
  <1>9. CASE ReplyWithText(s)
    <2>1. sink'[s] = reported'[s]
      BY <1>1, <1>2, <1>9 DEF ReplyWithText, InSink
    <2>2. reply'[s] = <<>> /\ UNCHANGED <<platform, turn, job>>
      BY <1>1, <1>9 DEF ReplyWithText
    <2>3. Answered(s) /\ CountReply(s) /\ End(s, "none")
      BY <1>9 DEF ReplyWithText
    <2>4. Told(s)' /\ place'[s] = "ended"
      BY <1>2, <1>7, <2>1, <2>2, <2>3, EndTold DEF Failure
    <2> QED
      BY <1>7, <2>1, <2>2, <2>3, <2>4 DEF InOrder, InTurn, InSink
  <1>10. CASE ReplyDegraded(s)
    <2>1. sink'[s] = reported'[s] /\ UNCHANGED <<platform, turn, job>>
      BY <1>2, <1>10 DEF ReplyDegraded, InSink
    <2>2. Answered(s) /\ CountReply(s) /\ End(s, "worker_crashed")
      BY <1>10 DEF ReplyDegraded
    <2>3. Told(s)' /\ place'[s] = "ended"
      BY <1>2, <1>7, <2>1, <2>2, EndTold DEF Failure
    <2> QED
      BY <1>7, <2>1, <2>2, <2>3 DEF InOrder, InTurn, InSink
  <1>11. CASE BeginCall(s)
    <2>1. /\ place[s] = "tools" /\ place'[s] = "tool"
          /\ UNCHANGED <<turn, sink, reported, job>>
      BY <1>1, <1>11 DEF BeginCall, Goto
    <2>2. progress'[s].replies = progress[s].replies
      BY <1>1, <1>11, ProgressCounted
    <2> QED
      BY <1>2, <2>1, <2>2 DEF InOrder, InTurn, InSink, Told
  <1>12. CASE EndCall(s)
    <2>1. /\ place[s] = "tool" /\ progress' = progress
          /\ UNCHANGED <<platform, reply, job>>
      BY <1>12 DEF EndCall
    <2>2. sink'[s] = reported'[s]
      BY <1>1, <1>2, <1>12 DEF EndCall, InSink
    <2>3. /\ progress[s].replies = turn[s] + 1 /\ job[s] = "none"
          /\ progress[s].replies > 0 /\ progress[s].replies <= MaxTurns[s]
      BY <1>1, <1>2, <2>1 DEF InTurn
    <2>4. CASE Goto(s, "tools") /\ turn' = turn
      <3>1. place'[s] = "tools"
        BY <1>1, <2>4 DEF Goto
      <3> QED
        BY <2>1, <2>2, <2>3, <2>4, <3>1 DEF InOrder, InTurn, InSink, Told
    <2>5. CASE /\ \E i \in DOMAIN reply[s] : Finishes(reply[s][i])
               /\ End(s, "none") /\ turn' = turn
      <3>1. Told(s)' /\ place'[s] = "ended"
        BY <1>2, <2>1, <2>2, <2>3, <2>5, EndTold DEF Finishes, Failure
      <3> QED
        BY <2>1, <2>2, <2>3, <2>5, <3>1 DEF InOrder, InTurn, InSink
    <2>6. CASE BudgetSpent(s) /\ End(s, "turn_budget_exhausted") /\ turn' = turn
      <3>1. Told(s)' /\ place'[s] = "ended"
        BY <1>2, <2>1, <2>2, <2>3, <2>6, EndTold DEF BudgetSpent, Failure
      <3> QED
        BY <2>1, <2>2, <2>3, <2>6, <3>1 DEF InOrder, InTurn, InSink
    <2>7. CASE turn' = [turn EXCEPT ![s] = @ + 1] /\ Goto(s, "request")
      <3>1. place'[s] = "request" /\ turn'[s] = turn[s] + 1
        BY <1>1, <2>7 DEF Goto
      <3> QED
        BY <2>1, <2>2, <2>3, <3>1 DEF InOrder, InTurn, InSink, Told
    <2> QED
      BY <1>12, <2>4, <2>5, <2>6, <2>7 DEF EndCall
  <1>13. CASE Timeout(s)
    <2>1. End(s, "timeout") /\ UNCHANGED <<platform, turn, reply, reported, job, progress, sink>>
      BY <1>13 DEF Timeout
    <2>2. Told(s)' /\ place'[s] = "ended"
      BY <1>2, <2>1, EndTold DEF InSink, Failure
    <2> QED
      BY <1>2, <2>1, <2>2 DEF InOrder, InTurn, InSink
  <1>14. CASE ThreadStep(s) \/ RecordUnreachable(s)
    <2>1. UNCHANGED <<platform, turn, reply, progress, sink, outcome, reported>>
      BY <1>14 DEF ThreadStep, UseRecord, FindNoRecord, CreateCache, CreateFails,
         InvalidateRecord, RecordUnreachable, AskingKept, asking
    <2>2. job[s] # "none"
      BY <1>14, <1>2 DEF ThreadStep, UseRecord, FindNoRecord, CreateCache, CreateFails,
         InvalidateRecord, RecordUnreachable
    <2>3. CASE place' = place
      BY <1>2, <2>1, <2>2, <2>3 DEF InOrder, InTurn, InSink, Told, OpenAI
    <2>4. CASE /\ place[s] = "activate" /\ Goto(s, "request")
               /\ job' = [job EXCEPT ![s] = "none"]
      <3>1. place'[s] = "request" /\ job'[s] = "none"
        BY <1>1, <2>4 DEF Goto
      <3> QED
        BY <1>2, <2>1, <2>4, <3>1 DEF InOrder, InTurn, InSink, Told
    <2>5. CASE /\ place[s] = "invalidate" /\ Goto(s, "uncached")
               /\ job' = [job EXCEPT ![s] = "none"]
      <3>1. place'[s] = "uncached" /\ job'[s] = "none"
        BY <1>1, <2>5 DEF Goto
      <3> QED
        BY <1>2, <2>1, <2>5, <3>1 DEF InOrder, InTurn, InSink, Told
    <2> QED
      BY <1>14, <2>3, <2>4, <2>5 DEF ThreadStep, UseRecord, FindNoRecord, CreateCache,
         CreateFails, InvalidateRecord, RecordUnreachable, HandOver, asking
  <1> QED
    BY <1>3, <1>5, <1>6, <1>8, <1>9, <1>10, <1>11, <1>12, <1>13, <1>14 DEF StepOf

LEMMA InOrderStep == ASSUME Inv, [Next]_vars
                     PROVE  \A x \in Session : InOrder(x)'
  <1>1. ASSUME NEW s \in Session, StepOf(s), NEW x \in Session
        PROVE  InOrder(x)'
    <2>1. OpenAI' = OpenAI
      BY <1>1 DEF StepOf, Start, RequestFails, SecondRequestFails, ReplyWithCalls,
         ReplyWithText, ReplyDegraded, BeginCall, EndCall, Timeout, ThreadStep,
         UseRecord, FindNoRecord, CreateCache, CreateFails, InvalidateRecord, RecordUnreachable,
         AskingKept, asking, OpenAI
    <2>2. CASE x # s
      BY <1>1, <2>1, <2>2, OthersKept, KeptInOrder DEF Inv, InOrder
    <2> QED
      BY <1>1, <2>2, SessionStep
  <1>2. CASE UNCHANGED <<asking, job>>
    BY <1>2, KeptInOrder DEF asking, Inv, InOrder, InTurn, InSink, Told, OpenAI
  <1> QED
    BY <1>1, <1>2 DEF Next, StepOf, vars, RecordExpires, CacheDies

-----------------------------------------------------------------------------
(* The cache record *)

LEMMA AccountedStep == ASSUME Inv, [Next]_vars
                       PROVE  Accounted'
  <1>1. /\ Accounted /\ made \in Nat /\ lost \in Nat
        /\ record \in [name : (1 .. made) \cup {None}, fresh : BOOLEAN]
        /\ \A s \in Session : job[s] = "create" <=> lock = s
    BY DEF Inv, TypeOK
  <1>2. CASE UNCHANGED keeper
    BY <1>1, <1>2 DEF Accounted, Usable, keeper
  <1>3. CASE RecordExpires
    <2>1. record'.fresh = FALSE
      BY <1>1, <1>3 DEF RecordExpires
    <2> QED
      BY <1>1, <1>3, <2>1 DEF RecordExpires, Accounted, Usable
  <1>4. CASE \E c \in live : CacheDies(c)
    BY <1>1, <1>4 DEF CacheDies, Accounted, Usable
  <1>5. ASSUME NEW s \in Session, FindNoRecord(s)
        PROVE  Accounted'
    BY <1>1, <1>5 DEF FindNoRecord, Accounted, Usable
  <1>6. ASSUME NEW s \in Session, CreateCache(s)
        PROVE  Accounted'
    <2>1. ~ Usable /\ made <= lost /\ lock' = None /\ made' = made + 1
      BY <1>1, <1>6, TurnsAssumption DEF CreateCache, Accounted
    <2>2. CASE record' = [name |-> made', fresh |-> TRUE] /\ lost' = lost
      <3>1. record'.name = made' /\ record'.fresh
        BY <2>2
      <3>2. made' # None
        BY <1>1, <2>1, TurnsAssumption
      <3> QED
        BY <1>1, <2>1, <2>2, <3>1, <3>2 DEF Accounted, Usable
    <2>3. CASE record' = record /\ lost' = lost + 1
      BY <1>1, <2>1, <2>3 DEF Accounted, Usable
    <2> QED
      BY <1>6, <2>2, <2>3 DEF CreateCache
  <1>7. ASSUME NEW s \in Session, CreateFails(s)
        PROVE  Accounted'
    BY <1>1, <1>7 DEF CreateFails, Accounted, Usable
  <1>8. ASSUME NEW s \in Session, InvalidateRecord(s)
        PROVE  Accounted'
    <2>1. ~ Usable'
      BY <1>8 DEF InvalidateRecord, Usable
    <2> QED
      BY <1>1, <1>8, <2>1 DEF InvalidateRecord, Accounted, Usable
  <1>9. ASSUME NEW s \in Session, StepOf(s)
        PROVE  Accounted'
    BY <1>2, <1>5, <1>6, <1>7, <1>8, <1>9
    DEF StepOf, Start, RequestFails, SecondRequestFails, ReplyWithCalls,
        ReplyWithText, ReplyDegraded, BeginCall, EndCall, Timeout, ThreadStep,
        UseRecord, RecordUnreachable
  <1> QED
    BY <1>2, <1>3, <1>4, <1>9 DEF Next, StepOf, vars

LEMMA InvHolds == Spec => []Inv
  <1>1. Init => Inv
    <2> SUFFICES ASSUME Init
                 PROVE  Inv
      OBVIOUS
    <2>1. TypeOK
      BY InitTypes
    <2>2. Accounted
      BY DEF Init, Accounted, Usable
    <2>3. ASSUME NEW s \in Session
          PROVE  InTurn(s) /\ InSink(s) /\ Told(s)
      <3>1. /\ place[s] = "idle" /\ job[s] = "none" /\ MaxTurns[s] \in Nat
            /\ progress[s].replies = 0 /\ sink[s] = 0 /\ reported[s] = 0
        BY TurnsAssumption DEF Init
      <3> QED
        BY <3>1 DEF InTurn, InSink, Told
    <2> QED
      BY <2>1, <2>2, <2>3 DEF Inv
  <1>2. Inv /\ [Next]_vars => Inv'
    BY TypeStep, AccountedStep, InOrderStep DEF Inv, InOrder
  <1> QED
    BY <1>1, <1>2, PTL DEF Spec

-----------------------------------------------------------------------------
(* Theorems *)

\* Every variable keeps its shape, and the lock of the record is held by at most
\* the one session whose thread makes a cache.
THEOREM TypeCorrect == Spec => []TypeOK
  BY InvHolds, PTL DEF Inv

\* No session gets more replies than its budget of turns, restarted or not, and
\* one that used them all up says so.
THEOREM BudgetsHold == Spec => []BudgetHolds
  <1>1. Inv => BudgetHolds
    <2> SUFFICES ASSUME Inv, NEW s \in Session,
                        outcome[s].failure = "turn_budget_exhausted"
                 PROVE  outcome[s].replies = MaxTurns[s]
      BY DEF BudgetHolds, Inv, InTurn
    <2>1. outcome[s] # NoResult
      BY DEF NoResult
    <2> QED
      BY <2>1 DEF Inv, TypeOK, Told
  <1> QED
    BY InvHolds, <1>1, PTL

\* What a model reported is in the result, over the restart of its session.
THEOREM NoFindingIsLost == Spec => []FindingsSurvive
  <1>1. Inv => FindingsSurvive
    BY DEF Inv, Told, FindingsSurvive
  <1> QED
    BY InvHolds, <1>1, PTL

\* A session that completes has replies, and its model meant to complete it.
THEOREM CompletionsAreMeant == Spec => []CompletionIsMeant
  <1>1. Inv => CompletionIsMeant
    BY DEF Inv, Told, CompletionIsMeant
  <1> QED
    BY InvHolds, <1>1, PTL

\* Sessions that share a prefix make no cache twice: each one after the first was
\* made because a record was lost.
THEOREM NoCacheTwice == Spec => []OneCachePerLoss
  <1>1. Inv => OneCachePerLoss
    BY DEF Inv, TypeOK, Accounted, OneCachePerLoss
  <1> QED
    BY InvHolds, <1>1, PTL

=============================================================================
