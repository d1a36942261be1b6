--------------------------- MODULE ReviewContract --------------------------
(***************************************************************************)
(* What one flow of argus promises its caller and the round history, with  *)
(* no graph, no reviewers and no channels: an attempt takes at most one    *)
(* decision about one head; that decision, and nothing else, is what is    *)
(* stored and what is returned; a halt is stored with a NULL verdict; an   *)
(* APPROVE carries a receipt for the head it approves.                     *)
(***************************************************************************)
CONSTANTS Head, None

VARIABLES
  running,    \* an attempt is under way
  decision,   \* what the attempt has decided, or None
  answer,     \* what the last attempt returned, or None
  stored      \* verdict and sha of the flow's row

cvars == <<running, decision, answer, stored>>

Decision == [head : Head, verdict : {"APPROVE", "BLOCKING"}, halted : BOOLEAN,
             receipt : Head \cup {None}]

\* A halt never approves; an approval is backed by a receipt for its head.
Sound(d) ==
  /\ d.halted => d.verdict = "BLOCKING"
  /\ d.verdict = "APPROVE" => d.receipt = d.head

CInit ==
  /\ running = FALSE
  /\ decision = None /\ answer = None
  /\ stored = [verdict |-> "NULL", sha |-> None]

\* A new attempt withdraws the verdict of the one before it, or fails to.
CBegin ==
  /\ ~ running /\ answer = None
  /\ running' = TRUE
  /\ stored' \in {stored, [stored EXCEPT !.verdict = "NULL"]}
  /\ UNCHANGED <<decision, answer>>

CDecide ==
  /\ running /\ decision = None
  /\ \E d \in Decision : Sound(d) /\ decision' = d
  /\ UNCHANGED <<running, answer, stored>>

CStore ==
  /\ running /\ decision # None
  /\ stored' = [verdict |-> IF decision.halted THEN "NULL"
                            ELSE decision.verdict,
                sha     |-> decision.head]
  /\ UNCHANGED <<running, decision, answer>>

CReturn ==
  /\ running /\ decision # None
  /\ answer' = decision
  /\ running' = FALSE /\ decision' = None
  /\ UNCHANGED stored

\* An attempt may always fail; it then answers nothing.
CAbort ==
  /\ running
  /\ running' = FALSE /\ decision' = None
  /\ UNCHANGED <<answer, stored>>

CNext == CBegin \/ CDecide \/ CStore \/ CReturn \/ CAbort

CSpec == CInit /\ [][CNext]_cvars

=============================================================================
