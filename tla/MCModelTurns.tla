---------------------------- MODULE MCModelTurns ---------------------------
(* Values for the constants of ModelTurns that a .cfg cannot write down. *)
EXTENDS ModelTurns, TLC

CONSTANTS s1, s2

\* Two Gemini sessions, which share the cache record, or one of OpenAI.
GeminiOrOpenAI ==
  { [s \in Session |-> "gemini"], (s1 :> "openai") @@ (s2 :> "claude") }

\* The second session is there for what it does to the record.
TwoAndOne == (s1 :> 2) @@ (s2 :> 1)

=============================================================================
