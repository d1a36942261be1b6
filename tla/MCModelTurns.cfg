SPECIFICATION FairSpec
CONSTANTS
  s1 = s1
  s2 = s2
  None = None
  Session = {s1, s2}
  Benches <- GeminiOrOpenAI
  MaxTurns <- TwoAndOne
  MaxCaches = 2
INVARIANTS
  FindingsSurvive
  CompletionIsMeant
  BudgetHolds
  OneCachePerLoss
PROPERTIES
  ThreadsFinish
CHECK_DEADLOCK FALSE
