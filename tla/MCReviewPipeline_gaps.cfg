SPECIFICATION FairSpec
CONSTANTS
  h1 = h1
  h2 = h2
  i1 = i1
  None = None
  Head = {h1}
  Pinned <- Unpinned
  Planned = {}
  AlwaysOn = {cross, docs}
  GapFill = {gap1, gap2, gap3, gap4}
  Issue = {}
  DescriptionOf <- OwnText
  LlmRisk <- LowOnly
  DispatchBudget = 3
  FanoutCeiling = 3
  PlanAttempts = 1
  MaxAttempts = 1
  MaxPushes = 0
  PostgresCheckpointer = FALSE
  HttpHistory = FALSE
  BlockOnScannerFailure = TRUE
INVARIANTS
  FailedSessionBlocks
  DispatchBounded
PROPERTY
  AttemptEnds
CHECK_DEADLOCK FALSE
