SPECIFICATION Spec
CONSTANTS
  h1 = h1
  h2 = h2
  i1 = i1
  None = None
  Head = {h1}
  Pinned <- Unpinned
  Planned = {}
  AlwaysOn = {cross, docs}
  GapFill = {}
  Issue = {}
  DescriptionOf <- OwnText
  LlmRisk <- LowOnly
  DispatchBudget = 3
  FanoutCeiling = 3
  PlanAttempts = 1
  MaxAttempts = 2
  MaxPushes = 0
  PostgresCheckpointer = TRUE
  HttpHistory = FALSE
  BlockOnScannerFailure = TRUE
INVARIANT
  FreshFastFail
CHECK_DEADLOCK FALSE
