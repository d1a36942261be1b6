SPECIFICATION Spec
CONSTANTS
  h1 = h1
  h2 = h2
  i1 = i1
  None = None
  Head = {h1, h2}
  Pinned <- UnpinnedOrFirst
  Planned = {groupA, groupB, groupC}
  AlwaysOn = {cross, docs}
  GapFill = {}
  Issue = {i1}
  DescriptionOf <- OwnText
  LlmRisk <- LowOnly
  DispatchBudget = 3
  FanoutCeiling = 4
  PlanAttempts = 2
  MaxAttempts = 1
  MaxPushes = 0
  PostgresCheckpointer = FALSE
  HttpHistory = TRUE
  BlockOnScannerFailure = TRUE
SYMMETRY Alike
INVARIANTS
  TypeOK
  ApproveIsEarned
  DispatchBounded
PROPERTY
  HaltStopsWork
CHECK_DEADLOCK FALSE
