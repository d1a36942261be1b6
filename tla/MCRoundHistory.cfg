SPECIFICATION Spec
CONSTANTS
  h1 = h1
  h2 = h2
  rebased = rebased
  None = None
  Flow = {f1}
  Local = {l1}
  Head = {h1, h2, rebased}
  Settings <- MCSettings
  MaxTries = 2
  PostgresCheckpointer = TRUE
SYMMETRY Alike
INVARIANTS
  ChainUnbroken
  StoredOncePerAttempt
  LatestIsOfNewestHead
PROPERTY
  HaltMovesNothing
CHECK_DEADLOCK FALSE
