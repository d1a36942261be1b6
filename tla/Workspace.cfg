SPECIFICATION FairSpec
CONSTANTS
  Run = {r1, r2}
  None = None
INVARIANTS
  PeersLeaveTrees
  NothingLeft
PROPERTY
  RunsEnd
CHECK_DEADLOCK FALSE
