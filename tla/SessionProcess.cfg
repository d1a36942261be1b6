SPECIFICATION FairSpec
CONSTANTS
  Session = {s1, s2}
  Pid = {p1, p2}
  PoolSize = 2
  None = None
INVARIANTS
  TypeOK
  TimeoutLeavesNothing
  KillStaysInTheSession
  LedgerIsRemoved
  AnswerIsWhole
PROPERTIES
  SessionsEnd
CHECK_DEADLOCK FALSE
