SPECIFICATION Spec
CONSTANTS
  Session = {s1}
  Pid = {p1}
  PoolSize = 1
  None = None
PROPERTY
  CompletedIsNotTimedOut
CHECK_DEADLOCK FALSE
