SPECIFICATION FairSpec
CONSTANTS
  Scanner = {"semgrep", "squawk", "zizmor"}
  Semgrep = "semgrep"
  FindingsExit = {"squawk"}
  ParseToNone = {}
  MayLackInputs = {"zizmor"}
  Finding <- MCFinding
  Printable <- MCPrintable
  Rule = {"r1", "r2"}
  MaxResults = 1
  MaxStarted = 2
  Scopes <- MCScopes
  Statuses <- MCStatuses
  Garbage = Garbage
  Misshapen = Misshapen
  NoInputs = NoInputs
  None = None
INVARIANTS
  FailuresAreNamed
  NoChildIsAbandoned
PROPERTIES
  VerifiedIsNeverCapped
  ScansEnd
  ChildrenEnd
CHECK_DEADLOCK FALSE
