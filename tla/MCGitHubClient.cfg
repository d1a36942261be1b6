SPECIFICATION Spec
CONSTANTS
  h1 = h1
  h2 = h2
  fa = fa
  fb = fb
  fc = fc
  fd = fd
  fe = fe
  None = None
  Run = {r1, r2}
  Commit = {h1, h2}
  File = {fa, fb, fc, fd, fe}
  Bench = {fc}
  ChangedOf <- OverTheCap
  CompareCap = 2
  MaxFiles = 4
  PerPage = 2
  Token = "write"
  MaxOthers = 2
SYMMETRY Alike
INVARIANTS
  TypeOK
  BenchGuardHolds
  ApprovalIsReviewed
  OneComment
CHECK_DEADLOCK FALSE
