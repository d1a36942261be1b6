\* Two of everything that may fail, two issues, every risk and verdict.
SPECIFICATION Spec
CONSTANTS
  i1 = i1
  i2 = i2
  Session = {cross, docs}
  Scanner = {ruff, gitleaks}
  Issue = {i1, i2}
  DescriptionOf <- OwnText
SYMMETRY Alike
INVARIANTS
  EachGapReportedOnce
  ApproveIsClean
PROPERTIES
  NeverLooser
  BlockingIsExplained
CHECK_DEADLOCK FALSE
