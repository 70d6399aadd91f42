SPECIFICATION FairSpec
CONSTANTS
  a = a
  b = b
  c = c
  d = d
  e = e
  Tasks = {a, b, c, d, e}
  Deps <- TwoJoins
  NeedsApproval = {b, d}
  Skips = {c}
  MayFail = {c}
  MaxRuns = 3
  MaxAnswers = 2
  None = None
INVARIANTS TypeOK DependenciesFirst GraphEnds
PROPERTY CallersReturn
CHECK_DEADLOCK FALSE
