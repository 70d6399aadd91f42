SPECIFICATION FairSpec
CONSTANTS
  h1 = h1
  h2 = h2
  r1 = r1
  r2 = r2
  Hosts = {h1, h2}
  Requests = {r1, r2}
  Driver = driver
  None = None
  MaxWaits = 2
  MaxCalls = 2
  Modes <- AllModes
INVARIANTS TypeOK Answerable
PROPERTY LastAnswerCloses
CHECK_DEADLOCK FALSE
