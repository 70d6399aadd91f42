CONSTANTS
  MaxSignals = 3
  Starters = {}
  Closers = {}
  Monitor = auto
  Nobody = nobody
  AutoClose = TRUE
  Pausing = TRUE
  MaxSeals = 0
  MaxFaults = 0
SPECIFICATION FairSpec
CHECK_DEADLOCK FALSE
PROPERTIES AutoCloses
