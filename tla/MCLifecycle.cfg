CONSTANTS
  MaxSignals = 2
  Starters = {x1}
  Closers = {c1}
  Monitor = auto
  Nobody = nobody
  AutoClose = TRUE
  Pausing = TRUE
  MaxSeals = 1
  MaxFaults = 1
SPECIFICATION FairSpec
CHECK_DEADLOCK FALSE
INVARIANTS TypeOK SnapshotCurrent OnlyLateWorkLeft FailureReported FailedCloseReopens
PROPERTIES ClosesEnd AutoClosesUnrefused
CONSTRAINT SealsAlone
