SPECIFICATION UpdateSpec
CONSTANTS
  MaxActive = 2
  MaxSteps = 5
  MaxFaults = 2
  Updates = {u1}
  Paths = {p, long}
  LongPaths = {long}
  OwnKeys = {k}
  MaxCheckpoints = 2
  MaxInits = 2
  Overlap = FALSE
INVARIANTS SnapshotHeld CleanReversal LeaksNeedFaults NoFaultNoFailure
