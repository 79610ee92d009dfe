SPECIFICATION UpdateSpec
CONSTANTS
  MaxActive = 2
  MaxSteps = 5
  MaxFaults = 2
  Updates = {u1, u2}
  Paths = {p}
  LongPaths = {}
  OwnKeys = {k}
  MaxCheckpoints = 2
  MaxInits = 2
  Overlap = TRUE
INVARIANTS CleanReversal
