SPECIFICATION FairSpec
CONSTANTS
  MaxActive = 2
  MaxSteps = 3
  MaxFaults = 2
CONSTRAINT ShortSecond
INVARIANTS CommitComplete Residue WriteAhead RecoverySettles
PROPERTIES ReverseOrder ImplementsSaga RunsToAnEnd
