SPECIFICATION FairSpec
CONSTANTS
  Capacity = 4
  DrainBatch = 2
  HeartbeatEvery = 3
  LogEntries = 2
  CounterRange = 4
  MaxPushes = 7
  MaxLogged = 6
INVARIANTS RingHolds Accounted LogKeepsNewest
PROPERTIES SentInOrder EventuallySent
