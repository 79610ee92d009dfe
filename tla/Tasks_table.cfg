SPECIFICATION FairSpec
CONSTANTS
  MaxTasks = 4
  MaxRunnable = 3
  MaxId = 6
  Caps = {"SEND", "CROSS"}
  CrossDomain = "CROSS"
  InitCaps = {"SEND"}
  Domains = {0, 10}
  Root = 0
  NibbleMax = 2
  Nibble = 3
  Byte = 9
INVARIANTS OneRunning Narrowing Resumable ReaderKnowsTasks
PROPERTIES LineageIsStable NoStarvation
CHECK_DEADLOCK FALSE
