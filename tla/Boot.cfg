\* Each table from too small for its first test up to exactly large enough
\* for all of them.
CONSTANTS
  Channels = {0, 1, 2}
  Messages = {0, 1, 2, 3}
  TaskSlots = {1, 2, 3, 4, 5}
  Frames = {0, 3}
  Buffers = {0, 1, 2, 3}
  Checkpoints = {0, 1, 2}
  Slots = {0, 1}
  LogSize = 4
  Writes = 6
SPECIFICATION Spec
INVARIANTS BootIsClean
CHECK_DEADLOCK FALSE
