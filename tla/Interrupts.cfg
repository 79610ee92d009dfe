\* A timer, a device on each PIC, and a task that kernel_task yields to.
SPECIFICATION FairSpec
CONSTANTS
  Devices = {7, 15}
  Kernel = k
  Tasks = {k, t}
  Levels = {1, 2, 3}
  MaxNest = 2
  MaxTicks = 2
INVARIANTS InServiceExact LevelKept CountedOnce
PROPERTIES TickServed
