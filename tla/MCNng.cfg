SPECIFICATION Spec
CONSTANTS
  MaxSockets = 3
  MaxPipes = 3
  MaxQueued = 1
  MaxMessages = 3
  MaxSubs = 2
  Timeout = 0
  Protocols = {"PAIR", "PUB", "SUB", "REQ", "REP", "PUSH", "PULL", "BUS", "SURVEYOR", "RESPONDENT"}
  Topics = {"a"}
  MaxJiffies = 1
  MaxOpens = 2
CONSTRAINT Small
CHECK_DEADLOCK FALSE
INVARIANTS PoolConserved StartsClean RoundRobin
