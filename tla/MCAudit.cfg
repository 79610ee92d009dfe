SPECIFICATION Spec
CONSTANTS
  Byte = 9
  Nibble = 3
  MaxChannels = 2
  CapSets = {{"RECV", "PRIVILEGED"}, {"SEND", "PRIVILEGED", "CROSS"}}
  Domains = {0, 1, 10}
  Matrix = {0, 1}
  MaxPipes = 1
  RingRoom = 1
  DrainBatch = 1
  Protocols = {1}
  MaxCreated = 3
  Callers <- MCCallers
INVARIANTS GraphIsCurrent MsgNamesSender DenyExplains

CONSTRAINT MCBound
