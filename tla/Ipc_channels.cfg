SPECIFICATION IpcSpec
CONSTANTS
  MaxSockets = 2
  MaxPipes = 1
  MaxQueued = 1
  MaxMessages = 2
  MaxSubs = 1
  Timeout = 0
  Protocols = {"PUSH", "PULL"}
  Topics = {}
  MaxJiffies = 0
  MaxOpens = 2
  MaxChannels = 2
  CapSets = {{"SEND", "RECV"}, {"SEND", "PRIVILEGED", "CROSS"}}
  Domains = {0, 1, 9}
  Matrix = {0, 1}
  RingRoom = 2
  DrainBatch = 1
INVARIANTS ChannelsOwnSockets LinksAuthorized
