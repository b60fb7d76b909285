\* Requests overtake one another and are lost, or replies are lost.
SPECIFICATION ChannelSpec
CONSTANTS
  MaxRid = 6
  MaxConn = 8
  MaxStanza = 2
  InitRid = 1
  WindowSize = 2
  MaxBoshConnections = 2
  PidginCompatible = FALSE
  HoldAttrs = {1}
  AckModes = {TRUE, FALSE}
  Acks = {0}
  Kinds = {"poll", "data"}
  RepeatsAhead = TRUE
  MaxPolls = 1
  MaxData = 1
  MaxFaults = 2
  Networks = {"overtaking", "losing"}
INVARIANTS
  NeverRefused
  ReplyNotMissed
PROPERTIES
  ImplementsChannel
  NodesArrive
CHECK_DEADLOCK FALSE
