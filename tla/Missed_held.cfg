\* A connection breaks while the server holds its request.
SPECIFICATION ChannelSpec
CONSTANTS
  MaxRid = 6
  MaxConn = 8
  MaxStanza = 2
  InitRid = 1
  WindowSize = 2
  MaxBoshConnections = 2
  PidginCompatible = FALSE
  HoldAttrs = {1}
  AckModes = {TRUE, FALSE}
  Acks = {0}
  Kinds = {"poll", "data"}
  RepeatsAhead = TRUE
  MaxPolls = 1
  MaxData = 1
  MaxFaults = 1
  Networks = {"cutting"}
INVARIANTS
  ReplyNotMissed
CHECK_DEADLOCK FALSE
