\* Any client, well behaved or not, except that it repeats no request that waits for a lower rid; timers run.
SPECIFICATION FairSpec
CONSTANTS
  MaxRid = 4
  MaxConn = 4
  MaxStanza = 2
  InitRid = 1
  WindowSize = 2
  MaxBoshConnections = 2
  PidginCompatible = FALSE
  HoldAttrs = {0, 2}
  AckModes = {TRUE, FALSE}
  Acks = {0, 2}
  Kinds = {"data", "terminate"}
  RepeatsAhead = FALSE
INVARIANTS
  TypeOK
  HeldWithinHold
  QueueAhead
  AnsweredOnce
  NoStall
  StanzaOrder
  StanzaKept
  SilenceReported
PROPERTIES
  NodesInOrder
  EveryRequestAnswered
CHECK_DEADLOCK FALSE
