\* Up to three streams in one session.
SPECIFICATION Spec
CONSTANTS
  MaxRid = 4
  MaxStreams = 3
  MaxStanza = 2
  WindowSize = 2
  MAX_STREAMS_PER_SESSION = 2
  Hold = 1
INVARIANTS
  TablesAgree
  NotPassedOver
  NotMixed
CHECK_DEADLOCK FALSE
