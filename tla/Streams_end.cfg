\* A stream that ends while its session goes on.
SPECIFICATION Spec
CONSTANTS
  MaxRid = 4
  MaxStreams = 3
  MaxStanza = 2
  WindowSize = 2
  MAX_STREAMS_PER_SESSION = 2
  Hold = 1
INVARIANTS
  EndTold
CHECK_DEADLOCK FALSE
