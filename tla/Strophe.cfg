\* wait 20 s and three sends stand to one another as 60 s and five: only the last backoff is longer than TIMEOUT.
SPECIFICATION FairSpec
CONSTANTS
  MaxRequests = 2
  MaxLives = 2
  Wait = 20
  Window = 2
  MaxSends = 3
  MaxErrors = 1
INVARIANTS
  HandledOnce
  NoRidSkipped
PROPERTIES
  RequestEnds
  DisconnectEnds
CHECK_DEADLOCK FALSE
