\* Two requests over three periods of the timer, of up to five fragments of XML each.
SPECIFICATION Spec
CONSTANTS
  Requests = {r1, r2}
  NoCallback = NoCallback
  Period = 2
  MaxTime = 6
  MAX_DATA_HELD = 1
  MaxLength = 5
INVARIANTS
  OneOutcome
  NoneForgotten
  CallbacksCleared
  ParserClean
  ResultIsContents
PROPERTIES
  TimeToArrive
CHECK_DEADLOCK FALSE
