\* Clients that send nothing more after what cannot be parsed.
SPECIFICATION FairSocketSpec
CONSTANTS
  Conns = {c1, c2}
  MaxMessages = 2
  MaxEvents = 1
  MaxPongs = 1
  Messages = {"open", "close", "invalid"}
  GoesOn = FALSE
  Pings = TRUE
  Late = TRUE
INVARIANTS
  NothingAfterClose
  EndsOnce
  NothingLeft
PROPERTIES
  DeadConnectionCloses
CHECK_DEADLOCK FALSE
