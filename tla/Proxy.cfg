\* Any client and any server; the server may send what it likes, when it likes.
SPECIFICATION FairSpec
CONSTANTS
  MaxNodes = 2
  MaxRestarts = 1
  MaxItems = 4
  Items = {"open", "offer", "proceed", "stanza", "close", "huge"}
  Routes = {TRUE, FALSE}
  Refusals = {TRUE, FALSE}
  NoTls = TRUE
  Orderly = FALSE
INVARIANTS
  SilentWhenOver
  NodesKeepOrder
PROPERTIES
  SocketReleased
  EndReported
CHECK_DEADLOCK FALSE
