\* Client and server keep to RFC 6120; the server answers.
SPECIFICATION AnsweringSpec
CONSTANTS
  MaxNodes = 2
  MaxRestarts = 1
  MaxItems = 3
  Items = {"open", "features", "offer", "require", "proceed", "success", "stanza", "close"}
  Routes = {FALSE}
  Refusals = {FALSE}
  NoTls = FALSE
  Orderly = TRUE
INVARIANTS
  TlsHidden
PROPERTIES
  RestartReported
CHECK_DEADLOCK FALSE
