\* An outside Close during the drain of a server that does not fail.
SPECIFICATION Spec
CONSTANTS
  Handlers = {h1, h2}
  Supervised = TRUE
  Owned = TRUE
  ServerFails = FALSE
INVARIANTS CloseNeverParks
CHECK_DEADLOCK FALSE
