\* A shutdown is requested once while the control thread goes to sleep.
SPECIFICATION FairSpec
CONSTANTS
  Handlers = {h1}
  Supervised = TRUE
  Owned = FALSE
  ServerFails = FALSE
PROPERTIES RequestIsHeard
CHECK_DEADLOCK FALSE
