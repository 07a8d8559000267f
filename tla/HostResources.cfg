\* A Close from outside while a handler that uses the resources runs.
SPECIFICATION AppSpec
CONSTANTS
  Handlers = {h1}
  Supervised = TRUE
  Owned = TRUE
  ServerFails = FALSE
  Runners = {c1}
  Ready = {r1}
  Factories = {f1}
  Engined = {f1}
  Services = {s1}
INVARIANT ResourcesCloseDrained
CHECK_DEADLOCK FALSE
