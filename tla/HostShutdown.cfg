\* Every interleaving of registration, two calls of run, shutdown, deadlines, an
\* outside Close and a failing server.
SPECIFICATION FairAppSpec
CONSTANTS
  Handlers = {h1, h2}
  Supervised = TRUE
  Owned = TRUE
  ServerFails = TRUE
  Runners = {c1, c2}
  Ready = {r1}
  Factories = {f1}
  Engined = {f1}
  Services = {s1}
INVARIANTS OneRunInProcess ResourcesSettled ResourcesOutliveHandlers ReleaseBehindClose ExitTellsTruth
PROPERTIES StateNeverGoesBack RunReturns
CHECK_DEADLOCK FALSE
