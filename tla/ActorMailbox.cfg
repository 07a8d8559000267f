SPECIFICATION FairSpec
CONSTANTS
  Tasks = {t1, t2, t3, t4}
  Coroutines = {c1, c2}
  Capacity = 2
  NoTask = NoTask
INVARIANTS TypeOK OneDrain NoOrphan AcceptanceOrder
PROPERTIES AcceptedRuns ImplementsSerialServer
CHECK_DEADLOCK FALSE
