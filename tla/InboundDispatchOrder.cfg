\* Two sequences of a producer that does not wait for replies.
SPECIFICATION Spec
CONSTANTS
  Calls <- MCCalls
  Scenarios <- OrderScenarios
  Contents = {"a", "b"}
  Coroutines = {d1, d2}
  MaxInflight = 3
  Capacity = 2
  MaxResults = 2
  MaxSeq = 2
  NoTask = NoTask
INVARIANTS StreamOrderKept
CHECK_DEADLOCK FALSE
