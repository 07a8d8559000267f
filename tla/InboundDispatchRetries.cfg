\* A retry and a pipelined sequence: two places in the service, one in the
\* mailbox, one retained reply.
SPECIFICATION FairSpec
CONSTANTS
  Calls <- MCCalls
  Scenarios <- MCScenarios
  Contents = {"a", "b"}
  Coroutines = {d1, d2}
  MaxInflight = 2
  Capacity = 1
  MaxResults = 1
  MaxSeq = 2
  NoTask = NoTask
INVARIANTS ServiceLimit HandlerRunsOnce AnswersAgree
PROPERTIES SequenceSettles EveryCallAnswered
CHECK_DEADLOCK FALSE
