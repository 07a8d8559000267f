\* One stream that completes one reply more than the cache keeps.
SPECIFICATION SealedSpec
CONSTANTS
  Streams = {s1}
  Epochs = {e1}
  Peers = {p1}
  Requests = {r1}
  Outcomes <- PlainOutcomes
  InvalidErrors <- PlainInvalidErrors
  SafeError <- MCSafeError
  Size <- PlainSize
  MaxStreams = 1
  MaxResults = 1
  MaxBytes = 3
  MaxSeq = 2
INVARIANTS SeqsAreCached
CHECK_DEADLOCK FALSE
