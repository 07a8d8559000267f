\* A sealed CoApp with room for one of two streams: caching, eviction and replay.
SPECIFICATION SealedSpec
CONSTANTS
  Streams = {s1, s2}
  Epochs = {e1}
  Peers = {p1, p2}
  Requests = {r1, r2}
  Outcomes <- MCOutcomes
  InvalidErrors <- MCInvalidErrors
  SafeError <- MCSafeError
  Size <- MCSize
  MaxStreams = 1
  MaxResults = 2
  MaxBytes = 3
  MaxSeq = 3
SYMMETRY ContentSymmetry
INVARIANTS TypeOK ReplyIsOwn
PROPERTIES ImplementsOrderedLog EvictsOldestUnderPressure
CHECK_DEADLOCK FALSE
