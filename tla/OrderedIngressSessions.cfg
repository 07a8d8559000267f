\* The component alone: sessions are switched at any time, admissions of an
\* old session are still held and completed.
SPECIFICATION Spec
CONSTANTS
  Streams = {s1, s2, s3}
  Epochs = {e1, e2}
  Peers = {p1}
  Requests = {r1}
  Outcomes <- PlainOutcomes
  InvalidErrors <- PlainInvalidErrors
  SafeError <- MCSafeError
  Size <- PlainSize
  MaxStreams = 2
  MaxResults = 2
  MaxBytes = 3
  MaxSeq = 2
SYMMETRY SessionSymmetry
INVARIANTS OneSessionPerStream SequenceNamesOneExecution OneFate CacheInSync
           CacheWithinLimits
PROPERTIES ConsumedForever
CHECK_DEADLOCK FALSE
