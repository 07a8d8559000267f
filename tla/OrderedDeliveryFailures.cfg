\* A call that fails behind consume_sequence.
SPECIFICATION Spec
CONSTANTS
  Threads = {1, 2}
  Openable <- MCGrants
  Granted <- Grant
  Contents = {"a", "b"}
  LastSeq = 2
  Services = {"svc"}
  Service = "svc"
  StaleLimit = 1
  Watched = {"svc"}
  Views <- MCViews
  MaxAnswers = 2
  Endpoints = {"e0", "e1", "e2"}
  Static = "e0"
  Hosts = {"e0", "e1"}
  MaxResults = 1
  Programs <- CallingPrograms
INVARIANT FailuresKeepSequence
CHECK_DEADLOCK FALSE
