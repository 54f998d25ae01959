SPECIFICATION FairSpec
CONSTANTS
  Calls = {"a", "b"}
  Items = {1, 2}
  Pooled = FALSE
  Requests = {"pause", "resume", "retry", "cancel", "stop", "archive", "crash"}
  MaxRequests <- MCMaxRequests
INVARIANT TellsWhatHappened
PROPERTIES EndsAreEarned RunsEnd
CHECK_DEADLOCK FALSE
