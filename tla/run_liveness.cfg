SPECIFICATION FairSpec
CONSTANTS
  LastChunk = 1
  Workers = {w1, w2}
  Sources = {s1, s2}
  s1 = s1 s2 = s2 w1 = w1 w2 = w2
  Ranged = {s1, s2}
  Honest = {s1}
  FaultPatterns = {{s2}, {s1, s2}}
  PerSource = 2
  Checksums = TRUE
  MaxAttempts = 3
  MaxPasses = 1
  Strikes = 2
  Requests = {"pause", "cancel", "crash"}
  MaxRequests = 1
PROPERTIES RepairConverges RunEnds
CHECK_DEADLOCK FALSE
