SPECIFICATION Spec
CONSTANTS
  LastChunk = 1
  Workers = {w1, w2}
  Sources = {s1, s2}
  s1 = s1 s2 = s2 w1 = w1 w2 = w2
  Ranged = {s1}
  Honest = {s1}
  FaultPatterns = {{s2}}
  PerSource = 1
  Checksums = TRUE
  MaxAttempts = 2
  MaxPasses = 1
  Strikes = 2
  Requests = {"pause", "cancel", "resume", "retry", "repair", "damage", "truncate", "drain", "crash"}
  MaxRequests = 2
PROPERTIES PlacedIsWhole
CHECK_DEADLOCK FALSE
