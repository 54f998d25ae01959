SPECIFICATION Spec
CONSTANTS
  LastChunk = 1
  Workers = {w1, w2}
  Sources = {s1, s2}
  s1 = s1 s2 = s2 w1 = w1 w2 = w2
  Ranged = {s1, s2}
  Honest = {s1, s2}
  FaultPatterns = {{s1, s2}}
  PerSource = 1
  Checksums = FALSE
  MaxAttempts = 2
  MaxPasses = 1
  Strikes = 2
  Requests = {"pause", "cancel", "resume", "retry", "repair", "truncate", "drain", "crash"}
  MaxRequests = 2
INVARIANTS DoneIsOnDisk ClaimsAreExact
PROPERTIES OnlyAMishapTears
CHECK_DEADLOCK FALSE
