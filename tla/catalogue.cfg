SPECIFICATION FairSpec
CONSTANTS
  Pages = 2
  Scans = {"s1"}
  Readers = {"wall", "chip"}
  Wanted <- MCWanted
  MaxWrites = 1
  MaxFaults = 1
INVARIANTS KeptIsExact AnswersAreComplete
PROPERTIES RequestsEnd ScansAreFollowed
CHECK_DEADLOCK FALSE
