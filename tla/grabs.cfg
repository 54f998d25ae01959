SPECIFICATION FairSpec
CONSTANTS
  Items = {"e1", "e2"}
  Roots = {"films", "other"}
  Owners = {"pack", "single", "others"}
  Requests = {"suspend", "destination", "retry", "archive", "error", "remove", "lost", "arrival", "forget", "outage", "crash", "vanish", "garbled"}
  MaxRequests = 1
  Grabs = {"pack", "single"}
  Pack <- MCPack
  Wanted <- MCWanted
  Partial = {"pack"}
  Home = "films"
  Pollers = {"timer", "route"}
CHECK_DEADLOCK FALSE
INVARIANT OnlyLostIsCancelled
PROPERTIES FilingIsFinal  GrabsSettle LandingsEnd
