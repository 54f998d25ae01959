SPECIFICATION FairSpec
CONSTANTS
  Files = {"film"}
  Size <- Sizes
  Requests = {"pause", "cancel", "discard", "crash"}
  MaxRequests = 7
CHECK_DEADLOCK FALSE
INVARIANTS SeedReadable OnlyAMisreadTears
PROPERTIES StopsAreHonoured PlacementIsAtomic MovesEnd
