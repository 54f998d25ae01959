SPECIFICATION FairSpec
CONSTANTS
  Calls = {1, 2}
  Placements <- MCPlacements
  Dialler = "dialler"
  Answerer = "answerer"
  MaxSessions = 1
  MaxBuffered = 1
  MaxUp <- MCMaxUp
  MaxDown <- MCMaxDown
INVARIANT CarryingIsBounded
PROPERTIES CarriesPipes EndsAreReleased
CHECK_DEADLOCK FALSE
