SPECIFICATION PlannerSpec
CONSTANTS
  MaxChunks = 4
  MinChunkSize = 2
  SizeUnit = 3
  InsertBatch = 2
  Sizes = {0, 1, 2, 5, 6, 7, 8, 9, 13}
  Configured = {0, 2, 3}
INVARIANTS PiecesTile OnlyACutTears
PROPERTY ResumeKeepsGeometry
