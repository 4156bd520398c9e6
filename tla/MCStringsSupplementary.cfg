CONSTANTS
  Jobs <- MCJobs
  Window = 6
  MaxUnits = 40
  MinSegment = 5
  MaxJsonDepth = 3
  MaxSchema = 30
  MinDeflated = 3
  Data <- MCData
  Deflates = {0, 1, 5, 12, 47}
  Objects <- MCObjects
  Nodes <- MCNodes
  Supplementary = {128512, 131083}
SPECIFICATION StrSpec
INVARIANTS
  SupplementaryExact
CHECK_DEADLOCK FALSE
