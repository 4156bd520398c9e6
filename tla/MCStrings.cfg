CONSTANTS
  Jobs <- MCJobs
  Window = 6
  MaxUnits = 40
  MinSegment = 5
  MaxJsonDepth = 3
  MaxSchema = 30
  MinDeflated = 3
  Data <- MCData
  Deflates = {0, 1, 5, 12, 47}
  Objects <- MCObjects
  Nodes <- MCNodes
  Supplementary = {128512}
SPECIFICATION StrSpec
INVARIANTS
  BuffersRespected
  KeepsCharacters
  EncodesExactly
  SegmentsRespected
  JsonExact
  GzipComplete
  Base64InBounds
  Base64Exact
PROPERTIES
  StringsTerminate
CHECK_DEADLOCK FALSE
