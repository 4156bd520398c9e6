CONSTANTS
  MinSlots = 3
  MinBytes = 8
  BytesPerChar = 3
  MaxInt = 7
  Values <- MCValues
  Maps <- MCMaps
  Throwing <- MCThrowing
  AllLimits <- MCLimits
  Absent = Absent
  MaxCalls = 2
  MaxLeases = 2
SPECIFICATION SerSpec
INVARIANTS
  LiveSeparate
  ViewsStable
  RootsIntact
  MetricsExact
  SlotsBounded
PROPERTIES
  Terminates
  UsesArena
CHECK_DEADLOCK FALSE
