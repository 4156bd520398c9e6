CONSTANTS
  Updates <- MCUpdates
  ConfigLimits <- MCLimits
  Runs <- MCAllRuns
  FaultSets <- MCFaults
  NsPerUs = 3
  WordSize = 1000
  DefaultTimeout = 4
SPECIFICATION CallsSpec
INVARIANTS
  FirstFailureReported
  ResourcesReturned
  ConversionsExact
  BudgetRespected
