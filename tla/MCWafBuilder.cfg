CONSTANTS
  rules = rules
  data = data
  broken = broken
  WithRules = {rules}
  Others = {data}
  Invalid = {broken}
  Nothing = Nothing
  Paths <- MixedPaths
SPECIFICATION Spec
INVARIANTS
  AsciiAsAsked
