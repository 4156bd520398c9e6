CONSTANTS
  rules = rules
  data = data
  broken = broken
  WithRules = {rules}
  Others = {data}
  Invalid = {broken}
  Nothing = Nothing
  Paths <- AccentedPaths
SPECIFICATION Spec
INVARIANTS
  BuildsAsAsked
