SPECIFICATION Spec
CONSTANTS
  Retry = 1
  Outputs = {"measured", "empty"}
  Scenarios <- WideScenarios
INVARIANT TypeOK
PROPERTY ImplementsPlan
