SPECIFICATION LiveSpec
CONSTANTS
  Retry = 3
  Outputs = {"measured", "empty"}
  Scenarios <- DeepScenarios
PROPERTY Terminates
