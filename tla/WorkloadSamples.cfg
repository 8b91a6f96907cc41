SPECIFICATION FairRunSpec
CONSTANTS
  Retry = 3
  Outputs = {"measured", "empty", "noise", "nan"}
  Scenarios <- DeepScenarios
INVARIANT ResultsSound
PROPERTIES
  GivesUpOnlyAfterRetries
  Terminates
