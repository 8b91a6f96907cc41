SPECIFICATION Spec
CONSTANTS
  Inputs <- AllInputs
  VMRetry = 2
  SSHRetry = 2
  Retry = 2
INVARIANTS
  TypeOK
  OutputOfSuccess
  OneExtractedBinary
PROPERTY EndsUnlessStuck
