SPECIFICATION Spec
CONSTANTS
  Inputs <- SystemVirtctl
  VMRetry = 2
  SSHRetry = 2
  Retry = 2
INVARIANT SystemBinaryStays
