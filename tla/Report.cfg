SPECIFICATION Spec
CONSTANTS
  Inputs <- AllInputs
  NaN = NaN
  Attempts = 3
  MaxFaults = 3
INVARIANTS
  TypeOK
  ArchivedAsMeasured
  NothingLostToArchiving
  GateExact
  FailsOnlyWithCause
