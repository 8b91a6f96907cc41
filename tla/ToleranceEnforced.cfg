SPECIFICATION Spec
CONSTANTS
  Inputs <- TwoDrivers
  NaN = NaN
  Attempts = 3
  MaxFaults = 0
INVARIANT ToleranceEnforced
