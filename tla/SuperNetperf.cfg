SPECIFICATION Spec
CONSTANTS
  MaxStreams = 3
  MaxScripts = 4
  MaxCuts = 2
INVARIANTS
  TypeOK
  SumIsOwn
  LeavesNoFile
