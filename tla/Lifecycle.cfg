SPECIFICATION Spec
CONSTANTS
  FlagSets <- AllFlags
  MaxRuns = 3
  MaxPolls = 2
INVARIANTS
  TypeOK
  MeasuresOwnObjects
  CollidesOnlyWithDeleted
  CleanExitDeletesAll
