SPECIFICATION Spec
CONSTANTS
  Ops = {"deployment", "vmi", "namespace"}
  Target = "target"
  Others = {"other"}
  MaxChanges = 4
INVARIANTS
  TypeOK
  SuccessMeansReached
  EmptyPodListOnlyIfLost
  CrashNeedsCause
PROPERTIES
  ReadyIsNoticed
  DeletionIsNoticed
