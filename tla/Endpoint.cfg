SPECIFICATION Spec
CONSTANT Inputs <- AllInputs
INVARIANTS
  TypeOK
  SomethingAnswers
  MeasuresAsLabelled
  OnOneNetwork
  StopsOnlyWithCause
  SameDuration
  ProfileIsOwn
