SPECIFICATION Spec
CONSTANTS
  Clusters <- SmallClusters
  FlagSets <- Accepted
INVARIANTS
  TypeOK
  EndpointsRun
  EndsApartOrTogether
  AcrossLabelSound
  NodeInfoTruthful
PROPERTY SetupEnds
