CONSTANTS
  aderdg = aderdg
  limiting = limiting
  volumes = volumes
  Solver = {aderdg, limiting, volumes}
  TypeOf <- MCTypeOf
  TimeStepping <- MCMixed
  StepSizes = {1, 2}
  MeshRequesters = {limiting}
  Changes = {"Regular", "IrregularRequiringMeshUpdate"}
  EndTime = 2
  MaxUnstable = 1
  MaxDouble = 100
  WeightInTenths = 9
SPECIFICATION FairSpec
INVARIANTS
  NeverReceivesUnsent
  OnlyUpdatingSolversAreUnstable
  GlobalRecomputationRefines
  RestartsFromZeroedStep
  GenerationsJoin
  PredictorMatchesCorrector
PROPERTIES
  BystandersAreLeftAlone
  ReachesEndTime
