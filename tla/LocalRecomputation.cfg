CONSTANTS
  aderdg = aderdg
  limiting = limiting
  volumes = volumes
  Solver = {aderdg, limiting}
  TypeOf <- MCTypeOf
  TimeStepping <- MCGlobal
  StepSizes = {1, 2}
  MeshRequesters = {}
  Changes = {"Regular", "Irregular"}
  EndTime = 3
  MaxUnstable = 1
  MaxDouble = 100
  WeightInTenths = 9
SPECIFICATION Spec
INVARIANTS
  TypeOK
  NeverReceivesUnsent
  SolutionIsAtCorrectorStamp
  GenerationsJoin
