CONSTANTS
  aderdg = aderdg
  limiting = limiting
  volumes = volumes
  Solver = {aderdg, limiting}
  TypeOf <- MCTypeOf
  TimeStepping <- MCGlobal
  StepSizes = {1, 2}
  MeshRequesters = {limiting}
  Changes = {"Regular", "IrregularRequiringMeshUpdate"}
  EndTime = 2
  MaxUnstable = 1
  MaxDouble = 100
  WeightInTenths = 9
SPECIFICATION Spec
INVARIANTS SolutionIsAtCorrectorStamp
