CONSTANTS
  Columns = 6
  Cells <- MCCells
  Neighbours <- MCNeighbours
  IterationsToCure = 2
  TroubledSets <- MCTroubledSets
SPECIFICATION FairSpec
INVARIANTS
  TypeOK
  EveryFaceIsMerged
  SolutionsAreCurrent
  RecomputesFromTheStepBefore
  PredictorsAreCurrent
  StatusFollowsDistance
PROPERTIES
  PatchesAreAllocatedInOkCells
  TroubleIsCured
