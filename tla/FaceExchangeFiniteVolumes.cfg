CONSTANTS
  Columns = 3
  Rows = 3
  Ranks <- MCRanks
  Owner <- MCOwner
  Turn <- MCTurn
  Solvers <- MCSolversWithFiniteVolumes
  Requests <- MCRequests
SPECIFICATION Spec
INVARIANTS
  FacesMergedBeforeUpdate
