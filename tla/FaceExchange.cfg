CONSTANTS
  Columns = 3
  Rows = 3
  Ranks <- MCRanks
  Owner <- MCOwner
  Turn <- MCTurn
  Solvers <- MCSolvers
  Requests <- MCRequests
SPECIFICATION Spec
INVARIANTS
  TypeOK
  MessagesFit
  FacesMergedBeforeUpdate
PROPERTIES
  ImplementsFaceMerging
