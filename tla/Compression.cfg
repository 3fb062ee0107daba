CONSTANTS
  coarse = coarse
  first = first
  second = second
  NoCell = NoCell
  Cells <- MCCells
  Parent <- MCParent
  HelperCells = 1
  LastSweep = "FinaliseMeshRefinement"
  MaxReserved = 14
SPECIFICATION FairSpec
INVARIANTS
  TypeOK
  HeapRestsWhileItChanges
  CellsInsideAreUncompressed
  ByteEntriesSuffice
PROPERTIES
  EveryCellIsLeft
