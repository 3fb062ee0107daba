CONSTANTS
  coarse = coarse
  first = first
  second = second
  NoCell = NoCell
  Cells <- MCCells
  Parent <- MCParent
  HelperCells = 1
  LastSweep = "Prediction"
  MaxReserved = 14
SPECIFICATION FairSpec
INVARIANTS
  CompressesUncompressed
