CONSTANTS
  NotFound = NotFound
  Cells = 2
  Children = 2
  MaxLevel = 2
  Criteria <- MCWave
  MaxUpdates = 2
  MaxInconsistent = 1
  ExtraIterations = 3
SPECIFICATION FairSpec
INVARIANTS
  TypeOK
  EventFitsType
  OnlyDescendantsAreReplaced
  RestrictionFindsSolutions
  ChildrenHaveParents
  StableMeshIsASpacetree
  RefinedWhereAsked
PROPERTIES
  MeshUpdateEnds
