CONSTANTS
  NotFound = NotFound
  Cells = 2
  Children = 2
  MaxLevel = 2
  Criteria <- MCWave
  MaxUpdates = 2
  MaxInconsistent = 0
  ExtraIterations = 3
SPECIFICATION Spec
INVARIANTS
  FacesHaveTwoSides
