CONSTANTS
  Ids = {1, 2, 3}
  Objects = {1, 2}
  Layer <- MCLayer
  Depths <- MCDepths
  Careful = TRUE
  MaxNode = 5
SPECIFICATION Spec
INVARIANTS AllDrawnOnce LayerKnown
PROPERTIES DrawnAtDepth
