SPECIFICATION Spec
CONSTANTS
  MaxBuffers = 1
  MaxSize = 4
  Alignments = {1, 2}
  Types = {"fixed", "grow", "wrap"}
  Data <- MCData
CHECK_DEADLOCK FALSE
INVARIANTS
  ReadsBack
  WrapsAround
