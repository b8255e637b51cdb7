CONSTANTS
  Timelines = {0, 1}
  Moments <- MCMoments
  Unit = 2
  Speeds <- MCSpeeds
  Positions <- MCPositions
  Reach = 7
SPECIFICATION Spec
INVARIANTS PassedExactly
PROPERTIES MomentsRecur
