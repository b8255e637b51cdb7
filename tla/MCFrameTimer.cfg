CONSTANTS
  Second = 20
  Catchup = 1
  Speeds = {2, 4}
  Stall = 19
SPECIFICATION Spec
INVARIANTS TypeOK NotTooFast AtMostBehind
PROPERTIES OffsetAdvanced FramesKeepComing
