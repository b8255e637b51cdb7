CONSTANTS
  Rooms = {1, 2}
  Placed <- MCPlaced
  Persistent = {1}
  UserIds = {3}
  Generations = {0, 1}
  Calls = {"instance_create"}
  Events = 1
  MaxDying = 1
  MaxAhead = 4
SPECIFICATION Spec
CHECK_DEADLOCK FALSE
INVARIANTS NothingDeletedInUse 
PROPERTIES SwitchCarriedOut EndsWhenAsked
