CONSTANTS
  Rooms = {1, 2}
  Placed <- MCPlaced
  Persistent = {1}
  UserIds = {}
  Generations = {0, 1}
  Calls = {"instance_change", "instance_deactivate", "instance_activate"}
  Events = 2
  MaxDying = 1
  MaxAhead = 4
SPECIFICATION Spec
CHECK_DEADLOCK FALSE
INVARIANTS TypeOK UniqueIds NothingDeletedInUse CreateFirst LeavesPromptly
