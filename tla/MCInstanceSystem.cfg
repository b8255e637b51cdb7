CONSTANTS
  Objects = {1, 2}
  Kinds <- MCKinds
  Calls = {"instance_create", "instance_copy", "instance_destroy", "instance_change", "instance_deactivate", "instance_activate"}
  Careful = TRUE
  MaxPlaced = 2
  MaxInst = 4
  MaxStack = 4
SPECIFICATION Spec
INVARIANTS TypeOK OnePlace RollsAgree UniqueIds NoDoubleUnlink StackValid
PROPERTIES ChangeReachesNew
