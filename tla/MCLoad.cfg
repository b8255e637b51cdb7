CONSTANTS
  Objects = {1, 2}
  Kinds <- MCKinds
  Calls = {"instance_destroy", "instance_deactivate", "game_save_buffer", "game_load_buffer"}
  Careful = TRUE
  MaxPlaced = 2
  MaxInst = 4
  MaxStack = 5
SPECIFICATION SpecSL
PROPERTIES LoadBringsBack
