SPECIFICATION InjSpec
CONSTANTS
  PlayerIndexes = {1}
  Keys = {key, arrow}
  Buttons = {button}
  ExtendedKeys = {arrow}
  PermissionSets <- Permissions
  MaxPads = 1
  InputFails = FALSE
  PadFails = FALSE
INVARIANT
  HeldBySomebody
