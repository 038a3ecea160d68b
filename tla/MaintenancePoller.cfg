SPECIFICATION LiveSpec
CONSTANTS
  Kinds = {"data", "release"}
  Automatic = {"release"}
  Catalogs = {3}
  Polling = TRUE
  MaxWriters = 2
  MaxChaos = 0
INVARIANT DispatchOnce
PROPERTY GreenIsPickedUp
CHECK_DEADLOCK FALSE
