SPECIFICATION LiveSpec
CONSTANTS
  Kinds = {"data", "release"}
  Automatic = {"release"}
  Catalogs = {3}
  Polling = TRUE
  MaxWriters = 3
  MaxChaos = 0
PROPERTY GreenIsHandled
CHECK_DEADLOCK FALSE
