SPECIFICATION LiveSpec
CONSTANTS
  GroupSize = 3
  Started = {1, 2, 3}
  MaxStarts = 0
  MaxCrashes = 0
  MaxMerges = 0
  MaxResets = 0
  MaxMessages = 1
CHECK_DEADLOCK FALSE
PROPERTY ElectedIsUpgraded
