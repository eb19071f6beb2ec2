SPECIFICATION LiveSpec
CONSTANTS
  GroupSize = 3
  Started = {1, 2, 3}
  MaxStarts = 0
  MaxCrashes = 1
  MaxMerges = 0
  MaxResets = 1
  MaxMessages = 1
CHECK_DEADLOCK FALSE
INVARIANT SinglePrimary
PROPERTY EventuallyAgreed
