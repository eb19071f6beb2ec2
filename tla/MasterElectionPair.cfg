SPECIFICATION LiveSpec
CONSTANTS
  GroupSize = 2
  Started = {1}
  MaxStarts = 2
  MaxCrashes = 2
  MaxMerges = 1
  MaxResets = 1
  MaxMessages = 2
CHECK_DEADLOCK FALSE
INVARIANT TypeOK
INVARIANT SinglePrimary
PROPERTY EventuallyAgreed
