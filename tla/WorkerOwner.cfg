SPECIFICATION FairSpec
CONSTANTS
  h1 = h1
  Threads = {h1}
  Masters = {1, 2}
  RingOrder <- SecondFirst
  None = None
  Tasks = {1}
  TaskDuplicate = 1
  MaxRequests = 1
  MaxExpiries = 0
  MaxCrashes = 2
  MaxResets = 0
PROPERTY ServedAgain
