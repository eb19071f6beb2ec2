SPECIFICATION FairSpec
CONSTANTS
  h1 = h1
  h2 = h2
  Threads = {h1, h2}
  Masters = {1}
  RingOrder <- SecondFirst
  None = None
  Tasks = {1, 2}
  TaskDuplicate = 2
  MaxRequests = 2
  MaxExpiries = 1
  MaxCrashes = 1
  MaxResets = 1
SYMMETRY ThreadsSymmetry
INVARIANT NoDanglingTask
INVARIANT ComputedOnce
 
