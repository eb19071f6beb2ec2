SPECIFICATION LiveSpec
CONSTANTS
  m1 = m1
  Masters = {m1}
  Worker = Worker
  None = None
  Tasks = {1, 2}
  PreloadTasks = 1
  TaskDuplicate = 1
  RequestArgs = 1
  MaxElections = 1
  MaxCrashes = 0
  MaxDbFailures = 1
  MaxMessages = 1
PROPERTY StoreDrains
PROPERTY TaskGetsResult
