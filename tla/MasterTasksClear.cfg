SPECIFICATION Spec
CONSTANTS
  m1 = m1
  Masters = {m1}
  Worker = Worker
  None = None
  Tasks = {1, 2}
  PreloadTasks = 2
  TaskDuplicate = 1
  RequestArgs = 1
  MaxElections = 1
  MaxCrashes = 0
  MaxDbFailures = 0
  MaxMessages = 1
PROPERTY ClearedOnlyIfExported
