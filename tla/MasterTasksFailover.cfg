SPECIFICATION Spec
CONSTANTS
  m1 = m1
  m2 = m2
  Masters = {m1, m2}
  Worker = Worker
  None = None
  Tasks = {1}
  PreloadTasks = 1
  TaskDuplicate = 1
  RequestArgs = 1
  MaxElections = 2
  MaxCrashes = 1
  MaxDbFailures = 0
  MaxMessages = 1
SYMMETRY MastersSymmetry
INVARIANT TypeOK
INVARIANT ExportedAtMostOnce
PROPERTY LifeSpec
INVARIANT TaskHeldOnce
INVARIANT StoredTaskIsUntouched
PROPERTY PrimaryKeepsTask
