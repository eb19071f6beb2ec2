SPECIFICATION LiveSpec
CONSTANTS
  p1 = p1
  p2 = p2
  c1 = c1
  c2 = c2
  Producers = {p1, p2}
  Consumers = {c1, c2}
  queue_size = 3
  num_producers = 1
  Messages <- MCMessages
  MaxSize = 2
  Nothing = Nothing
INVARIANT TypeOK
INVARIANT NoSleepOverMessages
INVARIANT NoSleepAtEmptyQueue
INVARIANT NoWaitAfterFinish
PROPERTY FifoSpec
PROPERTY FinishDrains
