SPECIFICATION FairSpec
CONSTANTS
  full = full
  base = base
  feature = feature
  task = task
  otherTask = otherTask
  w1 = w1
  w2 = w2
  FullKeys = {full}
  BaseKeys = {}
  FeatureKeys = {}
  TaskKeys = {task}
  Ws <- MCWs
  Copies = {1, 2}
  Concurrency = 2
  MaxRetry = 1
  MaxEvents = 3
INVARIANT Inv
PROPERTIES EveryJobLeaves OnlyKnownLoss
CHECK_DEADLOCK FALSE
