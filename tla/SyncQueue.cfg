SPECIFICATION Spec
CONSTANTS
  full = full
  base = base
  feature = feature
  task = task
  otherTask = otherTask
  w1 = w1
  w2 = w2
  FullKeys = {full}
  BaseKeys = {base}
  FeatureKeys = {}
  TaskKeys = {task, otherTask}
  Ws <- MCWs
  Copies = {1}
  Concurrency = 2
  MaxRetry = 1
  MaxEvents = 3
INVARIANT Inv
PROPERTY OnlyKnownLoss
CHECK_DEADLOCK FALSE
