SPECIFICATION Spec
CONSTANTS
  full = full
  base = base
  feature = feature
  task = task
  otherTask = otherTask
  w1 = w1
  w2 = w2
  FullKeys = {}
  BaseKeys = {}
  FeatureKeys = {}
  TaskKeys = {task}
  Ws <- MCWs
  Copies = {1}
  Concurrency = 1
  MaxRetry = 1
  MaxEvents = 3
PROPERTY DuplicatesFetchLatest
CHECK_DEADLOCK FALSE
