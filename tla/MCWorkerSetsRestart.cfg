CONSTANTS
  w1 = w1
  w2 = w2
  w3 = w3
  Instances = {w1, w2, w3}
  ShardOf <- SharedShard
  LockOf <- SharedShard
  StartTime <- LaterTime
  AllowBump = FALSE
  Partitions = FALSE
  AfterLoss = FALSE
  MaxSchedulers = 2
  MaxDeaths = 1
  MaxLate = 1
  MayBeLate = {w1, w2}
SPECIFICATION Spec
CHECK_DEADLOCK FALSE
INVARIANTS  TaskedWorkersAreKnown
