CONSTANTS
  w1 = w1
  w2 = w2
  w3 = w3
  Instances = {w1, w2, w3}
  ShardOf <- OwnShard
  LockOf <- OwnShard
  StartTime <- SameTime
  AllowBump = FALSE
  Partitions = FALSE
  AfterLoss = FALSE
  MaxSchedulers = 1
  MaxDeaths = 1
  MaxLate = 0
  MayBeLate = {}
SPECIFICATION Spec
SYMMETRY Symmetry
CHECK_DEADLOCK FALSE
INVARIANTS TypeOK NoConsensusWithoutTasked
