SPECIFICATION Spec
CONSTANTS
  Never <- LongAgo
  HealthcheckPeriod = 1
  HealthcheckGrace = 1
  HeartbeatPeriod = 1
  HeartbeatGrace = 3
  LoseAfter = 2
  CheckInterval = 1
  SafetyMargin = 1
  RpcTimeout = 1
  Skew <- Behind
  MaxUptime = 3
  MaxTime = 11
INVARIANTS SchedTypeOK HealthyByConsensus NoExtraHealthcheckCredit InitialWaitOutlivesWorker FenceInv
PROPERTIES WorkerSpec
CHECK_DEADLOCK FALSE
