SPECIFICATION Spec
CONSTANTS
  InstanceName = "instance"
  Label <- NoLabels
  Scripts <- MCScripts
  FetchError = FetchError
  NoHost = NoHost
  NoLevel = NoLevel
  Never = Never
  Contents = {"A", "B", "C", "D", "E"}
  ConfigOf <- MCConfigOf
  Workers <- MCWorkers
  AllJobs = {"j", "k"}
  Outcomes = {"done", "backoff"}
  MaxTime = 1
  MaxStarts = 2
  MaxFlaps = 1
  LateWorkers = {"w2"}
INVARIANTS ReplicasStartOnce PassIsMaximal PolicyIsObeyed OrphansGetTheirGrace
PROPERTY StartedTasksFit
CHECK_DEADLOCK FALSE
