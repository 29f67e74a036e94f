SPECIFICATION FairSpec
CONSTANTS
  OptionSets <- MCOptionSets
  Requests <- MCRequests
  SuicideTicks = 2
  QueueSize = 2
  FreezeTimeout = 0
  Statuses = {"done"}
  NoStatus = NoStatus
  Never = Never
  MaxQuota = 3
  MaxKills = 1
  MaxMisreads = 1
INVARIANTS StatusIsTheLastWord NothingOutlivesItsReport EarliestKillWins FatalOnlyWithoutFreezer PausedOnlyWithoutQuota WorkerLeavesNothing 
PROPERTIES KilledTasksAreReported SuicideSucceeds ImplementsLifecycle
CHECK_DEADLOCK FALSE
