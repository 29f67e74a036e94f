SPECIFICATION FairSpec
CONSTANTS
    Tasks = {t1}
    NoWorker = NoWorker
    NoReply = NoReply
    MaxInvocations = 2
    MaxSequence = 2
    MaxWorkers = 1
    MaxSchedulers = 1
PROPERTY FailuresAreFoundOut
CHECK_DEADLOCK FALSE
