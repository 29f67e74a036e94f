SPECIFICATION FairSpec
CONSTANTS
    Tasks = {t1}
    NoWorker = NoWorker
    NoReply = NoReply
    MaxInvocations = 1
    MaxSequence = 2
    MaxWorkers = 1
    MaxSchedulers = 2
INVARIANT TypeOK
PROPERTY FailuresAreFoundOut
CHECK_DEADLOCK FALSE
