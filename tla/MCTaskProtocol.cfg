SPECIFICATION Spec
CONSTANTS
    Tasks = {t1}
    NoWorker = NoWorker
    NoReply = NoReply
    MaxInvocations = 2
    MaxSequence = 1
    MaxWorkers = 2
    MaxSchedulers = 1
INVARIANTS TracksWorker 
CHECK_DEADLOCK FALSE
