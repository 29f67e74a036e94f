SPECIFICATION Spec
CONSTANTS
    Backoffs <- OneBackoff
    Repeat = FALSE
    NoMoreSeconds = 2
    NotSaved = NotSaved
    NumJobs = 1
    Nodes = {n1}
    Workers = {w1, w2}
    DependsOn <- Independent
    SafeBackoff = 2
    NoTask = NoTask
    NoRecord = NoRecord
    LateRetries = FALSE
    Forever = Forever
    MaxTime = 3
    MaxInvocations = 3
    MaxRestarts = 0
    MaxConfigChanges = 0
    MaxForgives = 1
SYMMETRY WorkerSymmetry
CHECK_DEADLOCK FALSE
INVARIANTS TypeOK NoSecondCopy 
