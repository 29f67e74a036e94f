SPECIFICATION Spec
CONSTANTS
    Backoffs <- OneBackoff
    Repeat = FALSE
    NoMoreSeconds = 2
    NotSaved = NotSaved
    NumJobs = 2
    Nodes = {n1}
    Workers = {w1}
    DependsOn <- SecondOnFirst
    SafeBackoff = 2
    NoTask = NoTask
    NoRecord = NoRecord
    LateRetries = FALSE
    Forever = Forever
    MaxTime = 2
    MaxInvocations = 2
    MaxRestarts = 1
    MaxConfigChanges = 2
    MaxForgives = 0
SYMMETRY WorkerSymmetry
CHECK_DEADLOCK FALSE
INVARIANTS RunningRowsAreTracked DependenciesAreDone
PROPERTY DoneStaysDone
