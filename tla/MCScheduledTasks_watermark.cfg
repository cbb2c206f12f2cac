SPECIFICATION Spec
CONSTANTS
    EodJobs = {eod}
    ReconcileJobs = {rec}
    Symbols = {a, b}
    a = a
    b = b
    Alphabet <- AB
    MaxDay = 2
    Trades <- SuspendedLater
    Limit = 1
    MaxRetries = 1
    MaxFaults = 1
    MaxEdits = 1
    Free = Free
    Orphan = Orphan
INVARIANT NothingPendingMeansEvaluated
