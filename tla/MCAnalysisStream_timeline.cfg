SPECIFICATION Spec
CONSTANTS
    MaxDay = 2
    Requests = {}
    Jobs = {j1}
    Qfq = FALSE
    Authoritative = FALSE
    MaxEdition = 3
    MaxSync = 3
    MaxDemand = 0
INVARIANT TimelineIsComplete
CHECK_DEADLOCK FALSE
