SPECIFICATION Spec
CONSTANTS
    MaxDay = 2
    Requests = {r1}
    Jobs = {j1, j2}
    Qfq = TRUE
    Authoritative = FALSE
    MaxEdition = 3
    MaxSync = 2
    MaxDemand = 1
SYMMETRY JobSymmetry
INVARIANTS CleanPrefixIsExact
PROPERTIES WatermarksNeverRegress
CHECK_DEADLOCK FALSE
