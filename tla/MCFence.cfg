SPECIFICATION MCSpec
CONSTANTS
    MaxDay = 3
    Requests = {}
    Jobs = {j1, j2}
    Qfq = TRUE
    Authoritative = FALSE
    MaxEdition = 6
    MaxSync = 2
    MaxDemand = 0
SYMMETRY JobSymmetry
INVARIANTS NoMixedRevisions CurrentIsExact
PROPERTIES BarsNeverRegress NoDeletionUnlessTrusted
\* The bounds on editions and synchronisations let every scenario run out of steps.
CHECK_DEADLOCK FALSE
