SPECIFICATION Spec
CONSTANTS
    Columns <- DocumentedColumns
    Rules = {}
    DefaultPeriods = {1, 2}
    OtherTypes = {"KDJ"}
    OtherDepth = 2
    MaxBars = 3  MaxEdits = 2  MaxPublications = 2
    None = None
INVARIANT EveryAcceptedColumnIsShown
CHECK_DEADLOCK FALSE
