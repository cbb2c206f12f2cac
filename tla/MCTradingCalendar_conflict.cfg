SPECIFICATION Spec
CONSTANTS
    Years <- TwoYears
    Seeded <- OldOnly
    Weekend = {4}
    Manifests <- Submitted
    Tasks = {quotes, eod}
    Window = 2
    None = None
INVARIANT ConflictsAreUnknown
CHECK_DEADLOCK FALSE
