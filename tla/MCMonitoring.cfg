SPECIFICATION MCSpec
CONSTANTS
    u1 = u1  u2 = u2  t1 = t1  k1 = k1  k2 = k2  x1 = x1  x2 = x2  x3 = x3
    b1 = b1  b2 = b2  Eod = eod  Absent = Absent  Free = Free  NoOp = NoOp  Orphan = Orphan
    Users = {u1, u2}
    Tables = {t1}
    Rules = {k1, k2}
    Securities = {1, 2, 3}
    Targets = {x1, x2}
    Owner <- Owners
    Handlers = {h1, h2}
    Evaluators = {e1}
    Publishers = {p1}
    Limit = 2
    Defaults = {x1}
    MaxCommits = 4
    Adjustments <- TwoAdjustments
    Depths = {1, 3, 8}
    MinBars = 2
    Overlap = 1
    today = 7
    Earlier = {0, 2}
    Bootstraps = {b1}
    MaxRetries = 1  MaxFaults = 1  MaxEdits = 1
    MaxId = 5  MaxPosition = 3
SYMMETRY HandlerSymmetry
INVARIANTS WithinMonitorLimit HandlersNeverDeadlock CurrentPublicationCoversDemand
PROPERTIES EditsShowWhatWasAsked CleanRunPrepares
CHECK_DEADLOCK FALSE
