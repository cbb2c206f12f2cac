SPECIFICATION MCSpec
CONSTANTS
    s1 = s1  s2 = s2  c1 = c1  c2 = c2  quotes = quotes  eod = eod  Nothing = Nothing
    MaxDay = 3  MaxEdition = 3  MaxGeneration = 3  WindowDays = 2  PageLimit = 1
    AddedColumns <- ShownColumns
    Rules <- RuleTargets
    DefaultPeriods = {1, 2}
    OtherTypes = {"KDJ"}
    OtherDepth = 2  MaxBars = 3  MaxEdits = 3  MaxPublications = 2
    Stocks = {s1, s2}
    TradeDates = {1, 2, 3}
    Year = 1  MaxWrites = 3
    Monitored <- RefreshedSymbols
    BatchSize = 2  ChunkSize = 3
    Ids = {1, 2}
    OtherKinds = {}
    QuoteTime = 2  MaxFaults = 2  MaxAttempts = 2
    Callers = {c1, c2}
    Bootstrap = c1
    Symbols = {1}  Segments = {1}
    Flights = {1, 2, 3}
    Timeout = 2  Shrinkage = 50  MaxTime = 3  MaxSyncs = 3
    Years = {{1}, {2, 3}, {4, 5}}
    Seeded = {{1}}
    Weekend = {}
    Manifests <- Submitted
    Tasks = {quotes, eod}
    BackfillDays = 2
INVARIANTS CellsAreOnePublication ReadyRowsAreComplete ColumnStatesAreItsOwn YieldIsOfItsRow OneBadSymbolCostsNoOther CompletedMeansFresh OneSourceCall BudgetIsTheFlights BackfillProvesContinuity
PROPERTY PagesAreOnePublication
\* The bounds of every scenario let it run out of steps.
CHECK_DEADLOCK FALSE
