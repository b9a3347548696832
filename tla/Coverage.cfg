CONSTANTS
    Universe <- MCUniverse
    Instruments = {petr, petrSA, di, debenture}
    Home <- MCHome
    Known <- MCKnown
    Credit = {debenture}
    Futures = {di}
    petr = petr
    petrSA = petrSA
    di = di
    debenture = debenture
    None = None
    Batches <- MCBatches
    FileSets <- MCFileSets
    Asked <- MCAsked
    LastDate = 2
    Today = 2
    MaxCommits = 2
    MaxRevision = 2
SPECIFICATION Spec
INVARIANTS TypeOK QuietReportExact NoPriceLost SpanContainsPriced
CHECK_DEADLOCK FALSE
