CONSTANTS
    Digits <- MCDigits
    Plans <- MCPlans
    Feed <- MCFeed
    Allow = {"PETR4"}
    Futures = {"DI1F27"}
    Weekend = {2}
    FredSeries <- MCFredSeries
    Symbols <- MCSymbols
    Months <- MCMonths
    FlushEvery = 1
SPECIFICATION Spec
INVARIANTS
    TypeOK
    SucceededMeansStored
    NewestFileShown
    TickerSplitOnlyByEarlyLending
    ExitZeroMeansLoaded
    OwnRowsDoNotClash
PROPERTY AbsenceHonest
CHECK_DEADLOCK FALSE
