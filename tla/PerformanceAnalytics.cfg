CONSTANTS
    Equities <- MCEquities
    Durations <- MCDurations
    Year = 4
    MaxUpdates = 6
SPECIFICATION Spec
CHECK_DEADLOCK FALSE
INVARIANTS
    TypeOK
    DrawdownIsMaximal
    SharpeMatchesReturns
    SolventReportIsSane
