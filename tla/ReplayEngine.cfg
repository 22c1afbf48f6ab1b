CONSTANTS
    Longest = 4
    Times = {1, 2, 3}
    Types = {"Trade"}
    Events <- MCEvents
    Files <- MCFiles
    Nothing = Nothing
    StartTimes = {0, 2}
    EndTimes = {0, 2}
    MaxRuns = 2
SPECIFICATION Spec
INVARIANTS
    CountedOnce
    WindowReplayed
    LookAheadInStep
PROPERTIES
    InFileOrder
    RunReturns
