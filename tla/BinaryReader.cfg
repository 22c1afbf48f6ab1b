CONSTANTS
    Longest = 5
    Events <- MCEvents
    Files <- MCFiles
    Nothing = Nothing
    EVENTS_PER_READ = 2
SPECIFICATION Spec
CHECK_DEADLOCK FALSE
INVARIANTS
    TypeOK
    HasNextIsAccurate
    NullReadAfterFullChunk
PROPERTY
    ImplementsEventSource
