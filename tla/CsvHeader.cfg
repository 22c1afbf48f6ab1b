CONSTANTS
    Longest = 4
    Files <- MCFiles
    Nothing = Nothing
    BUFFER_SIZE = 1
    MaxOpens = 2
SPECIFICATION Spec
CHECK_DEADLOCK FALSE
INVARIANT
    FirstRowKept
