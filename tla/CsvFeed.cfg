CONSTANTS
    Longest = 4
    Files <- MCFiles
    Nothing = Nothing
    BUFFER_SIZE = 1
    MaxOpens = 2
    Lines <- MCLines
    CellsOf <- MCCellsOf
    Empty = ""
    Nanos <- MCNanos
    Qty <- MCQty
    Price <- MCPrice
    FirstOf <- MCFirst
    MAX_SYMBOLS = 3
SPECIFICATION FeedSpec
CHECK_DEADLOCK FALSE
INVARIANTS
    TypeOK
    HasNextIsAccurate
    DecoderTypeOK
    SymbolsAreFaithful
PROPERTIES
    ImplementsEventSource
    CallReturns
