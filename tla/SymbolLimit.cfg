CONSTANTS
    Lines <- MCLines
    Empty = ""
    Nanos <- MCNanos
    Qty <- MCQty
    Price <- MCPrice
    FirstOf <- MCFirst
    MAX_SYMBOLS = 3
SPECIFICATION DecoderSpec
INVARIANT SupportedSymbolsFit
