CONSTANTS
    s1 = s1
    s2 = s2
    Symbols = {s1, s2}
    InitialCash = 10
    PerShareFee = 1
    PerTradeFee = 5
    MakerRebate = 3
    TakerFee = 2
    TradeCountModulus = 1000
    Prices = {1, 4}
    Quantities = {1, 2}
    MaxFills = 4
SYMMETRY SymbolSymmetry
SPECIFICATION Spec
INVARIANTS
    TypeOK
    EntryWithinFills
    MarkedToMarket
    PnlTracksCashFlow
    ValuesBounded
    CashReconciles
    TotalPnlBeforeWrap
