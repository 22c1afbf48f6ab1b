CONSTANTS
    s1 = s1
    s2 = s2
    Symbols = {s1, s2}
    ConfigSymbols = {s1}
    InitialCash = 0
    PerShareFee = 1
    PerTradeFee = 5
    MakerRebate = 3
    TakerFee = 2
    TradeCountModulus = 1000
    OrderPoolCapacity = 2
    SimulatedLatency = 1
    HasPortfolio = TRUE
    OrderIds = {1, 2, 3}
    Prices = {1, 2}
    Quantities = {1, 2}
    Times = {1}
    MaxSubmits = 3
SPECIFICATION Spec
INVARIANT
    FillWaitsForLatency
