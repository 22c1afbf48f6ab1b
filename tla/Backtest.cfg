CONSTANTS
    s1 = s1
    Symbols = {s1}
    ConfigSymbols = {s1}
    InitialCash = 0
    PerShareFee = 1
    PerTradeFee = 5
    MakerRebate = 3
    TakerFee = 2
    TradeCountModulus = 1000
    OrderPoolCapacity = 2
    SimulatedLatency = 1
    HasPortfolio = TRUE
    OrderIds = {1, 2}
    Prices = {1, 2}
    Quantities = {1}
    Times = {1, 2, 3}
    MaxSubmits = 2
    Events <- MCEvents
    Files <- MCFiles
    Nothing = Nothing
    EVENTS_PER_READ = 2
    StartTimes = {0, 2}
    EndTimes = {0, 2}
    Callbacks = {"on_trade", "on_tick"}
    MaxRuns = 2
SPECIFICATION BacktestSpec
INVARIANTS
    EveryRunComplete
    OrdersAnswerEvents
PROPERTIES
    ImplementsReplay
    RunEnds
