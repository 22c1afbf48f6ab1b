CONSTANTS
    s1 = s1
    o1 = o1
    o2 = o2
    o3 = o3
    Symbols = {s1}
    OrderIds = {o1, o2, o3}
    InitialCash = 0
    PerShareFee = 0
    PerTradeFee = 0
    MakerRebate = 0
    TakerFee = 0
    TradeCountModulus = 1000
    MaxPositionPerSymbol = 3
    MaxLoss = 4
    MaxOrderSize = 2
    HasPortfolio = TRUE
    Prices = {1, 3}
    Quantities = {1, 2, 3}
    MaxFills = 3
SYMMETRY DeskSymmetry
SPECIFICATION Spec
INVARIANTS
    TypeOK
    ExposureBounded
    LockInTakesThree
    LossTripsKillSwitch
PROPERTY
    KilledOnlyWindsDown
