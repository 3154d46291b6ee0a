CONSTANTS
    symbol = symbol  engine = engine
    Symbol = symbol
    Engine = engine
    MaxBars = 3
    MinHistoryBars = 2
    NoRequest = NoRequest
    NoPrice = NoPrice
    Prices = {20, 100, 800}
    Placeholder = 100
    InitialCapital = 300
    SettingsCapital = 300
    CommissionPct = 1
    HalfSpread = 1
    MaxSlippage = 1
    RequireStopLoss = TRUE
    MaxPositionPct = 50
    MaxLossPerTradePct = 10
    MaxOpenPositions = 5
    MaxDailyLossPct = 2
    MaxDrawdownPct = 40
SPECIFICATION Spec

PROPERTY FillsAtBarPrice
CHECK_DEADLOCK FALSE
