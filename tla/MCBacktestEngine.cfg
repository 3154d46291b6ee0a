CONSTANTS
    symbol = symbol  engine = engine
    Symbol = symbol
    Engine = engine
    MaxBars = 4
    MinHistoryBars = 2
    NoRequest = NoRequest
    NoPrice = NoPrice
    Prices = {20, 100, 800}
    Placeholder = 300
    InitialCapital = 305
    SettingsCapital = 100
    CommissionPct = 1
    HalfSpread = 1
    MaxSlippage = 1
    RequireStopLoss = TRUE
    MaxPositionPct = 100
    MaxLossPerTradePct = 10
    MaxOpenPositions = 5
    MaxDailyLossPct = 2
    MaxDrawdownPct = 40
SPECIFICATION Spec
INVARIANTS EndsFlatOrBroke TearsheetTellsTheTrades
PROPERTY HeldFillsAtBarPrice
CHECK_DEADLOCK FALSE
