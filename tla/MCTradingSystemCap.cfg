CONSTANTS
    s1 = s1  s2 = s2  l1 = l1  l2 = l2  a1 = a1
    Symbols = {s1}
    Watchlist <- OneSymbol
    Loops = {l1, l2}
    NoLoop = NoLoop
    ApiTasks = {}
    ApiRequests <- NoApiRequests
    MaxOrders = 2
    NoRequest = NoRequest
    NoPrice = NoPrice
    Prices = {20}
    Placeholder = 20
    InitialCapital = 8070
    SettingsCapital = 8070
    CommissionPct = 1
    HalfSpread = 0
    MaxSlippage = 0
    Share = 10
    HumanApproval = FALSE
    RequireStopLoss = TRUE
    MaxPositionPct = 5
    MaxLossPerTradePct = 1
    MaxOpenPositions = 2
    MaxDailyLossPct = 2
    MaxDrawdownPct = 10

SPECIFICATION Spec
INVARIANT PositionsWithinCap
CHECK_DEADLOCK FALSE
