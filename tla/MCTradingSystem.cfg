CONSTANTS
    s1 = s1  s2 = s2  l1 = l1  l2 = l2  a1 = a1
    Symbols = {s1, s2}
    Watchlist <- TwoSymbols
    Loops = {l1, l2}
    NoLoop = NoLoop
    ApiTasks = {a1}
    ApiRequests <- McApiRequests
    MaxOrders = 2
    NoRequest = NoRequest
    NoPrice = NoPrice
    Prices = {20, 60}
    Placeholder = 60
    InitialCapital = 8000
    SettingsCapital = 8000
    CommissionPct = 1
    HalfSpread = 0
    MaxSlippage = 0
    Share = 10
    HumanApproval = FALSE
    RequireStopLoss = TRUE
    MaxPositionPct = 5
    MaxLossPerTradePct = 1
    MaxOpenPositions = 1
    MaxDailyLossPct = 2
    MaxDrawdownPct = 10
SPECIFICATION FairSpec
INVARIANTS OneLoopTrades SellsOnlyWithoutPrice OpenPositionsWithinLimit
PROPERTIES HaltedEngineIsQuiet EverythingSettles
CHECK_DEADLOCK FALSE
