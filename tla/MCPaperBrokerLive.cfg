CONSTANTS
    s1 = s1  s2 = s2  t1 = t1  t2 = t2
    Symbols = {s1}
    Tasks = {t1, t2}
    MaxOrders = 3
    NoRequest = NoRequest
    NoPrice = NoPrice
    Prices = {2, 3}
    Placeholder = 9
    HasProvider = TRUE
    InitialCapital = 7
    CommissionPct = 25
    HalfSpread = 0
    MaxSlippage = 1
    Requests <- TriggerRequests
    Updates <- NoUpdates
SPECIFICATION FeedSpec
PROPERTY TriggeredOrdersResolve
CHECK_DEADLOCK FALSE
