CONSTANTS
    s1 = s1  s2 = s2  t1 = t1  t2 = t2
    Symbols = {s1, s2}
    Tasks = {t1, t2}
    MaxOrders = 3
    NoRequest = NoRequest
    NoPrice = NoPrice
    Prices = {2, 3}
    Placeholder = 9
    HasProvider = TRUE
    InitialCapital = 9
    CommissionPct = 25
    HalfSpread = 0
    MaxSlippage = 1
    Requests <- CoreRequests
    Updates <- CoreUpdates
SYMMETRY TaskSymmetry
SPECIFICATION Spec
INVARIANTS CashReconciles PositionsReconcile OpenOrdersAreLive ExecutedOnce ReportsAddUp
PROPERTIES ExecutedOrdersAreFinal ImplementsLedger
CHECK_DEADLOCK FALSE
