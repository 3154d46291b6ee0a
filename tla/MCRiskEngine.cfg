CONSTANTS
    NoPrice = NoPrice
    Capital = 100
    RequireStopLoss = TRUE
    MaxPositionPct = 5
    MaxLossPerTradePct = 1
    MaxOpenPositions = 2
    MaxDailyLossPct = 2
    MaxDrawdownPct = 10
    MaxPnl = 500
    MinRewardPct = 150
    Grain = 100
    RiskPcts = {0, 1, 3}
    TakeProfits <- McTakeProfits
    Requests <- McRequests
    Accounts <- McAccounts
    PnlChanges <- McPnlChanges
    PortfolioValues <- McPortfolioValues
SPECIFICATION Spec
INVARIANTS NoEquityNoTrade GateIsMonotone ToolAgreesWithGate SuggestionIsTight
