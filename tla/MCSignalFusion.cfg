CONSTANTS
    Asked <- BacktestOrder
    Markets <- McMarkets
    Readings <- McReadings
    MinScoreBuy = 5
    MinScoreSell <- McMinScoreSell
    MinConfidence = 50
SPECIFICATION Spec
INVARIANTS DirectionsAreMirrored DissentersDoNotHelp EveryTradeHasLevels StrategiesAreMirrored
CHECK_DEADLOCK FALSE
