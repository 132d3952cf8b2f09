SPECIFICATION FairSpec
CONSTANTS
    Runs = {r1}
    Prices <- OnePrice
    Trends = {"BULLISH"}
    ThresholdPct = 0
    MinAge = 1
    MaxAge = 2
    RefMaxAge = 1
    MaxHour = 3
    None = None
PROPERTIES
    EveryPredictionResolved
CHECK_DEADLOCK FALSE
