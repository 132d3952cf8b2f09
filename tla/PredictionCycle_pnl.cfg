SPECIFICATION Spec
CONSTANTS
    Runs = {r1}
    Prices <- TwoPrices
    Trends = {"BULLISH", "BEARISH"}
    ThresholdPct = 2
    MinAge = 1
    MaxAge = 2
    RefMaxAge = 1
    MaxHour = 2
    None = None
INVARIANTS
    PnlIsOwnReturn
CHECK_DEADLOCK FALSE
