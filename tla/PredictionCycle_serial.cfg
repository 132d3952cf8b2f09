SPECIFICATION SerialSpec
CONSTANTS
    Runs = {r1}
    Prices <- SmallPrices
    Trends = {"BULLISH"}
    ThresholdPct = 2
    MinAge = 1
    MaxAge = 2
    RefMaxAge = 1
    MaxHour = 3
    None = None
INVARIANTS
    TypeOK
    ExitIsSettlement
    NeverSettledAndExpired
PROPERTIES
    NoMoveAbsorbed
CHECK_DEADLOCK FALSE
