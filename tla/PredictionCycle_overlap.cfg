SPECIFICATION Spec
CONSTANTS
    Runs = {r1, r2}
    Prices <- TwoPrices
    Trends = {"BULLISH"}
    ThresholdPct = 2
    MinAge = 1
    MaxAge = 2
    RefMaxAge = 1
    MaxHour = 1
    None = None
SYMMETRY Symmetry
INVARIANTS
    LedgerNeverAhead
PROPERTIES
    SettledIsFinal
CHECK_DEADLOCK FALSE
