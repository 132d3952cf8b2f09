SPECIFICATION Spec
CONSTANTS
    None = None
    Threads = {t1, t2, t3}
    Tickers = {s1, s2}
    NKeys = 3
    MaxLeaves = 6
    PriceRange = {0, 1, 2}
    Level = 1
    MaxAlarms = 2
    MaxUpdates = 3
    BatchLimit = 2
    Subscribers = {u1, u2}
    MaxQuotaAlerts = 3
    Runs = {r1, r2}
    NMisses = 2
    ExitConfirmations = 2
    Voters = {yield_curve, vix}
    LastDay = 15
    NCompanies = 4
    DailyRequests = 5
    NApiKeys = 1
    MovePrices <- MoveRange
    FirstPrices = {0}
    Last = 2
    Prices = {100}
    Levels = {95, 110}
    Challengers = {c1}
    Personas = {p1}
    Champion = champion
    BaselineMinAge = 3
    BaselineMaxAge = 4
    ReadPrices = {1, 2}
    LastRun = 8
    MaxReads = 4
    MaxCost = 2
    MonthStarts = {1, 3}
    LastBooked = 3
    MaxRuns = 3
    FallbackLookback = 2
    LastHour = 5
    MaxShocks = 1
    MaxMails = 2
    LastSession = 2
    WALK_FORWARD_FOLDS = 2
    MIN_FOLD_SAMPLES = 4
    MIN_VALIDATION_SAMPLES = 1
    FractionOf = 3
    LABEL_HORIZON = 1
    SampleSizes = {1, 3, 5}
    Settlements = {None, 0, 3}
    MaxKnots = 4
    MaxCount = 2
    Council = {v1, v2, v3}
INVARIANTS
    NoKeyWasted
    VerifiedIffIncluded
    NothingForgotten
    DeliveryAccountedFor
    PaidWithinCapAndKept
    MovesAreToldOnce
    LastAnswerStands
    NothingMadeUp
