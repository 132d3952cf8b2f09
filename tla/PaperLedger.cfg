SPECIFICATION GroupedSpec
CONSTANTS
    Threads = {t1, t2, t3}
    Predictions = {p1, p2}
    Sides = {long}
    Reasons = {settled}
    NoExit = NoExit
    NoEntry = NoEntry
    Attempts = 2
    MaxSeq = 4
    MaxDay = 1
    MaxLines = 3
SYMMETRY Symmetry
INVARIANTS
    TypeOK
    LinearChain
    GiveUpMeansOvertaken
    HeadsAnchorHistory
PROPERTIES
    ImplementsLog
CHECK_DEADLOCK FALSE
