SPECIFICATION FairQueues
CONSTANTS
    Threads = {t1, t2}
    Calls = 2
    Rate = 2
    Window = 2
    FailureThreshold = 2
    RetryTotal = 1
    MaxClock = 2
    NoThread = NoThread
    FastRuns = {f1, f2, f3}
    SlowRuns = {s1, s2}
    Migrations = {m1}
    Needed = 2
    LastFile = 2
INVARIANTS
    TypesOK
    GrantsInWindow
    OpenStaysOpen
    OneAtATime
    ReleaseIsServedWhole
    FlagMatchesSchema
PROPERTIES
    NothingBegunIsLost
    EveryoneIsServed
CHECK_DEADLOCK FALSE
