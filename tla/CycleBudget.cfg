SPECIFICATION FairSpec
CONSTANTS
    NSymbols = 4
    Configs <- SmallConfigs
INVARIANTS
    TypeOK
    OvershootBound
    CutsTheSmallest
PROPERTIES
    CutIsFinal
    ShadowFits
    CycleFinishes
CHECK_DEADLOCK FALSE
