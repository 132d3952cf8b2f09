SPECIFICATION Spec
CONSTANTS
    None = None
    ExitConfirmations = 2
    Voters = {yield_curve, vix}
INVARIANTS
    LostWriteOnlyDelays
