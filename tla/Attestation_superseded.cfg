SPECIFICATION Spec
CONSTANTS
    Symbols = {s1}
    Payloads = {a, b}
    MinAge = 1
    MaxHour = 1
    MaxSalt = 2
    None = None
INVARIANTS
    LedgerVerifies
CHECK_DEADLOCK FALSE
