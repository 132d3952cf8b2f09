SPECIFICATION FairSpec
CONSTANTS
    Symbols = {s1}
    Payloads = {a, b}
    MinAge = 1
    MaxHour = 1
    MaxSalt = 2
    None = None
INVARIANTS
    TypeOK
    StampedIsDurable
    SettledRevealsVerify
    RevealedIsSettled
    HiddenOnlyByFault
PROPERTIES
    EverySettledIsRevealed
CHECK_DEADLOCK FALSE
