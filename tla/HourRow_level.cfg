SPECIFICATION Spec
CONSTANTS
    Last = 2
    MaxAlarms = 2
    Prices = {100, 105}
    Levels = {95, 110}
    Challengers = {c1}
    Personas = {p1}
    Champion = champion
    None = None
INVARIANTS
    LevelOfThisThesis
CHECK_DEADLOCK FALSE
