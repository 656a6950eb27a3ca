CONSTANTS
    Callers = {p1, p2}
    Period = 3
    Offset = 1
    Activation = 1
    Horizon = 7
    None = None
SPECIFICATION ProgressSpec
CHECK_DEADLOCK FALSE
INVARIANTS
    GridSound
PROPERTIES
    EveryDueSlotAppears
    CollectionGoesOn
    NobodyWaitsForever
    DailyWorkDone
