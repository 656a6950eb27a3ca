CONSTANTS
    Commands = {c1}
    Sources = {s1, s2}
    Cursors = {}
    NoCursor = NoCursor
    MaxAttempts = 1
    ReservationStale = 0
    ExecutionStale = 1
    RetryDelay = 1
    PageCap = 1
    BudgetLevels = {"allow"}
    MaxRevision = 1
    MaxDecisions = 1
SPECIFICATION FairSpec
CHECK_DEADLOCK FALSE
PROPERTY AbandonedRunIsTerminalized
