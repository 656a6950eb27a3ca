CONSTANTS
    Commands = {c1}
    Sources = {s1, s2}
    s1 = s1
    s2 = s2
    SourceOrder <- TwoSources
    Answers = {"page", "last", "pause", "policy", "quota", "retryable", "terminal"}
    MaxFaults = 1
    Cursors = {}
    NoCursor = NoCursor
    MaxAttempts = 2
    ReservationStale = 0
    ExecutionStale = 1
    RetryDelay = 1
    PageCap = 2
    BudgetLevels = {"allow", "hard_stop"}
    MaxRevision = 2
    MaxDecisions = 1
SPECIFICATION ClientSpec
CHECK_DEADLOCK FALSE
INVARIANTS
    ClientInStep
PROPERTIES
    SuccessMeansPublished
