CONSTANTS
    Commands = {c1}
    Sources = {s1, s2}
    Cursors = {}
    NoCursor = NoCursor
    MaxAttempts = 2
    ReservationStale = 0
    ExecutionStale = 1
    RetryDelay = 1
    PageCap = 2
    BudgetLevels = {"allow", "hard_stop"}
    MaxRevision = 2
    MaxDecisions = 1
SPECIFICATION Spec
SYMMETRY Symmetric
CHECK_DEADLOCK FALSE
INVARIANTS
    TypeOK
    OneLeasePerAttempt
    SettledSourceNotRepeated
    PublishedExactlyOnce
PROPERTIES
    EndedRunsAreFrozen
