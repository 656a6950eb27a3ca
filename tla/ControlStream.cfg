CONSTANTS
    Commands = {c1, c2}
    Sources = {s1}
    Cursors = {x}
    NoCursor = NoCursor
    MaxAttempts = 2
    ReservationStale = 0
    ExecutionStale = 1
    RetryDelay = 1
    PageCap = 2
    BudgetLevels = {"allow", "soft_limit", "hard_stop"}
    MaxRevision = 2
    MaxDecisions = 2
SPECIFICATION Spec
SYMMETRY Symmetric
CONSTRAINT OneStreamOrPlainPolicy
CHECK_DEADLOCK FALSE
INVARIANTS
    CheckpointIsLog
    ActiveRunOwnsCheckpoint
    OutcomeFollowsPages
    SettledReceiptReplays
