CONSTANTS
    r1 = r1
    r2 = r2
    None = None
    Slots = {"a"}
    Due <- OneSlot
    StartLimit = 2
    CompletionLimit = 2
    ClosesAt = 3
    Runs = {r1, r2}
    MaxRunAttempts = 2
    MaxTime = 3
    Modes = {"schedule", "retry"}
    DirectStore = FALSE
    Outcomes = {"ok", "safe_terminal"}
SPECIFICATION CadenceSpec
SYMMETRY RunSymmetry
CHECK_DEADLOCK FALSE
INVARIANTS
    CreditSound
    EpochIsExact
PROPERTIES
    EvidenceKept
