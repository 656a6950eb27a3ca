CONSTANTS
    MaxRows <- LogBounds
    MaxClock <- ClockBounds
    Places <- EitherFirst
    MaxTargets = 2
    Waits = {"commit"}
    Starts = {"0009", "0010c", "0010e", "0010g", "0011"}
    Checkouts <- Heads
    MaxMoves = 3
    MaxDispatches = 1
    MaxRuns = 2
    Slots = {1, 2}
    Window = 1
SPECIFICATION ReleaseSpec
CHECK_DEADLOCK FALSE
INVARIANTS
    AnchorAgrees
    RestoredBindingBack
    LedgerAgrees
PROPERTIES
    OperationsKept
