CONSTANTS
    Platforms = {"reddit", "dcinside", "manifold", "naver_finance"}
    Posts = {1, 2, 3}
    Served = {"x", "xr", "y", "heavy", "oversize", "bad"}
    PostCap = 2
    ReviewedCap = 2
    PageCap = 2
    ByteCap = 2
    Slots = {1, 2}
    MaxEvents = 2
    MaxRuns = 3
    Sources = {"a"}
    SlotLen = 1
    Fresh = 2
    Skews = {0, 1}
    MaxClock = 3
    MaxFinish = 2
    MaxTx = 2
    MaxCalls = 2
SPECIFICATION IngestSpec
CHECK_DEADLOCK FALSE
INVARIANTS
    RowsAgree
    RevisionsInOrder
    RecordSound
    SuccessIsRecorded
PROPERTIES
    WalkCovers
