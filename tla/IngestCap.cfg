CONSTANTS
    Platforms = {"reddit", "dcinside", "manifold", "naver_finance"}
    Posts = {1, 2, 3}
    Served = {"x", "xr", "y", "heavy", "oversize", "bad"}
    PostCap = 2
    ReviewedCap = 2
    PageCap = 2
    ByteCap = 2
    Slots = {1, 2}
    MaxEvents = 2
    MaxRuns = 3
SPECIFICATION Spec
CHECK_DEADLOCK FALSE
INVARIANT PageGetsResult
