CONSTANTS
    Tabs = {t1, t2}
    Ops = {"login", "read", "logout", "retry"}
    Passwords = {TRUE, FALSE}
    RotationAge = 1
    Lifetime = 3
    CsrfBucket = 2
    LoginWindow = 2
    FailureLimit = 2
    MaxSessions = 2
    MaxTime = 3
    Keys = {"read", "admin"}
    Callers = {g1, g2}
    Jobs = {j1, j2}
    Requests = {q1}
    TokenTtl = 3
    CacheMax = 2
    Safety = 1
    Skew = 1
    RequestMaxAge = 2
    Retention = 4
    ExchangeLimit = 2
    Window = 3
    MaxClock = 5
    Items = {i1}
    Workers = {w1, w2}
    Requirements = {"q1", "q2"}
    LeaseDuration = 2
    RetryDelays <- TwoDelays
    MaxProofs = 3
SPECIFICATION AccessSpec
SYMMETRY AlikeSymmetry
CHECK_DEADLOCK FALSE
INVARIANTS
    SessionsSound
    TokensSound
    RequestExchangedOnce
    QueueSound
PROPERTIES
    FreshCsrfAccepted
