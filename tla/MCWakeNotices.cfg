SPECIFICATION Spec
CONSTANTS
    QueueCap = 1
    Ttl = 3
    OnlineWindow = 2
    AgentTimeout = 2
    PollDelay = 1
    Cooldown = 3
    MaxStartsPerCycle = 2
    MaxRetries = 1
    BackoffBase = 1
    BackoffCap = 2
    Day = 8
    DailyStartCap = 2
    BlockTime = 3
    NoticeInterval = 3
    MaxRetryAfter = 0
    RetryAfters = {0}
    AlarmsLost = FALSE
    MaxLag = 1
    MaxTime = 5
    MaxEnqueues = 3
    MaxSeen = 1
    MaxFaults = 1
    MaxRebinds = 1
INVARIANTS
    NoticesOnce
    Armed
PROPERTIES
    RetriedForNews
    BlockHolds
CHECK_DEADLOCK FALSE
