SPECIFICATION Spec
CONSTANTS
    QueueCap = 2
    Ttl = 20
    OnlineWindow = 2
    AgentTimeout = 1
    PollDelay = 1
    Cooldown = 2
    MaxStartsPerCycle = 1
    MaxRetries = 1
    BackoffBase = 1
    BackoffCap = 1
    Day = 8
    DailyStartCap = 2
    BlockTime = 3
    NoticeInterval = 3
    MaxRetryAfter = 0
    RetryAfters = {0}
    AlarmsLost = FALSE
    MaxLag = 1
    MaxTime = 11
    MaxEnqueues = 2
    MaxSeen = 0
    MaxFaults = 1
    MaxRebinds = 0
INVARIANTS
    StartsLimited
    CycleBounded
CHECK_DEADLOCK FALSE
