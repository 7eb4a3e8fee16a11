SPECIFICATION FairSpec
CONSTANTS
    a = a
    b = b
    w1 = w1
    w2 = w2
    Tasks = {a, b}
    Workspaces = {w1, w2}
    Nobody = Nobody
    Intakes <- WaitingIntakes
    p1 = p1
    p2 = p2
    Paths = {p1, p2}
    MaxConcurrent = 1
    MaxRepairs = 1
    MaxInfra = 1
    MaxResumes = 1
    MaxReviews = 1
    MaxConts = 1
    MaxReplans = 1
    MaxFaults = 0
    MaxOrders = 2
    MaxCrashes = 1
PROPERTIES
    NotForgotten
    RunsEnd
CHECK_DEADLOCK FALSE
