SPECIFICATION Spec
CONSTANTS
    a = a
    b = b
    w1 = w1
    w2 = w2
    Tasks = {a, b}
    Workspaces = {w1, w2}
    Nobody = Nobody
    Intakes <- RivalIntakes
    p1 = p1
    p2 = p2
    Paths = {p1, p2}
    MaxConcurrent = 2
    MaxRepairs = 1
    MaxInfra = 1
    MaxResumes = 1
    MaxReviews = 1
    MaxConts = 1
    MaxReplans = 1
    MaxFaults = 1
    MaxOrders = 1
    MaxCrashes = 0
PROPERTIES
    CancelStopsWork
CHECK_DEADLOCK FALSE
