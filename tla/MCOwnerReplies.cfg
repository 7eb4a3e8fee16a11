SPECIFICATION FairSpec
CONSTANTS
    g1 = g1
    a1 = a1
    p1 = p1
    Nobody = Nobody
    Goals = {g1}
    Asks = {a1}
    Presses = {p1}
    MaxAttempts = 2
    MaxFaults = 1
    MaxUpdates = 2
INVARIANTS
    RetriesBounded
    AnsweredBelowCursor
    UnmarkedOnce
PROPERTIES
    OwnerTold
CHECK_DEADLOCK FALSE
