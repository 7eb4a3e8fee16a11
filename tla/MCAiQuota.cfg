CONSTANTS
    t1 = t1  t2 = t2  f1 = f1  r1 = r1  r2 = r2  none = none
    Turns <- PairTurns
    Factories = {f1}
    Admins = {}
    KeyOf <- PairKeyOf
    Bypass = {}
    Reqs = {r1, r2}
    NoTurn = none
    Limit = 1
    StaleAfter = 1
    MaxDeadlocks = 2
    MaxClock = 1
    MaxDate = 1
SPECIFICATION Spec
SYMMETRY PairSymmetry
INVARIANTS UsedWithinLimit AuditExactUnlessDrifted ChargesCovered FirstAttemptsExclusive
PROPERTIES LoggedTurnPaidOnce
