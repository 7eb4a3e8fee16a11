SPECIFICATION SpecDates
CONSTANTS
    Buyer = Buyer
    NoUser = NoUser
    Staff = {Owner}
    Slots = {}
    NumFields = 2
    SameSecond = TRUE
    MaxSeconds = 1
    MaxDay = 2
    MaxRepeats = 1
    Colleagues = {}
    WithEmail = {Owner, Buyer}
    DateSlots = {d1, d2}
    Checks = {k1}
    MaxChanges = 2
SYMMETRY MCSymmetry
INVARIANTS
    DatesInOrder
    LastAcceptedInForce
    RecordedMeansMailed
CHECK_DEADLOCK FALSE
