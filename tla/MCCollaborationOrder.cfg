SPECIFICATION Spec
CONSTANTS
    Buyer = Buyer
    NoUser = NoUser
    Staff = {Owner}
    Slots = {c1, c2}
    NumFields = 1
    SameSecond = FALSE
    MaxSeconds = 2
    MaxDay = 2
    MaxRepeats = 2
SYMMETRY MCSymmetry
INVARIANTS
    StageLogged
    DerivedOnce
PROPERTIES
    ClosedStays
    RestoredStatus
    OwnAnswerOnlyAfterAnother
    UndueOnlyIfMoved
CHECK_DEADLOCK FALSE
