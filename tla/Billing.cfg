CONSTANTS
    Payments = {p1, p2}
    UsageLimit = 1
    MaxHandlers = 2
    MaxEdits = 1
SPECIFICATION Spec
INVARIANTS
    TypeOK
    LockedPaymentHoldsItsTerm
    NothingWithoutATerm
    AnsweredCaptureIsBooked
SYMMETRY Symmetry
CHECK_DEADLOCK FALSE
