CONSTANTS
    Purchases = {p1, p2}
    MaxCodes = 1
    MaxEdits = 0
    None = none
SPECIFICATION FairSpec
PROPERTIES
    PaidIsSettled
CHECK_DEADLOCK FALSE
