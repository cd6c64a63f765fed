CONSTANTS
    Purchases = {p1, p2}
    MaxCodes = 2
    MaxEdits = 1
    None = none
SPECIFICATION Spec
INVARIANTS
    TypeOK
    SoldOnce
    ReservedIsHeld
SYMMETRY Symmetry
CHECK_DEADLOCK FALSE
