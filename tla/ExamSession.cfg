CONSTANTS
    Written = {w}
    Spoken = {s}
    MaxEdits = 2
    MaxTakes = 2
    MaxFetches = 1
    MaxReloads = 1
SPECIFICATION FairSpec
INVARIANTS
    TypeOK
    NothingLostSilently
PROPERTIES
    StoredNeverOlder
    ComesToRest
CHECK_DEADLOCK FALSE
