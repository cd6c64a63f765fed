CONSTANTS
    b1 = b1
    b2 = b2
    p1 = p1
    p2 = p2
    p3 = p3
    Browsers = {b1, b2}
    Pages = {p1, p2, p3}
    BrowserOf <- MCBrowserOf
    MaxSessions = 3
    MaxFaults = 1
SPECIFICATION FairSpec
INVARIANTS
    TypeOK
    EndedStaysEnded
    HonestBrowserStaysIn
PROPERTIES
    PagesSettle
CHECK_DEADLOCK FALSE
