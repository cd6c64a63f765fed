CONSTANTS
    Tabs = {t1, t2}
    NoTab = NoTab
    Limit = 2
    MaxTokens = 2
    MaxBeats = 2
    MaxEvents = 2
SPECIFICATION FairSpec
INVARIANTS
    TypeOK
    OwnerIsHeard
PROPERTIES
    LoserLearns
    LimitEnforced
CHECK_DEADLOCK FALSE
