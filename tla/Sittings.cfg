CONSTANTS
    Requests = {tab1, tab2}
    MaxAttempts = 3
    MaxRetakes = 1
    MaxGrants = 1
    SittingIndexUnique = TRUE
SPECIFICATION FairSpec
INVARIANTS
    TypeOK
    
    
    RetakeRedeemedOnce

    
    
CHECK_DEADLOCK FALSE
