SPECIFICATION FairSpec
CONSTANTS
    Owner <- TwoAndTwo
    MaxQueued = 2
    Cancellers = {}
INVARIANTS
    OverlapOnlyAfterRejection

    
CHECK_DEADLOCK FALSE
