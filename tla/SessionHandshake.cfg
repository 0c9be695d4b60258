SPECIFICATION FairSpec
CONSTANTS
    Majors = {1, 2}
    MaxSession = 2
INVARIANTS
    OpenIsAgreed
    NothingIsMisread

    
CHECK_DEADLOCK FALSE
