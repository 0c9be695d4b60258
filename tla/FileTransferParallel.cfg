SPECIFICATION Spec
CONSTANTS
    FileCount = 2
    Size <- TwoFiles
    ReceiverRoom = 12
    SenderRoom = 6
    ParallelThreshold = 2
    MaxWorkers = 2
    ResultCap = 1
    SourceFaults = {"rewritten", "truncated"}
    MaxSourceChanges = 1
INVARIANTS
    PublishedIsApproved
    NoOrphanStaging
    NoContentAfterCancel
    
    ResultsAreConserved
PROPERTIES
    ImplementsOutcome
CHECK_DEADLOCK FALSE
