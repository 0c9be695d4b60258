SPECIFICATION Spec
CONSTANTS
    FileCount = 1
    Size <- OneFile
    ReceiverRoom = 12
    SenderRoom = 6
    ParallelThreshold = 2
    MaxWorkers = 2
    ResultCap = 1
    SourceFaults = {}
    MaxSourceChanges = 1
INVARIANTS
    CancelKeepsSession
CHECK_DEADLOCK FALSE
