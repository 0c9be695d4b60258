SPECIFICATION FairSpec
CONSTANTS
    FileCount = 2
    Size <- TwoEmptyFiles
    ReceiverRoom = 1
    SenderRoom = 4
    ParallelThreshold = 2
    MaxWorkers = 2
    ResultCap = 1
    SourceFaults = {}
    MaxSourceChanges = 1
PROPERTIES
    OfferConcludes
CHECK_DEADLOCK FALSE
