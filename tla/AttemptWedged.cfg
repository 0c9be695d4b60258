SPECIFICATION FairSpec
CONSTANTS
    MaxAttempts = 1
    MaxRejecting = 0
    Lasting = {1}
    IdleWarningAfter = 1
    IdleTimeoutAfter = 2
PROPERTIES
    DisconnectStops
CHECK_DEADLOCK FALSE
