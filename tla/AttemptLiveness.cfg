SPECIFICATION FairSpec
CONSTANTS
    MaxAttempts = 1
    MaxRejecting = 1
    Lasting = {1}
    IdleWarningAfter = 1
    IdleTimeoutAfter = 2
PROPERTIES
    AttachedAttemptStops
    ShutdownSettles
    IdleSessionExpires
CHECK_DEADLOCK FALSE
