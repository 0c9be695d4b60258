SPECIFICATION Spec
CONSTANTS
    MaxAttempts = 2
    MaxRejecting = 0
    Lasting = {2}
    IdleWarningAfter = 1
    IdleTimeoutAfter = 2
INVARIANTS
    OneAttemptAtATime
    VerifiedByBoth
    IdlePeerIsAvailable
    NoWakeIsLost
CHECK_DEADLOCK FALSE
