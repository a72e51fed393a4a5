SPECIFICATION Spec
CONSTANTS
    Nicks = {n1}
    Workers = {w1}
    MaxEvents = 2
    MaxMessages = 1
    MaxTries = 2
    WarnAttempts = 1
    Prefetch = 1
    Replies <- PingDeathReplies
    Unreadable <- Misnamed
    Faults <- NoFaults
PROPERTIES
    ReleasedWhenRespondedTo
CHECK_DEADLOCK FALSE
