SPECIFICATION EndlessFairSpec
CONSTANTS
    Nicks = {n1, n2}
    Workers = {w1}
    MaxEvents = 3
    MaxMessages = 1
    MaxTries = 2
    WarnAttempts = 1
    Prefetch = 1
    Replies <- AllReplies
    Unreadable <- Misnamed
    Faults <- AllFaults
INVARIANTS
    TypeOK
    HolderInFlightOrLost
    WarnedAtMostOnce
PROPERTIES
    StaleReleaseHarmless
    LockEventuallyFree
CONSTRAINT
    OneOfOthers
CHECK_DEADLOCK FALSE
