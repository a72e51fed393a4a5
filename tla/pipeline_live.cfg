SPECIFICATION FairSpec
CONSTANTS
    Nicks = {n1, n2}
    Workers = {w1, w2}
    MaxEvents = 3
    MaxMessages = 1
    MaxTries = 2
    WarnAttempts = 1
    Prefetch = 1
    Replies <- OneOfEach
    Unreadable <- AllReadable
    Faults <- NoFaults
INVARIANTS
    SingleRequestPerUser
PROPERTIES
    GivenUpByHolder
    ReleasedWhenRespondedTo
    RequestsAnswered
    ImplementsFairRequests
CHECK_DEADLOCK FALSE
