SPECIFICATION BoundedSpec
CONSTANTS
    MaxCalls = 4
    MaxOutages = 1
    PingEvery = 2
    PongQueue = 1
    Faults <- AllFaults
INVARIANTS
    TypeOK
    SentInOrder
    OkMeansSent
    SentOncePerDelivery
PROPERTIES
    PingAnswered
CHECK_DEADLOCK FALSE
