SPECIFICATION FairSpec
CONSTANTS
    Threads = {t1, t2}
    Capacity <- Stepped
    MaxTicks = 2
INVARIANTS
    BurstBound
    BufferKept
PROPERTIES
    RequestsProgress
    ServedWhenQuiet
