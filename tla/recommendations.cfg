SPECIFICATION Spec
CONSTANTS
    a = a
    b = b
    c = c
    plain = plain
    hidden = hidden
    Threads = {t1, t2}
    BeatmapOf <- Maps
    Settings <- Arguments
    Default = plain
    NoMessage = NoMessage
    NoItem = NoItem
    Pool <- Allowed
    Probability <- Chances
    PageSize = 2
    PageTries = 2
    HideTries = 1
    MaxSamplers = 2
INVARIANTS
    DrawnOnce
    NoRepeat
    SettingsHonoured
    SamplesFairly
SYMMETRY Symmetry
CHECK_DEADLOCK FALSE
