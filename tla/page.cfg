SPECIFICATION FocusSpec
CONSTANTS
    Seconds = 2
    Timers = {first, second}
    NoTimer = NoTimer
    Null = Null
    NaN = NaN
    Texts <- AllTexts
    MaxInt = 5000
    PageLength = 1
    Available <- Counts
    MaxPosts = 2
    MaxLoads = 1
INVARIANTS
    FiltersRestored
    OneCountdown
    DialogsNested
    TableAsRequested
    FilterReadBack
PROPERTIES
    HelpKeepsSettings
    CountdownEnds
