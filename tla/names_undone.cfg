SPECIFICATION MCSpec
CONSTANTS
    Names = {a, b}
    Searchable = {b}
    Users = {u, v}
    Threads = {t1, t2}
    NoUser = NoUser
    Null = Null
INVARIANTS
    AnnouncedHolds
CHECK_DEADLOCK FALSE
