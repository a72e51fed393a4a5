SPECIFICATION MCSpec
CONSTANTS
    a = a
    u = u
    Names = {a, b}
    Searchable = {a, b}
    Users = {u, v}
    Threads = {t1, t2}
    NoUser = NoUser
    Null = Null
    MaxRenames = 2
    MaxOther = 1
INVARIANTS
    OnceTrue
    HandledAsBearer
PROPERTIES
    NameFreed
    NameHeals
    MappingStands
CHECK_DEADLOCK FALSE
