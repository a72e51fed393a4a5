SPECIFICATION MCSpec
CONSTANTS
    oauth = oauth
    other = other
    x = x
    y = y
    Accounts = {oauth, other}
    OsuIds = {x, y}
    OsuOf <- Owner
    Threads = {t1, t2}
    Null = Null
    MaxRequests = 5
SYMMETRY Symmetry
CHECK_DEADLOCK FALSE
INVARIANTS
    ForwardsEnd
    CommentsSeparate
    HeckedOnlyIfStale
PROPERTIES
    LinksKept
    CommentsKept
