SPECIFICATION SourcesSpec
CONSTANTS
    me = me  x = x  y = y  xraw = xraw
    Mod = 8
    MaxDropout = 3
    MaxMisorder = 2
    MinSequential = 2
    Junk <- Used
    Last = 20
    Packets = 5
    Unknown = Unknown
    Sender = {x, y}
    Observed = x
    Raw <- Swapped
    Me = me
    MaxSources = 4
INVARIANTS
    TypeOK
    WalksReachAll
PROPERTIES
    FollowsWhileListed
    RestartFollowed
CHECK_DEADLOCK FALSE
