SPECIFICATION Spec
CONSTANTS
    u1 = u1  u2 = u2  u3 = u3  u4 = u4
    c1 = c1  c2 = c2
    Url = {u1, u2, u3}
    Home = u1
    Channel = {c1, c2}
    InitialChannel = c1
    DefaultChannel = c2
    LoopMax = 5
    NoWorld = NoWorld
    NoUrl = NoUrl
    NoChannel = NoChannel
    NoSession = NoSession
    MaxWorlds = 4
    MaxTrips = 5
    MaxFailures = 1
INVARIANTS
    TypeOK
    OnlyCurrentRuns
PROPERTIES
    WorldsKept
CHECK_DEADLOCK FALSE
