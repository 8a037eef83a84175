SPECIFICATION Spec
CONSTANTS
    c = c
    q = q
    r = r
    Peer = {c, q}
    Creator = c
    Prop = {0, 1}
    Refresh = 3
    Draw <- Extremes
    Period = 1
    Transit = 1
    MaxMoves <- OneMove
    MaxHits = 0
    MaxLosses = 0
    Horizon = 10
INVARIANTS
    TypeOK
    HeartbeatsPunctual
PROPERTY
    NoFalseDeath
CHECK_DEADLOCK FALSE
