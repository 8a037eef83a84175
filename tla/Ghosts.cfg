SPECIFICATION Spec
CONSTANTS
    c = c
    q = q
    r = r
    Peer = {c, q, r}
    Creator = c
    Prop = {0}
    Refresh = 1
    Draw = {3}
    Period = 1
    Transit = 1
    MaxMoves <- NoMove
    MaxHits = 1
    MaxLosses = 1
    Horizon = 20
CONSTRAINT ShortVisit
INVARIANTS
    GhostsShortLived
CHECK_DEADLOCK FALSE
