CONSTANTS
  p1 = p1  p2 = p2
  a1 = a1  a2 = a2  s1 = s1  d1 = d1
  Peer = {p1, p2}
  Avatar = {a1, a2}
  Ball = {}
  Shot = {}
  Permanent = {}
  Owner <- OwnerMC
  Prop = {0, 2}
  HitProp = 2
  Timed <- TimedPlace
  Moving <- TimedPlace
  Value = {0}
  Start = 0
  Draws <- DrawsOne
  QueryBurst = 1
  ByRef = {p1, p2}
  NoOne = NoOne
  ForeignClient = FALSE
  VersMod = 16
  VersJump = 2
  ActBudget = 1
  FaultBudget = 1
  NetBound = 0
SPECIFICATION FairSpec
INVARIANTS
  TypeOK
PROPERTIES
  UsersMeet
  GhostsVanish
  ReplicasCatchUp
CHECK_DEADLOCK FALSE
