CONSTANTS
  p1 = p1  p2 = p2
  a1 = a1  a2 = a2  s1 = s1  d1 = d1
  Peer = {p1, p2}
  Avatar = {a1, a2}
  Ball = {}
  Shot = {s1}
  Permanent = {d1}
  Owner <- OwnerMC
  Prop = {0, 1, 2}
  HitProp = 2
  Timed <- TimedMC
  Moving <- MovingMC
  Value = {0}
  Start = 0
  Draws <- DrawsOne
  QueryBurst = 0
  ByRef = {p1, p2}
  NoOne = NoOne
  ForeignClient = FALSE
  VersMod = 16
  VersJump = 2
  ActBudget = 2
  FaultBudget = 1
  NetBound = 0
SPECIFICATION Spec
CONSTRAINT SmallNet
INVARIANTS
  NeverAhead
  LocalUserSurvives
  CreatorResponsible
  ReplicasSilent
  PermanentsDormant
  WireOwned
PROPERTIES
  NoRegress
CHECK_DEADLOCK FALSE
