CONSTANTS
  p1 = p1  p2 = p2
  a1 = a1  a2 = a2  s1 = s1  d1 = d1
  Peer = {p1, p2}
  Avatar = {a1, a2}
  Ball = {}
  Shot = {}
  Permanent = {d1}
  Owner <- OwnerMC
  Prop = {0, 2}
  HitProp = 2
  Timed <- TimedQuiet
  Moving <- MovingLift
  Value = {0}
  Start = 0
  Draws <- DrawsApart
  QueryBurst = 1
  ByRef = {p1, p2}
  NoOne = NoOne
  ForeignClient = TRUE
  VersMod = 6
  VersJump = 2
  ActBudget = 1
  FaultBudget = 1
  NetBound = 0
SPECIFICATION TimelySpec
PROPERTIES
  YieldsToNewer
  VersionAssumed
  ConflictsEnd
CHECK_DEADLOCK FALSE
