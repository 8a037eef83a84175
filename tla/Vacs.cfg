SPECIFICATION Spec
CONSTANTS
    manager = manager
    w1 = w1  w2 = w2  w3 = w3  local = local
    World = {manager, w1, w2, w3, local}
    Manager = manager
    Qualified = {manager, w1, w2, w3}
    Version = {7, 8, 9}
    VRE_VERSION = 8
    Directory = {8, 9}
    NoFile = NoFile
    Addresses = 3
    Ports = 16
    VRENG_MPORT_INCR = 2
    MaxRecords = 2
    MaxStarts = 1
INVARIANTS
    TypeOK
    ChannelsDistinct
PROPERTIES
    ChannelKept
CHECK_DEADLOCK FALSE
