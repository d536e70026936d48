CONSTANTS
    MaxPow = 3
    Shl <- MCShl
    NodeCap = 5
    ExtCap = 4
    ExtPow = 1
    Zones <- TwoZones
    Requests = {1, 2, 3}
SPECIFICATION Spec
INVARIANTS TypeOK Tiling Accounting NoRoomLost
PROPERTIES AllocKeepsNodes Implements
CONSTRAINT Explored
CHECK_DEADLOCK FALSE
