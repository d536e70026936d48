CONSTANTS
    MaxPow = 4
    Shl <- MCShl
    NodeCap = 8
    ExtCap = 5
    ExtPow = 0
    Zones <- OneZone
    Requests = {1, 2}
SPECIFICATION Spec
INVARIANTS PagesDisjoint
CHECK_DEADLOCK FALSE
