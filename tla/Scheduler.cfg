CONSTANTS
    NiceMin <- MinusTwo
    NiceMax = 1
    Nices = {1, 2}
    Reniced = {1}
    Sleeps = {0, 1}
    Segments <- CodeOnly
    MaxPid = 3
CHECK_DEADLOCK FALSE
SPECIFICATION FairSpec
INVARIANTS TypeOK RunQueue Spread Resumed StackIntact FramesExact Private
PROPERTIES NoStarvation
