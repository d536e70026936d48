CONSTANTS
    Tasks = {t1, t2}
    Paths <- SomePaths
    Devices = {"tty0"}
    Sizes = {1, 3}
    Positions = {0, 6}
    OffMax = 6
    KmsgMax = 2
    Limits = {0, 1}
    MsgLens = {1, 2}
    MaxFd = 2
    MaxFiles = 2
    MaxMsgs = 3
SPECIFICATION Spec
INVARIANTS DescriptorsKept KmsgGapless RingKeepsNewest
SYMMETRY Symmetry
CONSTRAINT Unaliased
CHECK_DEADLOCK FALSE
