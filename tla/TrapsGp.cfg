CONSTANTS
    Arches <- Both
    MaxPid = 2
    MaxSections = 2
SPECIFICATION Spec
INVARIANTS GlobalPointer
CHECK_DEADLOCK FALSE
