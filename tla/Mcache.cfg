CONSTANTS
    Classes = {"m", "s"}
    MgrClass = "m"
    Cells <- TwoCells
    SlotNum = 3
    MaxMgrs = 4
    MaxCaches = 7
SPECIFICATION Spec
INVARIANTS ObjectsHomed ListsAgree ChainServes
CHECK_DEADLOCK FALSE
