CONSTANTS
    Arches <- Both
    MaxPid = 2
    MaxSections = 3
SPECIFICATION Spec
INVARIANTS LocksSafe Registers RunsAsItself
PROPERTIES TrapReturns PanicReported
CHECK_DEADLOCK FALSE
