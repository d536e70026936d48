CONSTANTS
    Base = 256
    Programs <- MCPrograms
    Content <- MCContent
    BlockSizes = {1, 2, 4}
    PAGE_SIZE = 2
    USER_STACK_PAGES = 2
    BUF_SIZE = 3
    UtsLen = 1
    PhysPages = 7
    KernelBase = 50
    Buffers = {3, 4, 5, 9, 101, 103}
    Counts = {0, 1, 7}
    MaxString = 9
    MaxCalls = 2
SPECIFICATION Spec
INVARIANTS LoadedImage SameMemory
PROPERTIES StringEnds
CHECK_DEADLOCK FALSE
