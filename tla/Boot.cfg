CONSTANTS
    WordBase = 64
    Trees <- MCTrees
    Addrs = {512, 520}
    Sizes = {0, 3, 40, 2000}
    HeapPages <- MCHeapPages
    PAGE_SIZE = 16
SPECIFICATION Spec
INVARIANTS TreeRead DevicesFound
 
CHECK_DEADLOCK FALSE
