CONSTANTS
    Level = 4
    PtesPerDir = 2
    Pages = {1, 2, 3, 4, 5, 6, 7, 8}
    Maps <- FourCalls
    Mappers = {m1, m2}
SPECIFICATION Spec
INVARIANTS Translates TreesApart LeaksLevelOne
PROPERTIES FreesItsOwn
SYMMETRY Symmetry
ACTION_CONSTRAINT LowestFree
CHECK_DEADLOCK FALSE
