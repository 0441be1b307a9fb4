SPECIFICATION Spec
CONSTANTS
    Compounds <- AllCompounds
    MaxIndex = 3
INVARIANTS
    ClassesOnce
    FunctionsOnce
    StopsFor
CHECK_DEADLOCK FALSE
