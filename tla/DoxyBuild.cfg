SPECIFICATION Spec
CONSTANTS
    Classes <- AllClasses
    MaxChildren = 2
INVARIANTS
    Lossless
    Settles
    ReadsItself
    DescriptionInOrder
CHECK_DEADLOCK FALSE
