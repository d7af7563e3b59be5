SPECIFICATION Spec
CONSTANTS
    MaxAnnot = 3
    MaxEpoch = 3
INVARIANTS TypeOK Bookkeeping KeyNamesOwn ListIsCurrent UnmodifiedIsFile
CHECK_DEADLOCK FALSE
