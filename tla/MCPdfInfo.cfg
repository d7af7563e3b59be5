SPECIFICATION FairSpec
CONSTANTS
    MaxCall = 4
    MaxContent = 3
INVARIANTS TypeOK InStep CalmCacheFresh SavedIsShown
PROPERTIES EveryUndisturbedCallReturns
CHECK_DEADLOCK FALSE
