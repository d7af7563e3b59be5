SPECIFICATION FairSpec
CONSTANTS
    MaxCall = 2
    MaxContent = 1
PROPERTIES EveryCallReturns
CHECK_DEADLOCK FALSE
