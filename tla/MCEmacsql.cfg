SPECIFICATION FairSpec
CONSTANTS
    MaxQuery = 3
    MaxDepth = 2
INVARIANTS TypeOK SettledReturnsOwnResult OutOfStepOnlyAfterAbandon AnswersInOrder
PROPERTIES EveryCallReturns
CHECK_DEADLOCK FALSE
