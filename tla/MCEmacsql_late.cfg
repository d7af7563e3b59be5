SPECIFICATION Spec
CONSTANTS
    MaxQuery = 2
    MaxDepth = 1
INVARIANTS ReturnsOwnResult
CHECK_DEADLOCK FALSE
