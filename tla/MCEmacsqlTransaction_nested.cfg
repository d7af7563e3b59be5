SPECIFICATION Spec
CONSTANTS
    c1 = c1  c2 = c2  c3 = c3
    Conn = {c1, c2}
    Depth = 2
INVARIANTS SingleTransaction
CHECK_DEADLOCK FALSE
