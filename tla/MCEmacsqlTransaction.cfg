SPECIFICATION Spec
CONSTANTS
    c1 = c1  c2 = c2  c3 = c3
    Conn = {c1, c2, c3}
    Depth = 2
SYMMETRY Symmetry
INVARIANTS TypeOK SingleUnlessInnerRetry ReturnedIsComplete NoLostUpdate NothingLeftOpen
CHECK_DEADLOCK FALSE
