SPECIFICATION Spec
CONSTANTS
    b1 = b1  b2 = b2  NoPath = NoPath
    Buf = {b1}
    NewFile = {}
    MaxTick = 3
    MaxReq = 3
    MaxQueue = 2
INVARIANTS ParseSeesEdits
CHECK_DEADLOCK FALSE
