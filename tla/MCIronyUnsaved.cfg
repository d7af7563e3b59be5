SPECIFICATION Spec
CONSTANTS
    b1 = b1  b2 = b2  NoPath = NoPath
    Buf = {b1, b2}
    NewFile = {b2}
    MaxTick = 3
    MaxReq = 3
    MaxQueue = 2
INVARIANTS TypeOK CalmParseSeesEdits NothingHeldUnknown RecordNotAhead
CHECK_DEADLOCK FALSE
