SPECIFICATION Spec
CONSTANTS
    r1 = r1  r2 = r2  r3 = r3  b1 = b1  b2 = b2  NoBuf = NoBuf
    Req = {r1, r2, r3}
    Buf = {b1, b2}
    MaxChain = 2
    EarlyReject = FALSE
INVARIANTS TypeOK Accounted HeadRuns NoOrphans OutputBelongsToHead
PROPERTIES ImplementsService
CHECK_DEADLOCK FALSE
