SPECIFICATION FairSpec
CONSTANTS
    r1 = r1  r2 = r2  r3 = r3  b1 = b1  b2 = b2  NoBuf = NoBuf
    Req = {r1, r2, r3}
    Buf = {b1}
    MaxChain = 1
    EarlyReject = TRUE
INVARIANTS HeadRuns
PROPERTIES EveryRequestAnswered
CHECK_DEADLOCK FALSE
