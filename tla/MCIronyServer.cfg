SPECIFICATION MCSpec
CONSTANTS
    Number <- MCNumber
    TempPath <- MCTempPath
    File <- MCFile
    Flags <- MCFlags
    Text <- MCText
    Dir <- MCDir
    NoDir <- MCNoDir
    Handle <- MCHandle
    Character <- MCCharacter
    Wide <- MCWide
    Lower <- MCLower
    Prefix <- MCPrefix
    String <- MCString
    MaxRequests = 3
    MaxVersion = 3
    MaxTime = 3
INVARIANT TypeOK
INVARIANT NoDangling
INVARIANT AnswersOwnRequest
INVARIANT ArrivesAsSent
INVARIANT ExitsOnlyFor
INVARIANT CutsWhereMeant
INVARIANT ServedIsFresh
CHECK_DEADLOCK FALSE
