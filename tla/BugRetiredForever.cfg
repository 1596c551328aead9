SPECIFICATION MCSpec
CHECK_DEADLOCK FALSE
CONSTANTS
    FirstSid = 4
    MaxSid = 5
    Paths = {}
    Shapes <- PlainPaged
    MaxReq = 2
    MaxPieces = 2
    Statuses <- Every
    ByArrival = FALSE
    GoneReply = "dropped"
    MidWait = FALSE
    MaxWaits = 1
    Strays = FALSE
INVARIANTS
    RetiredIsOwed
