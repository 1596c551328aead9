SPECIFICATION MCSpec
CHECK_DEADLOCK FALSE
CONSTANTS
    FirstSid = 4
    MaxSid = 5
    Paths = {1}
    Shapes <- MCShapes
    MaxReq = 3
    MaxPieces = 2
    Statuses <- Every
    ByArrival = TRUE
    GoneReply = "dropped"
    MidWait = FALSE
    MaxWaits = 1
    Strays = TRUE
INVARIANTS
    AnswersRight
    FramingInStep
    NoneStranded
PROPERTY ImplementsIds
