SPECIFICATION Spec
CONSTANTS
    Ids = {1, 2}
    Chunk = 2
    Want = 4
    FileEnd = 3
    Callbacks = TRUE
    MaxOdd = 1
    NoFrame = NoFrame
    Size = 4
    WorkerCount = 2
    MaxLosses = 2
    Root = "m1"
    Managers = {"m1", "m2"}
    Servers = {"s1", "s2", "s3"}
    Answers <- MCAnswers
    Length = 4
    Block = 2
    Sources = 2
    MaxElement = 2
    MaxChunks = 2
    MaxBytes = 3
    VecEnd = 4
    VecRanges <- MCRanges
    Units = 3
    Depth = 2
    PgwRetry = 2
    MaxWrites = 2
    Nothing = Nothing
INVARIANTS WireSafe ReturnsRight BulkRight NoBlockLost WritesRight
PROPERTIES EveryMoveEnds
CHECK_DEADLOCK FALSE
