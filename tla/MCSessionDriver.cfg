SPECIFICATION Spec
CHECK_DEADLOCK FALSE
CONSTANTS
    A = A
    B = B
    Threads <- Two
    NoThread = NoThread
    Sids = {4, 5}
    MaxRequests = 3
    ReqSizes = {2}
    ReplySizes = {1}
    UpCap = 2
    DownCap = 1
    MaxWaits = 1
    Expiries = TRUE
    Failures = {"eof", "timeout", "close", "bulk"}
INVARIANTS ReaderSafe MailSafe BulkAlone
PROPERTIES InOrder EveryRequestEnds
