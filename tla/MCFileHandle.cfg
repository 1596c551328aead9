SPECIFICATION Spec
CONSTANTS
    A = A
    B = B
    Threads <- Two
    Nobody = Nobody
    Opener = A
    Handles = {1}
    Retries = 1
    MaxCalls = 2
    MaxConns = 3
    MaxMishaps = 2
INVARIANTS HandleSafe WriterSafe
PROPERTIES NoOpenAfterAbort EveryCallEnds
CHECK_DEADLOCK FALSE
