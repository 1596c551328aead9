SPECIFICATION Spec
CONSTANTS
    A = A
    B = B
    Threads <- Two
    Nobody = Nobody
    Opener = A
    Handles = {1, 2}
    Retries = 1
    MaxCalls = 2
    MaxConns = 3
    MaxMishaps = 1
PROPERTY ReopenedOnce
CHECK_DEADLOCK FALSE
