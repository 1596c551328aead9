SPECIFICATION Spec
CHECK_DEADLOCK FALSE
SYMMETRY Alike
CONSTANTS
    A = A
    B = B
    Threads <- Two
    Nobody = Nobody
    Reaper = Reaper
    Routers = {1, 2, 3}
    Namespaces = {1}
    Files = {}
    MaxConns = 2
    Servers = {1, 2}
    Idents = {1, 2}
    PoolSize = 1
    RedirectLimit = 2
    MaxRedirects = 2
    Retries = 1
    MaxCalls = 3
    Calls = {"execute", "close", "discard", "abort", "lend", "pin", "clear", "collect"}
    MaxMishaps = 1
INVARIANTS ConnsSafe PooledAsItself AbortedHoldsNothing
