SPECIFICATION Spec
CONSTANTS
    Units = 2
    Retries = 1
    Asked <- MCAsked
    Pulls <- MCPulls
    MaxReports = 1
    Names = {a, b}
    TreeWorkers = 2
    MaxStale = 2
    LocalUnits = 3
INVARIANTS CopySafe PullSafe TreeSafe
PROPERTIES KeepsTheirs EveryCopyEnds
CHECK_DEADLOCK FALSE
