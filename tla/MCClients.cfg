SPECIFICATION Spec
CONSTANTS
    Tasks = {1}
    PoolSize = 2
    MaxCalls = 3
    Nodes = {"top", "d", "f", "l", "g", "out", "x"}
    Up <- MCUp
    Kinds0 <- MCKinds0
    LinkTargets = {"out", "top", "d", "f"}
    Topologies <- MCTopologies
    Listing <- MCListing
    NsRetries = 1
    MaxDepth = 5
    FileUnits = 3
    ReadRetries = 1
    RedirectLimit = 2
    StreamAfter = 1
    PartSize = 2
    PathDepth = 3
    Spans <- MCSpans
    MaxOpens = 3
    MaxCloses = 2
    MaxParts = 3
    Servers = {s1, s2}
    CopyJobs = {1, 2}
    JobKinds <- MCJobKinds
    Parallel = 2
INVARIANTS AsyncSafe WalkSafe CallHonest WebRight CompatRight
PROPERTIES EveryCallEnds
CHECK_DEADLOCK FALSE
