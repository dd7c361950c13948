CONSTANTS
    Ids = {i1, i2}
    Pids = {p1, p2}
    H = {h1, h2}
    NoId = NoId
    NoPid = NoPid
    PortSpace <- MCPortSpace
    PortBase <- MCPortBase
    ReqPorts <- MCReqPorts
    RunLimits = {1}
    TTL = 1
    MaxTime = 2
    MaxPortAllocs = 1
    PreviewDomain = TRUE
SYMMETRY MCSymmetry
SPECIFICATION Spec
INVARIANTS TypeOK LiveRootsExist PortsNoDuplicates
PROPERTIES UntrackedOnlyWhenKilled ImplementsLifecycle
