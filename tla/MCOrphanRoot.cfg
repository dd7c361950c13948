CONSTANTS
    Ids = {i1, i2}
    Pids = {p1, p2}
    H = {h1}
    NoId = NoId
    NoPid = NoPid
    PreviewDomain = TRUE
    PortSpace <- MCPortSpace
    PortBase <- MCPortBase
    ReqPorts = {0}
    RunLimits = {1}
    TTL = 1
    MaxTime = 0
    MaxPortAllocs = 0
SYMMETRY MCSymmetry
SPECIFICATION Spec
INVARIANT NoOrphanRoot
