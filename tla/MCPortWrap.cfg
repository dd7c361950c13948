CONSTANTS
    Ids = {i1, i2}
    Pids = {p1, p2}
    H = {h1, h2}
    NoId = NoId
    NoPid = NoPid
    PreviewDomain = TRUE
    PortSpace <- MCSmallPortSpace
    PortBase <- MCSmallPortBase
    ReqPorts = {0}
    RunLimits = {1}
    TTL = 1
    MaxTime = 0
    MaxPortAllocs = 3
SYMMETRY MCSymmetry
SPECIFICATION Spec
PROPERTY AutoPortsIncrease
