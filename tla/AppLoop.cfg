CONSTANTS
    d1 = d1
    r1 = r1
    VMIDs = {v1, v2}
    VMStatus = {"ON"}
    Hosts = {p1, p2}
    Handlers = {dm, h1}
    ThrowingHandlers = {h1}
    MaxListing = 2
    DataCenters = {d1}
    Racks = {r1}
    DataCenterOf <- MCDataCenterOf
    HostsLeave = FALSE
    ID_UNKNOWN = ID_UNKNOWN
    Null = Null
    daemonManager = dm
SPECIFICATION Spec
SYMMETRY HostSymmetry
INVARIANTS
    KnownVMsArePlaced
    DaemonManagerInformed
    DeploysFromTheTruth
PROPERTY ShutdownAdvances
CHECK_DEADLOCK FALSE
