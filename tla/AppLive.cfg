CONSTANTS
    d1 = d1
    r1 = r1
    VMIDs = {v1}
    VMStatus = {"ON", "OFF", "UNKNOWN"}
    Hosts = {p1}
    Handlers = {dm, h1}
    ThrowingHandlers = {}
    MaxListing = 1
    DataCenters = {d1}
    Racks = {r1}
    DataCenterOf <- MCDataCenterOf
    HostsLeave = TRUE
    ID_UNKNOWN = ID_UNKNOWN
    Null = Null
    daemonManager = dm
SPECIFICATION FairSpec
INVARIANTS
    CleanRefreshes
    DeploysFromTheTruth
PROPERTIES
    ShutdownExits
    Converges
    EventsArrive
    TruthLasts
CHECK_DEADLOCK FALSE
