CONSTANTS
    d1 = d1
    d2 = d2
    r1 = r1
    r2 = r2
    r3 = r3
    DataCenters = {d1, d2}
    Racks = {r1, r2, r3}
    Hosts = {p1, p2, p3}
    DataCenterOf <- MCDataCenterOf
    HostsLeave = TRUE
    ID_UNKNOWN = ID_UNKNOWN
    Null = Null
SPECIFICATION Spec
INVARIANTS
    LookupsAgree
    TopologyExact
