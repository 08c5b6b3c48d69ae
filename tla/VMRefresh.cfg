CONSTANTS
    VMIDs = {v1, v2}
    VMStatus = {"ON", "OFF"}
    Hosts = {p1}
    Handlers = {h1, h2}
    ThrowingHandlers = {h2}
    MaxListing = 3
    Null = Null
SPECIFICATION Spec
SYMMETRY SymmetryOfVMs
INVARIANTS
    TypeOK
    ViewsAgree
    SuccessfulRefreshIsExact
    RestedRefreshIsExact
    UpdatesFindTheirVM
PROPERTIES
    OnlyGoneVMsLeave
    OnlyRepairs
    RefreshAdvances
    FeedSpec
CHECK_DEADLOCK FALSE
