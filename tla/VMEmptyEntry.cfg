CONSTANTS
    VMIDs = {v1, v2}
    VMStatus = {"ON", "OFF"}
    Hosts = {p1}
    Handlers = {h1}
    ThrowingHandlers = {}
    RefreshingHandlers = {h1}
    MaxListing = 2
    MaxDepth = 1
    Null = Null
SPECIFICATION ReentrantSpec
SYMMETRY SymmetryOfVMs
VIEW AllButViews
INVARIANTS
    EntriesHoldVMs
CHECK_DEADLOCK FALSE
