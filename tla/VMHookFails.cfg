CONSTANTS
    VMIDs = {v1}
    VMStatus = {"ON", "OFF", "UNKNOWN"}
    Hosts = {p1}
    Handlers = {h1}
    ThrowingHandlers = {h1}
    MaxListing = 1
    Null = Null
SPECIFICATION Spec
INVARIANT CleanRefreshSucceeds
CHECK_DEADLOCK FALSE
