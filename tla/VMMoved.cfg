CONSTANTS
    VMIDs = {v1}
    VMStatus = {"ON", "OFF", "UNKNOWN"}
    Hosts = {p1, p2}
    Handlers = {h1}
    ThrowingHandlers = {}
    MaxListing = 1
    Null = Null
SPECIFICATION Spec
INVARIANT RefreshedVMsAreExact
