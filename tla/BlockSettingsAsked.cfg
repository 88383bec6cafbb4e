SPECIFICATION Spec
CONSTANTS
    Clients = {c1}
    RuntimeBlocks <- MCRuntimeBlocks
    Targets = {"Source#0"}
    Updates <- MCWideUpdates
    None = None
    HalfWord = 4
    MaxRequests = 2
    MaxRuns = 2
CHECK_DEADLOCK FALSE
INVARIANT
    AcceptedAsAsked
