SPECIFICATION Spec
CONSTANTS
    Clients = {c1, c2}
    RuntimeBlocks <- MCRuntimeBlocks
    Targets = {"Source#0", "none"}
    Updates <- MCUpdates
    None = None
    HalfWord = 4
    MaxRequests = 3
    MaxRuns = 2
CHECK_DEADLOCK FALSE
INVARIANTS
    TypeOK
    OutcomesTruthful
    ReadsSeeAcceptedWrites
PROPERTIES
    EverySettingsRequestEnds
