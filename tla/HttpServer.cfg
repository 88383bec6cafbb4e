SPECIFICATION Spec
CONSTANTS
    Listener = Listener
    Stoppers = {t1}
    Connections = {c1, c2}
CHECK_DEADLOCK FALSE
INVARIANTS
    TypeOK
    NoThreadAbandoned
PROPERTIES
    ShutdownEnds
    StopClosesBridges
    BridgeEndsWhole
