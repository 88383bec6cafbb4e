SPECIFICATION Spec
CONSTANTS
    s1 = s1
    s2 = s2
    http = http
    ws = ws
    Sessions = {s1, s2}
    Workers = {w1, w2}
    None = None
    Resources = {r1, r2, r3}
    Streams = {http, ws}
    Websocket = {ws}
    Authored <- MCAuthoredTwo
    Ports = {p1, p2, p3}
    Exceptions = {"std", "foreign"}
    SocketsFail = TRUE
SYMMETRY Symmetry
INVARIANTS
    TypeOK
    MutexDiscipline
    PortsExclusive
    ObjectsConsistent
    NothingOrphaned
    NoPortLeaked
