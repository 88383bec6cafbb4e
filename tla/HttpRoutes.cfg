SPECIFICATION RouteSpec
CONSTANTS
    http = http
    ws = ws
    s1 = s1
    s2 = s2
    Sessions = {s1, s2}
    Workers = {w1, w2}
    Readers = {w1}
    None = None
    FetchAttempts = 1
    Resources = {r1, r2, r3}
    Streams = {http, ws}
    Websocket = {ws}
    Authored <- MCAuthored
    Ports = {p1, p2, p3}
    Exceptions = {}
    SocketsFail = FALSE
SYMMETRY Symmetry
INVARIANTS
    LeftAloneShownRight
PROPERTIES
    StrayOnlyAfterRelease
