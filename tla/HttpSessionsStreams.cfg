SPECIFICATION PageSpec
CONSTANTS
    http = http
    Sessions = {s1}
    Workers = {w1, w2}
    Readers = {w1}
    None = None
    FetchAttempts = 1
    Resources = {r1, r2}
    Streams = {http}
    Websocket = {}
    Authored <- MCAuthored
    Ports = {p1}
    Exceptions = {"std"}
    SocketsFail = FALSE
SYMMETRY Symmetry
INVARIANT
    StreamsOnlyForRunning
