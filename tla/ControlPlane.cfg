SPECIFICATION Spec
CONSTANTS
    http = http
    ws = ws
    Sessions = {s1}
    Workers = {w1, w2}
    None = None
    FetchAttempts = 2
    Resources = {r1, r2}
    Streams = {http, ws}
    Websocket = {ws}
    Authored <- MCAuthored
    Ports = {p1}
    Exceptions = {"std", "foreign"}
    SocketsFail = TRUE
INVARIANTS
    RecordMatchesRuntime
PROPERTIES
    MeetsCallerContract
    ImplementsService
    ImplementsSessionRun
