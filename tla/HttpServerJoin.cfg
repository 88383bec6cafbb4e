SPECIFICATION Spec
CONSTANTS
    Listener = Listener
    Stoppers = {t1}
    Connections = {c1}
CHECK_DEADLOCK FALSE
INVARIANT
    EveryCallReturns
