SPECIFICATION Spec
CONSTANTS
    Sessions = {s1, s2}
    Workers = {w1, w2}
    None = None
    FetchAttempts = 3
INVARIANTS
    TypeOK
    OneLifecycleOpPerSession
    TransitionHasOwner
    OwnerStillHolds
    SettledViewsAgree
PROPERTIES
    RecordChangesByOwner
    EveryRequestEnds
    ImplementsLifecycle
