SPECIFICATION Spec
CONSTANTS
    Blocks = {1, 2, 3}
    Schedulers = {1}
    Descriptors <- MCDescriptors
    Callers = {main, client}
    Main = main
    None = None
    PayloadParts = 2
    PipeCapacity = 1
CHECK_DEADLOCK FALSE
INVARIANTS
    TypeOK
    CatalogWhole
    BrowseCollapsed
    ChildrenReaped
    MainLoadsFirst
PROPERTIES
    EveryRequestAnswered
