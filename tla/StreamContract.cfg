SPECIFICATION Spec
CONSTANTS
    n1 = n1
    n2 = n2
    t = t
    Names = {n1, n2, t}
    Empty = Empty
    Other = Other
    Missing = Missing
    BlockTypes = {t}
    AuthoredBlocks <- MCAuthoredBlocks
    AuthoredConnections <- MCAuthoredConnections
CHECK_DEADLOCK FALSE
INVARIANTS
    TypeOK
    DeclaredIsManaged
    EndpointsReachTheirBlocks
    InjectionFailsOnlyWhenAmbiguous
