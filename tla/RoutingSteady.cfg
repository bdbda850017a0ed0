\* One control client, one name, concurrent requests.
CONSTANTS
    Kinds <- BothKinds
    Names = {a}
    Labels = {a}
    ReservedName = control
    Infos <- TwoTargets
    TargetOk <- MCTargetOk
    KnownUsers = {a}
    NoInfo = NoInfo
    Clients = {c1}
    NoFile = NoFile
    Empty = Empty
    Torn = Torn
    MaxFails = 0
    MaxCrashes = 0
    Visitors = {r1}
    Handlers = {h1, h2, h3}
    Conventional = {a}
    NoHandler = NoHandler
    NoConn = NoConn
SYMMETRY RoutingSymmetry
SPECIFICATION RoutingSpec
INVARIANTS
    RoutingTypeOK
    ServesRegistered
    
PROPERTIES
    NotFoundIsTrue
