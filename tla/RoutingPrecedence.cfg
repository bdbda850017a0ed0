\* A relay added while a request finds the conventional socket.
CONSTANTS
    Kinds <- BothKinds
    Names = {a}
    Labels = {a}
    ReservedName = control
    Infos <- OneRelay
    TargetOk <- MCTargetOk
    KnownUsers = {a}
    NoInfo = NoInfo
    Clients = {c1}
    NoFile = NoFile
    Empty = Empty
    Torn = Torn
    MaxFails = 0
    MaxCrashes = 0
    Visitors = {r1}
    Handlers = {h1, h2, h3}
    Conventional = {a}
    NoHandler = NoHandler
    NoConn = NoConn
SYMMETRY RoutingSymmetry
SPECIFICATION RoutingSpec
INVARIANTS
    RelayTakesPrecedence
