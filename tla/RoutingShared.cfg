\* Two requests for one name at once, while its relay changes.
CONSTANTS
    Kinds <- BothKinds
    Names = {a}
    Labels = {a}
    ReservedName = control
    Infos <- RelayInfos
    TargetOk <- MCTargetOk
    KnownUsers = {a}
    NoInfo = NoInfo
    Clients = {c1}
    NoFile = NoFile
    Empty = Empty
    Torn = Torn
    MaxFails = 0
    MaxCrashes = 0
    Visitors = {r1, r2}
    Handlers = {h1, h2, h3}
    Conventional = {}
    NoHandler = NoHandler
    NoConn = NoConn
SYMMETRY RoutingSymmetry
SPECIFICATION RoutingSpec
INVARIANTS
    SharedProxy
