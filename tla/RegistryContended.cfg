\* Two control clients on one registry, failing file operations and crashes.
CONSTANTS
    Kinds <- OnlyRelays
    Names = {a, b}
    Labels = {a, b}
    ReservedName = control
    Infos = {x}
    TargetOk <- MCTargetOk
    KnownUsers = {}
    NoInfo = NoInfo
    Clients = {c1, c2}
    NoFile = NoFile
    Empty = Empty
    Torn = Torn
    Unknown = Unknown
    MaxFails = 1
    MaxCrashes = 1
SYMMETRY ClientSymmetry
SPECIFICATION AuditSpec
INVARIANTS
    AckedSurvives
\* A daemon that finds a torn file refuses to start: the system stops there.
CHECK_DEADLOCK FALSE
