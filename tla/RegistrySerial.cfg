\* One control client, both registries, failing file operations and crashes.
CONSTANTS
    Kinds <- BothKinds
    Names = {a, b, control, malformed}
    Labels = {a, b, control}
    ReservedName = control
    Infos = {x, bad}
    badTarget = bad
    TargetOk <- MCTargetOk
    KnownUsers = {a}
    NoInfo = NoInfo
    Clients = {c1}
    NoFile = NoFile
    Empty = Empty
    Torn = Torn
    MaxFails = 1
    MaxCrashes = 1
SPECIFICATION Spec
INVARIANTS
    TypeOK
    AlwaysLoadable
    OneKindUnlessSaveFailed
PROPERTIES
    ImplementsDurable
