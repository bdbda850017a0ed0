\* Two clients save one registry at once; nothing fails.
CONSTANTS
    Kinds <- OnlyRelays
    Names = {a, b}
    Labels = {a, b}
    ReservedName = control
    Infos = {x}
    badTarget = bad
    TargetOk <- MCTargetOk
    KnownUsers = {a}
    NoInfo = NoInfo
    Clients = {c1, c2}
    NoFile = NoFile
    Empty = Empty
    Torn = Torn
    MaxFails = 0
    MaxCrashes = 1
SPECIFICATION Spec
INVARIANTS
    AlwaysLoadable
