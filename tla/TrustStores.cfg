\* Commands one after another, with failures, kills and a changing world.
CONSTANTS
    p1 = p1
    p2 = p2
    n1 = n1
    LocalCAs = {l1, l2}
    Others = {o1}
    Junk = Junk
    Absent = Absent
    Flags <- AllFlags
    Stores <- AllStores
    Platforms <- MCPlatforms
    FlagSets <- MCFlagSets
    Firefox <- Profiles
    Chrome <- Databases
    DefaultDB = n1
    MaxCommands = 2
    MaxFails = 1
    MaxCrashes = 1
    MaxEvents = 1
SYMMETRY TrustSymmetry
SPECIFICATION TrustSpec
INVARIANTS
    TrustTypeOK
    PublicCA
    
    
    
PROPERTIES
    PairKept
    
    
