\* Two clients, over one more than a year, with the files rewritten once.
CONSTANTS
    k1 = k1
    x = x
    Labels <- MCLabels
    ValidNames <- Valid
    Lower <- MCLower
    Asked <- Snis
    Clients = {c1, c2}
    Pairs <- AllPairs
    Authorities <- AllPairs
    Constrained <- Good
    NoFile = NoFile
    Junk = Junk
    NoPair = NoPair
    NoLeaf = NoLeaf
    Year = 2
    MaxTime = 2
    MaxWrites = 1
SPECIFICATION MinterSpec
INVARIANTS
    MinterTypeOK
    OneLeafPerHost
    
    ServedValid
    RefusedRightly
PROPERTIES
    Settles
