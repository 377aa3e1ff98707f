SPECIFICATION Spec
CONSTANTS
    l1 = l1
    l2 = l2
    Unreadable = Unreadable
    Names <- Chrome
    Versions <- ThreeVersions
    Loads <- TwoLoads
    Discovery = TRUE
    MaxImages = 2
    MaxEdits = 1
INVARIANTS
    TypeOK
    FileWins
    ScannedDefaultIsNewest
PROPERTIES
    OutageKeepsCatalog
