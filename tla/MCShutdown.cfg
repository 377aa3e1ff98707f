SPECIFICATION FairSpec
CONSTANTS
    s1 = s1
    s2 = s2
    n = n
    Sessions <- TwoSessions
    Names <- OneName
    NoName = NoName
    KeepFiles = FALSE
CHECK_DEADLOCK FALSE
INVARIANTS
    TypeOK
    ArtifactSafe
    MetadataLast
    CleanExitStops
PROPERTIES
    ShutdownEnds
